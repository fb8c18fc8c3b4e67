-------------------------- MODULE SurfaceSession_proofs ---------------------------
(***************************************************************************)
(* Proofs about SurfaceSession, for any clients, documents, rules, and     *)
(* placements of leases, spellings and processes.                          *)
(*                                                                         *)
(* The argument.  At most one lease exists, and no handle is open beside   *)
(* it (Exclusive); so only its owner can be in a write (Sole), and what    *)
(* it observed stays in the file until it writes.  A client writes only    *)
(* after it compared its copy with the file, and no backup is ever         *)
(* removed: the first client to write has copied the original (Local).     *)
(***************************************************************************)
EXTENDS SurfaceSession, SharedLemmas, FiniteSetTheorems, SequenceTheorems, TLAPS

-------------------------------------------------------------------------------
(* Documents and their writing.                                            *)

(* The names, and those that neither have a dot nor are empty: paths are  *)
(* split into these.                                                      *)
Strings == Range(Names)
Words   == Strings \ ({""} \cup DOMAIN Dotted)

(* The documents with values in X.                                         *)
Docs(X) == {d \in UNION {[S -> X] : S \in SUBSET Seq(Strings)} : IsDocument(d)}

(* A document with values in X.                                           *)
LEMMA DocsAre ==
  ASSUME NEW X, NEW d
  PROVE  d \in Docs(X) <=> IsDocument(d) /\ d \in [DOMAIN d -> X]
  <1>1. ASSUME IsDocument(d), d \in [DOMAIN d -> X]
        PROVE  d \in Docs(X)
    <2>1. DOMAIN d \in SUBSET Seq(Strings)
      BY <1>1 DEF IsDocument, Strings
    <2> QED BY <1>1, <2>1 DEF Docs
  <1>2. ASSUME d \in Docs(X)
        PROVE  IsDocument(d) /\ d \in [DOMAIN d -> X]
    BY <1>2 DEF Docs
  <1> QED BY <1>1, <1>2

(* What a function with these values has to satisfy.                       *)
LEMMA DocsHave ==
  ASSUME NEW X, NEW S, NEW d \in [S -> X],
         IsFiniteSet(S), <<>> \in S, \A n \in S : n \in Seq(Strings),
         \A n \in S \ {<<>>} : Front(n) \in S /\ d[Front(n)] \in Containers,
         \A n \in S : d[n] = Array =>
            \E length \in 0..Len(Numerals) : Children(d, n) = {Append(n, Numerals[i]) : i \in 1..length}
  PROVE  d \in Docs(X)
  <1>1. DOMAIN d = S
    OBVIOUS
  <1>2. d \in [DOMAIN d -> Range(d)]
    BY <1>1 DEF Range
  <1>3. IsDocument(d)
    BY <1>1, <1>2 DEF IsDocument, Strings
  <1> QED BY <1>1, <1>3, DocsAre

(* Numerals are words and indices.                                        *)
LEMMA NumeralIs ==
  ASSUME NEW i \in 1..Len(Numerals)
  PROVE  /\ Numerals[i] \in Words /\ Words \subseteq Strings /\ i \in Nat /\ Len(Numerals) \in Nat
         /\ IsIndex(Numerals[i]) /\ IndexOf(Numerals[i]) = i - 1
  <1>0. Numerals \in Seq(Words)
    BY NumeralsAssumption DEF Words, Strings
  <1>1. Numerals[i] \in Words /\ Len(Numerals) \in Nat /\ i \in Nat
    BY <1>0, ElementOfSeq, LenProperties
  <1>2. IsIndex(Numerals[i])
    BY DEF IsIndex
  <1>3. (CHOOSE j \in 1..Len(Numerals) : Numerals[j] = Numerals[i]) = i
    BY NumeralsAssumption
  <1> QED BY <1>1, <1>2, <1>3 DEF IndexOf, Words

(* The index of a part that has one.                                      *)
LEMMA IndexIs ==
  ASSUME NEW part, IsIndex(part)
  PROVE  /\ IndexOf(part) + 1 \in 1..Len(Numerals) /\ Numerals[IndexOf(part) + 1] = part
         /\ IndexOf(part) \in Nat /\ part \in Words
  <1>1. PICK i \in 1..Len(Numerals) : Numerals[i] = part
    BY DEF IsIndex
  <1>2. IndexOf(part) = i - 1 /\ i \in Nat /\ part \in Words
    BY <1>1, NumeralIs
  <1>3. IndexOf(part) + 1 = i
    BY <1>2
  <1> QED BY <1>1, <1>2, <1>3

(* The children of a node.                                                 *)
LEMMA ChildrenAre ==
  ASSUME NEW d, \A n \in DOMAIN d : n \in Seq(Strings), NEW node \in Seq(Strings), NEW n
  PROVE  n \in Children(d, node) <=> n \in DOMAIN d /\ n # <<>> /\ Front(n) = node
  <1>1. ASSUME n \in Children(d, node)
        PROVE  n \in DOMAIN d /\ n # <<>> /\ Front(n) = node
    <2>1. n \in DOMAIN d /\ n \in Seq(Strings) /\ Len(n) = Len(node) + 1 /\ IsPrefix(node, n)
      BY <1>1 DEF Children
    <2>2. Len(node) \in Nat /\ n # <<>>
      BY <2>1, LenProperties, EmptySeq
    <2>3. /\ Front(n) \in Seq(Strings) /\ Len(Front(n)) = Len(n) - 1
          /\ \A i \in 1..(Len(n) - 1) : Front(n)[i] = n[i]
      BY <2>1, <2>2, FrontIs
    <2>4. \A i \in 1..Len(node) : node[i] = n[i]
      BY <2>1, PrefixByElements
    <2>5. Len(Front(n)) = Len(node) /\ \A i \in 1..Len(node) : Front(n)[i] = node[i]
      BY <2>1, <2>2, <2>3, <2>4
    <2>6. Front(n) = node
      BY <2>3, <2>5, SeqEqual
    <2> QED BY <2>1, <2>2, <2>6
  <1>2. ASSUME n \in DOMAIN d, n # <<>>, Front(n) = node
        PROVE  n \in Children(d, node)
    <2>1. n \in Seq(Strings)
      BY <1>2
    <2>2. Len(Front(n)) = Len(n) - 1 /\ IsPrefix(Front(n), n) /\ Len(n) \in Nat
      BY <1>2, <2>1, FrontIs
    <2> QED BY <1>2, <2>2 DEF Children
  <1> QED BY <1>1, <1>2

(* A node of a document, and the container it is in.                      *)
LEMMA NodeIs ==
  ASSUME NEW d, IsDocument(d), NEW n \in DOMAIN d
  PROVE  /\ n \in Seq(Strings)
         /\ n # <<>> => /\ Front(n) \in DOMAIN d /\ d[Front(n)] \in Containers
                        /\ d[Front(n)] = Array => IsIndex(Last(n))
                        /\ Front(n) \in Seq(Strings) /\ Last(n) \in Strings
                        /\ n = Append(Front(n), Last(n))
  <1>1. n \in Seq(Strings) /\ \A m \in DOMAIN d : m \in Seq(Strings)
    BY DEF IsDocument, Strings
  <1>2. ASSUME n # <<>>
        PROVE  /\ Front(n) \in DOMAIN d /\ d[Front(n)] \in Containers
               /\ d[Front(n)] = Array => IsIndex(Last(n))
               /\ Front(n) \in Seq(Strings) /\ Last(n) \in Strings
               /\ n = Append(Front(n), Last(n))
    <2>1. Front(n) \in DOMAIN d /\ d[Front(n)] \in Containers
      BY <1>2 DEF IsDocument
    <2>2. Front(n) \in Seq(Strings) /\ Last(n) \in Strings /\ n = Append(Front(n), Last(n))
      BY <1>1, <1>2, FrontIs, FrontAndLast
    <2>3. ASSUME d[Front(n)] = Array PROVE IsIndex(Last(n))
      <3>1. n \in Children(d, Front(n))
        BY <1>1, <1>2, <2>2, ChildrenAre
      <3>2. PICK length \in 0..Len(Numerals) :
              Children(d, Front(n)) = {Append(Front(n), Numerals[i]) : i \in 1..length}
        BY <2>1, <2>3 DEF IsDocument
      <3>3. PICK i \in 1..length : n = Append(Front(n), Numerals[i])
        BY <3>1, <3>2
      <3>4. i \in 1..Len(Numerals)
        <4>1. Numerals \in Seq(Words)
          BY NumeralsAssumption DEF Words, Strings
        <4>2. Len(Numerals) \in Nat
          BY <4>1, LenProperties
        <4> QED BY <3>3, <4>2
      <3>5. Numerals[i] \in Strings /\ IsIndex(Numerals[i])
        BY <3>4, NumeralIs
      <3>6. Last(n) = Numerals[i]
        BY <2>2, <3>3, <3>5, AppendIs
      <3> QED BY <3>5, <3>6
    <2> QED BY <2>1, <2>2, <2>3
  <1> QED BY <1>1, <1>2

(* Everything above a node is a container.                                 *)
LEMMA AboveIsContainer ==
  ASSUME NEW d, IsDocument(d), NEW n \in DOMAIN d, NEW m \in Seq(Strings), IsPrefix(m, n), m # n
  PROVE  m \in DOMAIN d /\ d[m] \in Containers
  <1> DEFINE Holds == m \in DOMAIN d /\ d[m] \in Containers
             T == {k \in Nat : \A o \in DOMAIN d :
                                 IsPrefix(m, o) /\ Len(o) = Len(m) + k + 1 => Holds}
  <1>1. ASSUME NEW o \in DOMAIN d, IsPrefix(m, o), Len(o) > Len(m)
        PROVE  /\ Front(o) \in DOMAIN d /\ d[Front(o)] \in Containers /\ IsPrefix(m, Front(o))
               /\ Len(Front(o)) = Len(o) - 1 /\ Len(o) \in Nat
               /\ Len(Front(o)) = Len(m) => Front(o) = m
    <2>1. o \in Seq(Strings) /\ Len(m) \in Nat
      BY NodeIs, LenProperties
    <2>2. o # <<>>
      BY <1>1, <2>1, EmptySeq
    <2>3. /\ Front(o) \in Seq(Strings) /\ Len(Front(o)) = Len(o) - 1 /\ Len(o) \in Nat
          /\ IsPrefix(Front(o), o)
      BY <2>1, <2>2, FrontIs
    <2>4. IsPrefix(m, Front(o))
      BY <1>1, <2>1, <2>3, PrefixesComparable, PrefixOfLonger
    <2>5. Len(Front(o)) = Len(m) => Front(o) = m
      BY <2>1, <2>3, <2>4, PrefixByElements, SeqEqual
    <2> QED BY <2>2, <2>3, <2>4, <2>5, NodeIs
  <1>2. Len(m) \in Nat
    BY LenProperties
  <1>3. 0 \in T
    BY <1>1, <1>2
  <1>4. ASSUME NEW k \in Nat, k \in T PROVE k + 1 \in T
    <2> SUFFICES ASSUME NEW o \in DOMAIN d, IsPrefix(m, o), Len(o) = Len(m) + (k + 1) + 1
                 PROVE  Holds
      OBVIOUS
    <2> HIDE DEF Holds
    <2>1. /\ Front(o) \in DOMAIN d /\ IsPrefix(m, Front(o)) /\ Len(Front(o)) = Len(m) + k + 1
      BY <1>1, <1>2
    <2> QED BY <1>4, <2>1
  <1>5. Nat \subseteq T
    <2> HIDE DEF T
    <2> QED BY <1>3, <1>4, SetInduction
  <1>6. n \in Seq(Strings) /\ Len(n) \in Nat /\ Len(m) <= Len(n)
    BY NodeIs, LenProperties, PrefixByElements
  <1>7. Len(m) # Len(n)
    BY <1>6, PrefixByElements, SeqEqual
  <1>8. Len(n) - Len(m) - 1 \in Nat /\ Len(n) = Len(m) + (Len(n) - Len(m) - 1) + 1
    BY <1>2, <1>6, <1>7
  <1> HIDE DEF Holds
  <1>9. Holds
    BY <1>5, <1>8
  <1> QED BY <1>9 DEF Holds

(* Writing.  A document grows when what is there stays, except for nulls,  *)
(* and what is new has names that a path can spell.                        *)
Grows(d, e) ==
  /\ \A n \in DOMAIN d : n \in DOMAIN e /\ (d[n] # Null \/ n \notin Seq(Words) => e[n] = d[n])
  /\ \A n \in DOMAIN e \ DOMAIN d : n \in Seq(Words)

(* Documents that grow by words only, twice.                              *)
LEMMA GrowsOn ==
  ASSUME NEW d, NEW e, NEW f, Grows(d, e), Grows(e, f)
  PROVE  Grows(d, f)
  <1>1. ASSUME NEW n \in DOMAIN d
        PROVE  n \in DOMAIN f /\ (d[n] # Null \/ n \notin Seq(Words) => f[n] = d[n])
    <2>1. n \in DOMAIN e /\ (d[n] # Null \/ n \notin Seq(Words) => e[n] = d[n])
      BY DEF Grows
    <2>2. n \in DOMAIN f /\ (e[n] # Null \/ n \notin Seq(Words) => f[n] = e[n])
      BY <2>1 DEF Grows
    <2> QED BY <2>1, <2>2
  <1>2. \A n \in DOMAIN f \ DOMAIN d : n \in Seq(Words)
    BY DEF Grows
  <1> QED BY <1>1, <1>2 DEF Grows

(* Children are added to a container.                                      *)
LEMMA ExtendedIs ==
  ASSUME NEW X, NEW d \in Docs(X), NEW at \in DOMAIN d, at \in Seq(Words), NEW v \in X,
         NEW K \in SUBSET Words, IsFiniteSet(K), NEW New, New = {Append(at, k) : k \in K},
         d[at] \in Containers,
         d[at] = Array => \E length \in 0..Len(Numerals) :
           Children(d, at) \cup New = {Append(at, Numerals[i]) : i \in 1..length}
  PROVE  LET e == Extended(d, New, v)
         IN  /\ e \in Docs(X) /\ Grows(d, e)
             /\ \A n \in DOMAIN d : n \in DOMAIN e /\ e[n] = d[n]
             /\ \A k \in K : Append(at, k) \in DOMAIN e
  <1> DEFINE S   == DOMAIN d \cup New
             e   == Extended(d, New, v)
  <1>1. IsDocument(d) /\ d \in [DOMAIN d -> X]
    BY DocsAre
  <1>2. e \in [S -> X] /\ DOMAIN e = S
        /\ \A n \in S : e[n] = IF n \in DOMAIN d THEN d[n] ELSE v
    BY <1>1 DEF Extended
  <1>3. Words \subseteq Strings /\ at \in Seq(Strings)
    BY <1>1, NodeIs DEF Words
  <1>4. \A n \in New : n \in Seq(Words) /\ n \in Seq(Strings) /\ n # <<>> /\ Front(n) = at
    <2> SUFFICES ASSUME NEW k \in K
                 PROVE  LET n == Append(at, k)
                        IN  n \in Seq(Words) /\ n \in Seq(Strings) /\ n # <<>> /\ Front(n) = at
      OBVIOUS
    <2>1. k \in Words /\ k \in Strings
      BY <1>3
    <2>2. Append(at, k) \in Seq(Words)
      BY <2>1, AppendProperties
    <2> QED BY <1>3, <2>1, <2>2, AppendIs
  <1>5. IsFiniteSet(S)
    <2>1. IsFiniteSet(New)
      <3> DEFINE f == [k \in K |-> Append(at, k)]
      <3>1. DOMAIN f = K /\ New = {f[k] : k \in K}
        OBVIOUS
      <3> HIDE DEF f
      <3> QED BY <3>1, ImageFinite
    <2>2. IsFiniteSet(DOMAIN d)
      BY <1>1 DEF IsDocument
    <2> QED BY <2>1, <2>2, FS_Union
  <1> HIDE DEF e
  <1>6. \A n \in S : n \in Seq(Strings)
    BY <1>1, <1>4, NodeIs
  <1>7. <<>> \in S
    BY <1>1 DEF IsDocument
  <1>8. ASSUME NEW n \in S \ {<<>>} PROVE Front(n) \in S /\ e[Front(n)] \in Containers
    <2>1. CASE n \in DOMAIN d
      BY <1>1, <1>2, <2>1, NodeIs
    <2>2. CASE n \in New
      BY <1>2, <1>4, <2>2
    <2> QED BY <2>1, <2>2
  <1>9. ASSUME NEW n \in S, e[n] = Array
        PROVE  \E length \in 0..Len(Numerals) :
                 Children(e, n) = {Append(n, Numerals[i]) : i \in 1..length}
    <2>0. \A o : /\ o \in Children(e, n) <=> o \in S /\ o # <<>> /\ Front(o) = n
                 /\ o \in Children(d, n) <=> o \in DOMAIN d /\ o # <<>> /\ Front(o) = n
      <3>1. n \in Seq(Strings) /\ \A m \in DOMAIN d : m \in Seq(Strings)
        BY <1>6
      <3> QED BY <1>2, <1>6, <3>1, ChildrenAre
    <2>1. CASE n = at
      <3>1. Children(e, n) = Children(d, n) \cup New
        BY <1>4, <2>0, <2>1
      <3>2. d[at] = Array
        BY <1>2, <1>9, <2>1
      <3> QED BY <2>1, <3>1, <3>2
    <2>2. CASE n # at /\ n \in DOMAIN d
      <3>1. Children(e, n) = Children(d, n)
        <4>1. \A o : o \in S /\ o # <<>> /\ Front(o) = n => o \in DOMAIN d
          BY <1>4, <2>2
        <4>2. \A o : o \in DOMAIN d => o \in S
          OBVIOUS
        <4> HIDE DEF S
        <4>3. \A o : o \in Children(e, n) <=> o \in Children(d, n)
          BY <2>0, <4>1, <4>2
        <4> QED BY <4>3
      <3>2. d[n] = Array
        BY <1>2, <1>9, <2>2
      <3> QED BY <1>1, <2>2, <3>1, <3>2 DEF IsDocument
    <2>3. CASE n \notin DOMAIN d
      <3>1. n # at
        BY <2>3
      <3>2. \A o \in DOMAIN d : o # <<>> => Front(o) # n
        BY <1>1, <2>3, NodeIs
      <3>3. Children(e, n) = {}
        BY <1>4, <2>0, <3>1, <3>2
      <3>4. 0 \in 0..Len(Numerals) /\ 1..0 = {}
        <4>1. Numerals \in Seq(Words)
          BY NumeralsAssumption DEF Words, Strings
        <4> QED BY <4>1, LenProperties
      <3>5. {Append(n, Numerals[i]) : i \in 1..0} = {}
        BY <3>4
      <3> QED BY <3>3, <3>4, <3>5
    <2> QED BY <2>1, <2>2, <2>3
  <1> HIDE DEF S
  <1>10. e \in Docs(X)
    BY <1>2, <1>5, <1>6, <1>7, <1>8, <1>9, DocsHave
  <1>11. \A n \in DOMAIN d : n \in DOMAIN e /\ e[n] = d[n]
    BY <1>2 DEF S
  <1>12. Grows(d, e)
    BY <1>2, <1>4, <1>11 DEF Grows, S
  <1>13. \A k \in K : Append(at, k) \in DOMAIN e
    BY <1>2 DEF S
  <1> QED BY <1>10, <1>11, <1>12, <1>13 DEF e

(* The nulls that pad an array up to an index.                             *)
LEMMA PaddedIs ==
  ASSUME NEW X, Null \in X, NEW d \in Docs(X), NEW at \in DOMAIN d, at \in Seq(Words),
         d[at] = Array, NEW part, IsIndex(part)
  PROVE  LET e == Padded(d, at, IndexOf(part))
         IN  /\ e \in Docs(X) /\ Grows(d, e)
             /\ \A n \in DOMAIN d : n \in DOMAIN e /\ e[n] = d[n]
             /\ Append(at, part) \in DOMAIN e
  <1>1. IsDocument(d) /\ at \in Seq(Strings)
    BY DocsAre, NodeIs
  <1>2. PICK length \in 0..Len(Numerals) :
          Children(d, at) = {Append(at, Numerals[i]) : i \in 1..length}
    BY <1>1 DEF IsDocument
  <1>3. Len(Numerals) \in Nat
    <2>1. Numerals \in Seq(Words)
      BY NumeralsAssumption DEF Words, Strings
    <2> QED BY <2>1, LenProperties
  <1>4. Cardinality(Children(d, at)) = length
    <2> DEFINE f == [i \in 1..length |-> Append(at, Numerals[i])]
               R == Children(d, at)
    <2>1. DOMAIN f = 1..length /\ (\A i \in 1..length : f[i] \in R)
          /\ \A r \in R : \E i \in 1..length : r = f[i]
      BY <1>2
    <2>2. \A i \in 1..length : f[i] = Append(at, Numerals[i]) /\ i \in 1..Len(Numerals)
      BY <1>3
    <2>3. \A i \in 1..length : Numerals[i] \in Strings
      BY <2>2, NumeralIs
    <2> HIDE DEF f, R
    <2>4. \A i \in 1..length : Last(f[i]) = Numerals[i]
      <3> TAKE i \in 1..length
      <3>1. Numerals[i] \in Strings /\ f[i] = Append(at, Numerals[i])
        BY <2>2, <2>3
      <3> QED BY <1>1, <3>1, AppendIs
    <2>5. \A i, j \in 1..length : f[i] = f[j] => i = j
      BY <2>2, <2>4, NumeralsAssumption
    <2>6. length \in Nat
      BY <1>3
    <2> QED BY <2>1, <2>5, <2>6, FamilyCount DEF R
  <1>5. /\ IndexOf(part) \in Nat /\ IndexOf(part) + 1 \in 1..Len(Numerals)
        /\ Numerals[IndexOf(part) + 1] = part
    BY IndexIs
  <1> DEFINE index == IndexOf(part)
             K == {Numerals[i + 1] : i \in length..index}
             New == {Append(at, k) : k \in K}
             longer == IF length < index + 1 THEN index + 1 ELSE length
  <1>6. /\ \A i \in length..index : i + 1 \in 1..Len(Numerals)
        /\ longer \in 0..Len(Numerals) /\ \A i \in 1..length : i \in 1..longer
        /\ \A i \in length..index : i + 1 \in 1..longer
        /\ \A i \in 1..longer : i \in 1..length \/ (i - 1 \in length..index /\ (i - 1) + 1 = i)
    BY <1>3, <1>5
  <1>7. K \in SUBSET Words /\ IsFiniteSet(K)
    <2>1. K \in SUBSET Words
      BY <1>6, NumeralIs
    <2>2. IsFiniteSet(K)
      <3> DEFINE f == [i \in length..index |-> Numerals[i + 1]]
      <3>1. DOMAIN f = length..index /\ K = {f[i] : i \in length..index}
        OBVIOUS
      <3>2. IsFiniteSet(length..index)
        <4>1. length \in Int /\ index \in Int
          BY <1>3, <1>5
        <4> QED BY <4>1, FS_Interval
      <3> HIDE DEF f, K, index
      <3> QED BY <3>1, <3>2, ImageFinite
    <2> QED BY <2>1, <2>2
  <1>8. Children(d, at) \cup {Append(at, k) : k \in K} = {Append(at, Numerals[i]) : i \in 1..longer}
    <2> HIDE DEF longer, index
    <2>1. {Append(at, k) : k \in K} = {Append(at, Numerals[i + 1]) : i \in length..index}
      BY DEF K
    <2>2. ASSUME NEW n \in {Append(at, Numerals[i]) : i \in 1..longer}
          PROVE  n \in Children(d, at) \/ n \in {Append(at, Numerals[i + 1]) : i \in length..index}
      <3>1. PICK i \in 1..longer : n = Append(at, Numerals[i])
        BY <2>2
      <3>2. CASE i \in 1..length
        BY <1>2, <3>1, <3>2
      <3>3. CASE i - 1 \in length..index /\ (i - 1) + 1 = i
        BY <3>1, <3>3
      <3> QED BY <1>6, <3>2, <3>3
    <2>3. Children(d, at) \subseteq {Append(at, Numerals[i]) : i \in 1..longer}
      BY <1>2, <1>6
    <2>4. {Append(at, Numerals[i + 1]) : i \in length..index} \subseteq {Append(at, Numerals[i]) : i \in 1..longer}
      BY <1>6
    <2> HIDE DEF K
    <2> QED BY <2>1, <2>2, <2>3, <2>4
  <1>9. Padded(d, at, index) = Extended(d, {Append(at, k) : k \in K}, Null)
    <2>1. {Append(at, Numerals[i + 1]) : i \in length..index} = {Append(at, k) : k \in K}
      OBVIOUS
    <2> HIDE DEF index, K
    <2> QED BY <1>4, <2>1 DEF Padded
  <1>10. part \in K \/ Append(at, part) \in DOMAIN d
    <2>1. CASE length <= index
      <3>1. index \in length..index
        BY <1>3, <1>5, <2>1
      <3> QED BY <1>5, <3>1
    <2>2. CASE ~(length <= index)
      <3>1. index + 1 \in 1..length
        BY <1>3, <1>5, <2>2
      <3>2. Append(at, part) \in Children(d, at)
        BY <1>2, <1>5, <3>1
      <3> QED BY <3>2 DEF Children
    <2> QED BY <2>1, <2>2
  <1>101. New = {Append(at, k) : k \in K}
    OBVIOUS
  <1> HIDE DEF K, index, longer, New
  <1>11. LET e == Extended(d, New, Null)
         IN  /\ e \in Docs(X) /\ Grows(d, e)
             /\ \A n \in DOMAIN d : n \in DOMAIN e /\ e[n] = d[n]
             /\ \A k \in K : Append(at, k) \in DOMAIN e
    <2>1. longer \in 0..Len(Numerals)
      BY <1>6
    <2>2. d[at] \in Containers
      BY DEF Containers
    <2>3. \E n \in 0..Len(Numerals) :
            Children(d, at) \cup New = {Append(at, Numerals[i]) : i \in 1..n}
      BY <1>8, <1>101, <2>1, Zenon
    <2>4. LET e == Extended(d, {Append(at, k) : k \in K}, Null)
          IN  /\ e \in Docs(X) /\ Grows(d, e)
              /\ \A n \in DOMAIN d : n \in DOMAIN e /\ e[n] = d[n]
              /\ \A k \in K : Append(at, k) \in DOMAIN e
      BY <1>7, <1>101, <2>2, <2>3, ExtendedIs
    <2> QED BY <1>101, <2>4, Zenon
  <1> QED BY <1>9, <1>10, <1>11, <1>101 DEF index

(* A node and what is below it give way to a value.                        *)
LEMMA ReplacedIs ==
  ASSUME NEW X, NEW d \in Docs(X), NEW q \in Seq(Strings), NEW v \in X, v # Array,
         q # <<>> => Front(q) \in DOMAIN d /\ d[Front(q)] \in Containers,
         q # <<>> => q \in DOMAIN d \/ d[Front(q)] = Object
  PROVE  LET e == Replace(d, q, v)
         IN  /\ e \in Docs(X) /\ q \in DOMAIN e /\ e[q] = v
             /\ \A n \in DOMAIN d : ~IsPrefix(q, n) => n \in DOMAIN e /\ e[n] = d[n]
             /\ \A n \in DOMAIN e : n # q => n \in DOMAIN d /\ e[n] = d[n]
  <1> DEFINE S == {n \in DOMAIN d : ~IsPrefix(q, n)} \cup {q}
             e == Replace(d, q, v)
  <1>1. IsDocument(d) /\ d \in [DOMAIN d -> X] /\ \A n \in DOMAIN d : n \in Seq(Strings)
    BY DocsAre, NodeIs
  <1>2. e \in [S -> X] /\ DOMAIN e = S /\ e[q] = v /\ \A n \in S : n # q => n \in DOMAIN d /\ e[n] = d[n]
    BY <1>1 DEF Replace
  <1>3. IsFiniteSet(S)
    <2>1. IsFiniteSet(DOMAIN d) /\ IsFiniteSet({q})
      BY <1>1, FS_Singleton DEF IsDocument
    <2>2. IsFiniteSet({n \in DOMAIN d : ~IsPrefix(q, n)})
      BY <2>1, FS_Subset
    <2> QED BY <2>1, <2>2, FS_Union
  <1>4. IsPrefix(q, q) /\ \A n \in DOMAIN d : n # <<>> /\ IsPrefix(q, Front(n)) => IsPrefix(q, n)
    <2>1. IsPrefix(q, q)
      BY PrefixSelf
    <2>2. ASSUME NEW n \in DOMAIN d, n # <<>>, IsPrefix(q, Front(n)) PROVE IsPrefix(q, n)
      <3>1. n \in Seq(Strings) /\ Front(n) \in Seq(Strings) /\ IsPrefix(Front(n), n)
        BY <1>1, <2>2, FrontIs
      <3> QED BY <2>2, <3>1, PrefixTransitive
    <2> QED BY <2>1, <2>2
  <1>5. q # <<>> => /\ Front(q) \in Seq(Strings) /\ ~IsPrefix(q, Front(q)) /\ ~IsPrefix(q, <<>>)
                    /\ Front(q) # q /\ Front(q) \in S
    <2> SUFFICES ASSUME q # <<>> PROVE ~IsPrefix(q, Front(q)) /\ ~IsPrefix(q, <<>>) /\ Front(q) # q
                                       /\ Front(q) \in Seq(Strings)
      OBVIOUS
    <2>1. Front(q) \in Seq(Strings) /\ Len(Front(q)) = Len(q) - 1 /\ Len(q) \in Nat /\ Len(q) >= 1
      BY FrontIs
    <2>2. <<>> \in Seq(Strings) /\ Len(<<>>) = 0
      OBVIOUS
    <2>3. ~IsPrefix(q, Front(q))
      BY <2>1, PrefixByElements
    <2>4. ~IsPrefix(q, <<>>)
      <3>1. ASSUME NEW t \in Seq(Strings), Len(t) = 0 PROVE ~IsPrefix(q, t)
        <4>1. IsPrefix(q, t) => Len(q) <= Len(t)
          BY PrefixByElements
        <4> QED BY <2>1, <3>1, <4>1
      <3> QED BY <2>2, <3>1
    <2> QED BY <2>1, <2>3, <2>4
  <1>6. \A n \in S : n \in Seq(Strings)
    BY <1>1
  <1>7. <<>> \in S
    <2>1. <<>> \in DOMAIN d
      BY <1>1 DEF IsDocument
    <2> QED BY <1>5, <2>1
  <1> HIDE DEF e
  <1>8. ASSUME NEW n \in S \ {<<>>} PROVE Front(n) \in S /\ e[Front(n)] \in Containers
    <2>1. CASE n = q
      BY <1>2, <1>5, <2>1
    <2>2. CASE n # q
      <3>1. n \in DOMAIN d /\ ~IsPrefix(q, n) /\ Front(n) \in DOMAIN d /\ d[Front(n)] \in Containers
        BY <1>1, <2>2, NodeIs
      <3>2. ~IsPrefix(q, Front(n))
        BY <1>4, <3>1
      <3>3. Front(n) \in S /\ Front(n) # q
        BY <1>4, <3>1, <3>2
      <3> QED BY <1>2, <3>1, <3>3
    <2> QED BY <2>1, <2>2
  <1>9. ASSUME NEW n \in S, e[n] = Array
        PROVE  \E length \in 0..Len(Numerals) :
                 Children(e, n) = {Append(n, Numerals[i]) : i \in 1..length}
    <2>1. n # q /\ n \in DOMAIN d /\ d[n] = Array /\ ~IsPrefix(q, n)
      BY <1>2, <1>9
    <2>2. \A o : /\ o \in Children(e, n) <=> o \in S /\ o # <<>> /\ Front(o) = n
                 /\ o \in Children(d, n) <=> o \in DOMAIN d /\ o # <<>> /\ Front(o) = n
      <3>1. n \in Seq(Strings)
        BY <1>6
      <3> QED BY <1>1, <1>2, <1>6, <3>1, ChildrenAre
    <2>3. ASSUME NEW o \in S, o # <<>>, Front(o) = n PROVE o \in DOMAIN d
      BY <2>1, <2>3 DEF Object, Array
    <2>4. ASSUME NEW o \in DOMAIN d, o # <<>>, Front(o) = n PROVE o \in S
      <3>1. CASE ~IsPrefix(q, o)
        BY <3>1
      <3>2. CASE IsPrefix(q, o) /\ o # q
        <4>1. /\ o \in Seq(Strings) /\ Len(o) \in Nat /\ Len(n) = Len(o) - 1 /\ IsPrefix(n, o)
              /\ n \in Seq(Strings) /\ Len(q) \in Nat
          BY <1>1, <2>1, <2>4, FrontIs, LenProperties
        <4>2. Len(q) < Len(o)
          BY <3>2, <4>1, PrefixByElements, SeqEqual
        <4>3. IsPrefix(q, n)
          BY <3>2, <4>1, <4>2, PrefixesComparable, PrefixOfLonger
        <4> QED BY <2>1, <4>3
      <3> QED BY <3>1, <3>2
    <2>5. Children(e, n) = Children(d, n)
      <3> HIDE DEF S
      <3>1. \A o : o \in Children(e, n) <=> o \in Children(d, n)
        BY <2>2, <2>3, <2>4
      <3> QED BY <3>1
    <2> QED BY <1>1, <2>1, <2>5 DEF IsDocument
  <1>10. \A n \in DOMAIN d : ~IsPrefix(q, n) => n \in DOMAIN e /\ e[n] = d[n]
    BY <1>2, <1>4
  <1>11. q \in DOMAIN e /\ \A n \in DOMAIN e : n # q => n \in DOMAIN d /\ e[n] = d[n]
    BY <1>2
  <1> HIDE DEF S
  <1>12. e \in Docs(X)
    BY <1>2, <1>3, <1>6, <1>7, <1>8, <1>9, DocsHave
  <1> QED BY <1>2, <1>10, <1>11, <1>12 DEF e

(* operator[] leaves an object.                                            *)
LEMMA NamedIs ==
  ASSUME NEW X, Object \in X, NEW d \in Docs(X), NEW at \in DOMAIN d, at \in Seq(Words),
         NEW e \in Named(d, at)
  PROVE  /\ e \in Docs(X) /\ Grows(d, e) /\ at \in DOMAIN e /\ e[at] = Object
         /\ DOMAIN e = DOMAIN d /\ d[at] # Array
  <1>1. IsDocument(d) /\ at \in Seq(Strings)
    BY DocsAre, NodeIs
  <1>2. CASE d[at] = Null
    <2>1. e = Replace(d, at, Object) /\ Object # Array /\ Null \notin Containers /\ Null # Array
      BY <1>2 DEF Named, Object, Array, Null, Containers
    <2>2. at # <<>> => Front(at) \in DOMAIN d /\ d[Front(at)] \in Containers
      BY <1>1, NodeIs
    <2>3. /\ e \in Docs(X) /\ at \in DOMAIN e /\ e[at] = Object
          /\ \A n \in DOMAIN d : ~IsPrefix(at, n) => n \in DOMAIN e /\ e[n] = d[n]
          /\ \A n \in DOMAIN e : n # at => n \in DOMAIN d /\ e[n] = d[n]
      BY <1>1, <2>1, <2>2, ReplacedIs
    <2>4. ASSUME NEW n \in DOMAIN d, n # at PROVE n \in DOMAIN e /\ e[n] = d[n]
      <3>1. ~IsPrefix(at, n)
        BY <1>1, <1>2, <2>1, <2>4, AboveIsContainer
      <3> QED BY <2>3, <3>1
    <2>5. DOMAIN e = DOMAIN d
      BY <2>3, <2>4
    <2>6. Grows(d, e)
      BY <1>2, <2>3, <2>4, <2>5 DEF Grows
    <2> QED BY <1>2, <2>1, <2>3, <2>5, <2>6
  <1>3. CASE d[at] # Null
    <2>1. e = d /\ d[at] = Object /\ Object # Array
      BY <1>3 DEF Named, Object, Array
    <2> QED BY <2>1 DEF Grows
  <1> QED BY <1>2, <1>3

(* The intermediate results of set.                                        *)
Accs(X) == {a \in [doc : Docs(X), at : Seq(Words), ok : BOOLEAN] : a.at \in DOMAIN a.doc}

(* A name that is not there is made a container.                           *)
LEMMA CreatedIs ==
  ASSUME NEW X, Containers \subseteq X, NEW d \in Docs(X), NEW at \in DOMAIN d, at \in Seq(Words),
         d[at] = Object, NEW part \in Words, NEW new \in Containers
  PROVE  LET e == Extended(d, {Append(at, part)}, new)
         IN  e \in Docs(X) /\ Grows(d, e) /\ Append(at, part) \in DOMAIN e
  <1> DEFINE New == {Append(at, k) : k \in {part}}
  <1>1. {part} \in SUBSET Words /\ IsFiniteSet({part}) /\ New = {Append(at, part)}
        /\ New = {Append(at, k) : k \in {part}}
    <2>1. IsFiniteSet({part})
      BY FS_Singleton
    <2>2. New = {Append(at, part)}
      OBVIOUS
    <2> HIDE DEF New
    <2>3. New = {Append(at, k) : k \in {part}}
      BY DEF New
    <2> QED BY <2>1, <2>2, <2>3
  <1>2. d[at] # Array /\ d[at] \in Containers /\ new \in X
    BY DEF Object, Array, Containers
  <1>3. \A K \in SUBSET Words : IsFiniteSet(K) /\ New = {Append(at, k) : k \in K} =>
          LET e == Extended(d, New, new)
          IN  e \in Docs(X) /\ Grows(d, e) /\ \A k \in K : Append(at, k) \in DOMAIN e
    <2> HIDE DEF New
    <2> QED BY <1>2, ExtendedIs
  <1>4. LET e == Extended(d, New, new)
        IN  e \in Docs(X) /\ Grows(d, e) /\ \A k \in {part} : Append(at, k) \in DOMAIN e
    <2> HIDE DEF New
    <2> QED BY <1>1, <1>3
  <1> HIDE DEF New
  <1> QED BY <1>1, <1>4

(* One part before the last: the document stays one and grows, and the    *)
(* place reached is the next one or, where an array passes the part over, *)
(* the same.                                                              *)
LEMMA DescendIs ==
  ASSUME NEW X, {Null, Object, Array} \subseteq X, NEW a \in Accs(X), NEW part \in Words, NEW next
  PROVE  LET b == Descend(a, part, next)
         IN  /\ b \in Accs(X)
             /\ b.ok => /\ a.ok /\ Grows(a.doc, b.doc)
                        /\ \/ b.at = Append(a.at, part)
                           \/ b = a /\ a.doc[a.at] = Array /\ ~IsIndex(part)
  <1> DEFINE d == a.doc
             at == a.at
             q == Append(at, part)
             b == Descend(a, part, next)
             new == IF IsIndex(next) THEN Array ELSE Object
             create == d[at] # Array /\ Child(d, at, part) = {}
             Made(e) == IF create THEN Extended(e, {q}, new) ELSE e
             named == {Made(e) : e \in Named(d, at)}
  <1>1. /\ a \in [doc : Docs(X), at : Seq(Words), ok : BOOLEAN]
        /\ d \in Docs(X) /\ at \in Seq(Words) /\ a.ok \in BOOLEAN /\ at \in DOMAIN d
        /\ IsDocument(d) /\ q \in Seq(Words)
    BY DocsAre, AppendProperties DEF Accs
  <1>2. /\ b = IF d[at] = Array
               THEN IF IsIndex(part)
                    THEN [a EXCEPT !.doc = Padded(d, at, IndexOf(part)), !.at = q] ELSE a
               ELSE IF named = {} THEN Thrown(a)
               ELSE [a EXCEPT !.doc = CHOOSE e \in named : TRUE, !.at = q]
    BY <1>1 DEF Descend
  <1> HIDE DEF b, named
  <1>3. CASE d[at] = Array /\ IsIndex(part)
    <2>1. LET e == Padded(d, at, IndexOf(part))
          IN  e \in Docs(X) /\ Grows(d, e) /\ q \in DOMAIN e
      BY <1>1, <1>3, PaddedIs
    <2> DEFINE e == Padded(d, at, IndexOf(part))
    <2>2. b = [a EXCEPT !.doc = e, !.at = q]
      BY <1>2, <1>3
    <2> HIDE DEF e, q
    <2>3. e \in Docs(X) /\ Grows(d, e) /\ q \in DOMAIN e
      BY <2>1 DEF e, q
    <2>4. b = [doc |-> e, at |-> q, ok |-> a.ok]
      BY <1>1, <2>2
    <2>5. b \in Accs(X) /\ Grows(d, b.doc) /\ b.at = q /\ b.ok = a.ok
      BY <1>1, <2>3, <2>4 DEF Accs
    <2> QED BY <1>1, <2>5 DEF b, q
  <1>4. CASE d[at] = Array /\ ~IsIndex(part)
    <2>1. b = a /\ Grows(d, d)
      BY <1>2, <1>4 DEF Grows
    <2> QED BY <1>4, <2>1 DEF b
  <1>5. CASE d[at] # Array /\ named = {}
    <2>1. b = [doc |-> d, at |-> at, ok |-> FALSE]
      BY <1>1, <1>2, <1>5 DEF Thrown
    <2> QED BY <1>1, <2>1 DEF b, Accs
  <1>6. CASE d[at] # Array /\ named # {}
    <2>1. PICK e \in Named(d, at) : (CHOOSE f \in named : TRUE) = Made(e)
      BY <1>6 DEF named
    <2>2. /\ e \in Docs(X) /\ Grows(d, e) /\ at \in DOMAIN e /\ e[at] = Object /\ DOMAIN e = DOMAIN d
      BY <1>1, NamedIs
    <2> DEFINE f == Made(e)
    <2>3. f \in Docs(X) /\ Grows(d, f) /\ q \in DOMAIN f
      <3>1. CASE create
        <4>1. new \in Containers /\ Containers \subseteq X
          BY DEF Containers
        <4>2. LET g == Extended(e, {q}, new)
              IN  g \in Docs(X) /\ Grows(e, g) /\ q \in DOMAIN g
          <5> HIDE DEF new
          <5> QED BY <1>1, <2>2, <4>1, CreatedIs
        <4>3. f = Extended(e, {q}, new)
          BY <3>1
        <4> HIDE DEF f, q, new
        <4> QED BY <2>2, <4>2, <4>3, GrowsOn
      <3>2. CASE ~create
        <4>1. Child(d, at, part) # {}
          BY <1>6, <3>2
        <4>2. q \in DOMAIN d
          BY <4>1 DEF Child
        <4>3. f = e
          BY <3>2
        <4> HIDE DEF f, q
        <4> QED BY <2>2, <4>2, <4>3
      <3> QED BY <3>1, <3>2
    <2>4. b = [doc |-> f, at |-> q, ok |-> a.ok]
      <3>1. b = [a EXCEPT !.doc = f, !.at = q]
        <4> HIDE DEF q
        <4> QED BY <1>2, <1>6, <2>1
      <3> HIDE DEF f, q
      <3> QED BY <1>1, <3>1
    <2> HIDE DEF f, q
    <2>5. b \in Accs(X) /\ Grows(d, b.doc) /\ b.at = q /\ b.ok = a.ok
      BY <1>1, <2>3, <2>4 DEF Accs
    <2> QED BY <2>5 DEF b, q
  <1> QED BY <1>3, <1>4, <1>5, <1>6

(* The last part: exactly one node takes the value, what was below it goes, *)
(* and all else stays except nulls.                                       *)
LEMMA AssignIs ==
  ASSUME NEW X, {Null, Object, Array} \subseteq X, NEW a \in Accs(X), NEW part \in Words,
         NEW v \in X, v \notin Containers
  PROVE  LET b == Assign(a, part, v)
             q == Append(a.at, part)
         IN  /\ b \in Accs(X)
             /\ b.ok => /\ a.ok /\ q \in DOMAIN b.doc /\ b.doc[q] = v
                        /\ a.doc[a.at] = Array => IsIndex(part)
                        /\ \A n \in DOMAIN a.doc : ~IsPrefix(q, n) =>
                             n \in DOMAIN b.doc /\ (a.doc[n] # Null \/ n \notin Seq(Words) => b.doc[n] = a.doc[n])
                        /\ \A n \in DOMAIN b.doc \ DOMAIN a.doc : n \in Seq(Words)
                        /\ \A n \in DOMAIN b.doc : IsPrefix(q, n) => n = q
  <1> DEFINE d == a.doc
             at == a.at
             q == Append(at, part)
             b == Assign(a, part, v)
  <1>1. /\ a \in [doc : Docs(X), at : Seq(Words), ok : BOOLEAN]
        /\ d \in Docs(X) /\ at \in Seq(Words) /\ a.ok \in BOOLEAN /\ at \in DOMAIN d
        /\ IsDocument(d) /\ q \in Seq(Words) /\ at \in Seq(Strings) /\ part \in Strings
    BY DocsAre, NodeIs, AppendProperties DEF Accs, Words
  <1>2. q \in Seq(Strings) /\ q # <<>> /\ Front(q) = at /\ v # Array /\ ~IsPrefix(q, at)
    <2>1. q \in Seq(Strings) /\ q # <<>> /\ Front(q) = at /\ Len(q) = Len(at) + 1 /\ Len(at) \in Nat
      BY <1>1, AppendIs, LenProperties
    <2> HIDE DEF q
    <2>2. ~IsPrefix(q, at)
      BY <1>1, <2>1, PrefixByElements
    <2> QED BY <2>1, <2>2 DEF Containers
  <1> HIDE DEF q
  <1>3. ASSUME NEW e \in Docs(X), Grows(d, e), at \in DOMAIN e, e[at] \in Containers,
               q \in DOMAIN e \/ e[at] = Object,
               b = [a EXCEPT !.doc = Replace(e, q, v)], d[at] = Array => IsIndex(part)
        PROVE  /\ b \in Accs(X) /\ b.ok = a.ok /\ q \in DOMAIN b.doc /\ b.doc[q] = v
               /\ d[at] = Array => IsIndex(part)
               /\ \A n \in DOMAIN d : ~IsPrefix(q, n) =>
                    n \in DOMAIN b.doc /\ (d[n] # Null \/ n \notin Seq(Words) => b.doc[n] = d[n])
               /\ \A n \in DOMAIN b.doc \ DOMAIN d : n \in Seq(Words)
               /\ \A n \in DOMAIN b.doc : IsPrefix(q, n) => n = q
    <2> DEFINE f == Replace(e, q, v)
    <2>1. /\ f \in Docs(X) /\ q \in DOMAIN f /\ f[q] = v
          /\ \A n \in DOMAIN e : ~IsPrefix(q, n) => n \in DOMAIN f /\ f[n] = e[n]
          /\ \A n \in DOMAIN f : n # q => n \in DOMAIN e /\ f[n] = e[n]
      BY <1>2, <1>3, ReplacedIs
    <2>2. \A n \in DOMAIN f : IsPrefix(q, n) => n = q
      BY DEF Replace
    <2> HIDE DEF f
    <2>3. b = [doc |-> f, at |-> at, ok |-> a.ok]
      BY <1>1, <1>3 DEF f
    <2>4. at \in DOMAIN f
      BY <1>2, <1>3, <2>1
    <2>5. b \in Accs(X) /\ b.doc = f /\ b.ok = a.ok
      BY <1>1, <2>1, <2>3, <2>4 DEF Accs
    <2>6. \A n \in DOMAIN d : n \in DOMAIN e /\ (d[n] # Null \/ n \notin Seq(Words) => e[n] = d[n])
      BY <1>3 DEF Grows
    <2>7. \A n \in DOMAIN e \ DOMAIN d : n \in Seq(Words)
      BY <1>3 DEF Grows
    <2>8. \A n \in DOMAIN f \ DOMAIN d : n \in Seq(Words)
      BY <1>1, <2>1, <2>7
    <2>9. \A n \in DOMAIN d : ~IsPrefix(q, n) =>
            n \in DOMAIN f /\ (d[n] # Null \/ n \notin Seq(Words) => f[n] = d[n])
      BY <2>1, <2>6
    <2> QED BY <1>3, <2>1, <2>2, <2>5, <2>8, <2>9
  <1>4. CASE d[at] = Array /\ IsIndex(part)
    <2> DEFINE e == Padded(d, at, IndexOf(part))
    <2>1. e \in Docs(X) /\ Grows(d, e) /\ q \in DOMAIN e /\ at \in DOMAIN e /\ e[at] = d[at]
      BY <1>1, <1>4, PaddedIs DEF q
    <2>2. b = [a EXCEPT !.doc = Replace(e, q, v)]
      BY <1>4 DEF Assign, q
    <2> HIDE DEF e, b
    <2>3. e[at] \in Containers
      BY <1>4, <2>1 DEF Containers
    <2> QED BY <1>3, <1>4, <2>1, <2>2, <2>3 DEF b, q
  <1>5. CASE d[at] # Array /\ Named(d, at) # {}
    <2> DEFINE e == CHOOSE e \in Named(d, at) : TRUE
    <2>1. e \in Named(d, at)
      BY <1>5
    <2>2. b = [a EXCEPT !.doc = Replace(e, q, v)]
      BY <1>5 DEF Assign, q
    <2> HIDE DEF e, b
    <2>3. e \in Docs(X) /\ Grows(d, e) /\ at \in DOMAIN e /\ e[at] = Object /\ e[at] \in Containers
      BY <1>1, <2>1, NamedIs DEF Containers
    <2> QED BY <1>3, <1>5, <2>2, <2>3 DEF b, q
  <1>6. CASE ~(d[at] = Array /\ IsIndex(part)) /\ ~(d[at] # Array /\ Named(d, at) # {})
    <2>1. b = Thrown(a)
      BY <1>6 DEF Assign
    <2> HIDE DEF b
    <2>2. b = [doc |-> d, at |-> at, ok |-> FALSE]
      BY <1>1, <2>1 DEF Thrown
    <2>3. b \in Accs(X) /\ ~b.ok
      BY <1>1, <2>2 DEF Accs
    <2> QED BY <2>3 DEF b
  <1> HIDE DEF b
  <1> QED BY <1>4, <1>5, <1>6 DEF b, q

-------------------------------------------------------------------------------
(* Splitting a path.                                                       *)

(* The intermediate results of the folds.                                  *)
NoName == ""

(* A part of a path in the sequence that Split builds.                    *)
Kept(parts, part) == IF part = NoName THEN parts ELSE Append(parts, part)

(* The intermediate results of Split.                                     *)
LEMMA SplitFolds ==
  ASSUME NEW S, NEW path \in Seq(S)
  PROVE  \E it : /\ it[0] = <<>> /\ Split(path) = it[Len(path)]
                 /\ \A m \in 1..Len(path) : it[m] = Kept(it[m - 1], path[m])
  <1> DEFINE n == Len(path)
             V == Seq(S)
             F == [p \in V \X (1..n) |-> Kept(p[1], path[p[2]])]
             Step(h) == [t \in SUBSET (1..n) |->
                           IF t = {} THEN <<>> ELSE Kept(h[t \ {Max(t)}], path[Max(t)])]
             iter == CHOOSE h : h = Step(h)
  <1>1. n \in Nat /\ DOMAIN path = 1..n /\ \A i \in 1..n : path[i] \in S
    BY LenProperties, ElementOfSeq
  <1>2. F \in [V \X (1..n) -> V] /\ <<>> \in V
    <2>1. \A p \in V \X (1..n) : Kept(p[1], path[p[2]]) \in V
      <3> HIDE DEF n
      <3>1. \A p \in V \X (1..n) : p[1] \in Seq(S) /\ path[p[2]] \in S
        BY <1>1
      <3> QED BY <3>1, AppendProperties DEF Kept
    <2> HIDE DEF V, n
    <2>2. F \in [V \X (1..n) -> V]
      BY <2>1
    <2> QED BY <2>2 DEF V
  <1>3. Split(path) = iter[1..n]
    BY <1>1 DEF Split, Kept, NoName, FoldLeft, MapThenFoldSet
  <1>4. PICK g \in [SUBSET (1..n) -> V] : IsFold(g, <<>>, n, F)
    <2> HIDE DEF n, F, V
    <2> QED BY <1>1, <1>2, FoldExists
  <1>5. g = Step(g)
    <2>1. ASSUME NEW t \in SUBSET (1..n), t # {} PROVE g[t] = Kept(g[t \ {Max(t)}], path[Max(t)])
      <3>1. Max(t) \in 1..n /\ g[t \ {Max(t)}] \in V
        <4> HIDE DEF n, V
        <4> QED BY <1>1, <2>1, MaxInside
      <3> HIDE DEF V, n
      <3> QED BY <1>4, <2>1, <3>1 DEF IsFold
    <2> HIDE DEF V, n, F
    <2> QED BY <1>4, <2>1 DEF IsFold
  <1>6. iter = Step(iter)
    <2> HIDE DEF Step
    <2> QED BY <1>5
  <1> DEFINE it == [m \in 0..n |-> iter[1..m]]
  <1>7. it[0] = <<>> /\ it[n] = iter[1..n] /\ \A m \in 1..n : it[m] = Kept(it[m - 1], path[m])
    <2> HIDE DEF iter, n
    <2>1. \A t \in SUBSET (1..n) :
            iter[t] = IF t = {} THEN <<>> ELSE Kept(iter[t \ {Max(t)}], path[Max(t)])
      BY <1>6, Zenon
    <2> HIDE DEF V, F
    <2>2. 1..0 = {} /\ {} \in SUBSET (1..n) /\ \A m \in 1..n : 1..m \in SUBSET (1..n) /\ m \in Nat \ {0}
      BY <1>1
    <2>3. iter[1..0] = <<>> /\ \A m \in 1..n : iter[1..m] = Kept(iter[1..(m - 1)], path[m])
      BY <2>1, <2>2, IntervalStep
    <2>4. 0 \in 0..n /\ n \in 0..n /\ \A m \in 1..n : m \in 0..n /\ m - 1 \in 0..n
      BY <1>1
    <2> QED BY <2>3, <2>4
  <1> HIDE DEF it, iter
  <1> QED BY <1>3, <1>7

(* The beginning of a sequence, one element longer.                        *)
LEMMA WayGrows ==
  ASSUME NEW S, NEW n \in Seq(S), NEW m \in Nat, m + 1 \in 1..Len(n)
  PROVE  /\ SubSeq(n, 1, m) \in Seq(S) /\ Len(SubSeq(n, 1, m)) = m /\ n[m + 1] \in S
         /\ SubSeq(n, 1, m + 1) = Append(SubSeq(n, 1, m), n[m + 1])
  <1>1. Len(n) \in Nat /\ \A i \in 1..Len(n) : n[i] \in S
    BY LenProperties, ElementOfSeq
  <1>2. /\ SubSeq(n, 1, m) \in Seq(S) /\ Len(SubSeq(n, 1, m)) = m
        /\ \A i \in 1..m : SubSeq(n, 1, m)[i] = n[i]
    BY <1>1, SubSeqProperties
  <1>3. /\ SubSeq(n, 1, m + 1) \in Seq(S) /\ Len(SubSeq(n, 1, m + 1)) = m + 1
        /\ \A i \in 1..(m + 1) : SubSeq(n, 1, m + 1)[i] = n[i]
    BY <1>1, SubSeqProperties
  <1> DEFINE s == SubSeq(n, 1, m)
             t == SubSeq(n, 1, m + 1)
  <1>4. n[m + 1] \in S
    BY <1>1
  <1> HIDE DEF s, t
  <1>5. /\ Append(s, n[m + 1]) \in Seq(S) /\ Len(Append(s, n[m + 1])) = m + 1
        /\ \A i \in 1..m : Append(s, n[m + 1])[i] = n[i]
        /\ Append(s, n[m + 1])[m + 1] = n[m + 1]
    BY <1>2, <1>4, AppendProperties DEF s
  <1>6. \A i \in 1..(m + 1) : t[i] = Append(s, n[m + 1])[i]
    BY <1>3, <1>5 DEF t
  <1>7. t = Append(s, n[m + 1])
    BY <1>3, <1>5, <1>6, SeqEqual DEF t
  <1> QED BY <1>2, <1>4, <1>7 DEF s, t

(* The parts of paths: names without a dot, the empty one included.       *)
Spelled == Strings \ DOMAIN Dotted

(* One element in front of a sequence.                                    *)
LEMMA Headed ==
  ASSUME NEW S, NEW e \in S, NEW w \in Seq(S), NEW p, p = <<e>> \o w
  PROVE  /\ p \in Seq(S) /\ Len(p) = Len(w) + 1 /\ p[1] = e
         /\ \A i \in 1..Len(w) : p[i + 1] = w[i]
  <1>1. p \in Seq(S) /\ p # <<>> /\ Head(p) = e /\ Tail(p) = w
    BY OneBelow
  <1>2. Len(w) = Len(p) - 1 /\ Len(p) \in Nat /\ \A i \in 1..Len(w) : w[i] = p[i + 1]
    BY <1>1, HeadTailProperties, LenProperties
  <1>3. Head(p) = p[1]
    BY <1>1
  <1> QED BY <1>1, <1>2, <1>3

(* What one part adds.                                                    *)
LEMMA KeptIs ==
  ASSUME NEW parts \in Seq(Words)
  PROVE  /\ \A part \in Spelled : Kept(parts, part) \in Seq(Words)
         /\ Kept(parts, NoName) = parts
         /\ \A part \in Words : Kept(parts, part) = Append(parts, part)
  <1>1. Kept(parts, NoName) = parts /\ \A part : part # NoName => Kept(parts, part) = Append(parts, part)
    BY DEF Kept
  <1>2. \A part \in Words : part # NoName
    BY DEF Words, NoName
  <1>3. \A part \in Spelled : part # NoName => part \in Words
    BY DEF Words, Spelled, NoName
  <1>4. \A part \in Words : Append(parts, part) \in Seq(Words)
    BY AppendProperties
  <1> QED BY <1>1, <1>2, <1>3, <1>4

(* Splitting gives words, leaves a sequence of words as it is and drops the *)
(* empty part that paths into a root array begin with.                    *)
LEMMA SplitIs ==
  ASSUME NEW path \in Seq(Spelled)
  PROVE  /\ Split(path) \in Seq(Words)
         /\ path \in Seq(Words) => Split(path) = path
         /\ \A w \in Seq(Words) : path = <<NoName>> \o w => Split(path) = w
  <1>0. PICK n \in Nat : n = Len(path)
    BY LenProperties
  <1>1. PICK it : /\ it[0] = <<>> /\ Split(path) = it[n]
                  /\ \A m \in 1..n : it[m] = Kept(it[m - 1], path[m])
    BY <1>0, SplitFolds
  <1>2. n \in Nat /\ DOMAIN path = 1..n /\ \A i \in 1..n : path[i] \in Spelled
    BY <1>0, LenProperties, ElementOfSeq
  <1>21. <<>> \in Seq(Words)
    OBVIOUS
  <1>3. Split(path) \in Seq(Words)
    <2> DEFINE T == {m \in Nat : m <= n => it[m] \in Seq(Words)}
    <2>1. 0 \in T
      <3>1. it[0] \in Seq(Words)
        BY <1>1, <1>21
      <3> QED BY <3>1
    <2>2. ASSUME NEW m \in Nat, m \in T PROVE m + 1 \in T
      <3> SUFFICES ASSUME m + 1 <= n PROVE it[m + 1] \in Seq(Words)
        OBVIOUS
      <3>1. m + 1 \in 1..n /\ it[m] \in Seq(Words) /\ (m + 1) - 1 = m
        BY <1>2, <2>2
      <3>2. it[m + 1] = Kept(it[m], path[m + 1]) /\ path[m + 1] \in Spelled
        BY <1>1, <1>2, <3>1
      <3> QED BY <3>1, <3>2, KeptIs
    <2> HIDE DEF T
    <2>3. n \in T
      BY <1>2, <2>1, <2>2, SetInduction
    <2> QED BY <1>1, <1>2, <2>3 DEF T
  <1>4. ASSUME path \in Seq(Words) PROVE Split(path) = path
    <2> DEFINE T == {m \in Nat : m <= n => it[m] = SubSeq(path, 1, m)}
    <2>1. 0 \in T
      <3>1. SubSeq(path, 1, 0) = <<>>
        BY SubSeqEmpty
      <3>2. it[0] = SubSeq(path, 1, 0)
        BY <1>1, <3>1
      <3> QED BY <3>2
    <2>2. ASSUME NEW m \in Nat, m \in T PROVE m + 1 \in T
      <3> SUFFICES ASSUME m + 1 <= n PROVE it[m + 1] = SubSeq(path, 1, m + 1)
        OBVIOUS
      <3>1. m + 1 \in 1..n /\ it[m] = SubSeq(path, 1, m) /\ (m + 1) - 1 = m
        BY <1>2, <2>2
      <3>2. path[m + 1] \in Words /\ SubSeq(path, 1, m) \in Seq(Words)
        BY <1>4, <1>0, <3>1, WayGrows
      <3>3. it[m + 1] = Append(SubSeq(path, 1, m), path[m + 1])
        <4>1. it[m + 1] = Kept(it[m], path[m + 1])
          BY <1>1, <3>1
        <4>2. Kept(SubSeq(path, 1, m), path[m + 1]) = Append(SubSeq(path, 1, m), path[m + 1])
          BY <3>2, KeptIs
        <4> QED BY ONLY <3>1, <4>1, <4>2
      <3>4. SubSeq(path, 1, m + 1) = Append(SubSeq(path, 1, m), path[m + 1])
        BY <1>0, <3>1, WayGrows
      <3> QED BY <3>3, <3>4
    <2> HIDE DEF T
    <2>3. n \in T
      BY <1>2, <2>1, <2>2, SetInduction
    <2>4. Split(path) = SubSeq(path, 1, n)
      BY <1>1, <1>2, <2>3 DEF T
    <2> QED BY <2>4, <1>0, SubSeqFull
  <1>5. ASSUME NEW w \in Seq(Words), path = <<NoName>> \o w PROVE Split(path) = w
    <2> DEFINE T == {m \in Nat : m + 1 <= n => it[m + 1] = SubSeq(w, 1, m)}
    <2>1. NoName \in Strings /\ w \in Seq(Strings)
      <3>1. Words \subseteq Strings /\ NoName \in Strings
        BY NamesAssumption DEF Words, Strings, NoName
      <3>2. w \in Seq(Strings)
        BY <3>1, SeqMonotonic
      <3> QED BY <3>1, <3>2
    <2>2. Len(path) = Len(w) + 1 /\ path[1] = NoName /\ \A i \in 1..Len(w) : path[i + 1] = w[i]
      BY <1>5, <2>1, Headed
    <2>3. n = Len(w) + 1 /\ Len(w) \in Nat /\ \A i \in 1..Len(w) : path[i + 1] = w[i]
      BY <1>0, <2>2, LenProperties
    <2>4. it[1] = <<>> /\ SubSeq(w, 1, 0) = <<>>
      <3>1. it[1] = Kept(it[1 - 1], path[1])
        BY <1>1, <2>3
      <3>2. it[1] = Kept(<<>>, NoName)
        BY <1>1, <2>2, <3>1
      <3>3. Kept(<<>>, NoName) = <<>>
        BY <1>21, KeptIs
      <3>4. SubSeq(w, 1, 0) = <<>>
        BY SubSeqEmpty
      <3> QED BY <3>2, <3>3, <3>4
    <2>5. 0 \in T
      <3>0. 0 + 1 = 1 /\ 0 \in Nat
        OBVIOUS
      <3>1. it[0 + 1] = SubSeq(w, 1, 0)
        BY <2>4, <3>0, Zenon
      <3> QED BY <3>1
    <2>6. ASSUME NEW m \in Nat, m \in T PROVE m + 1 \in T
      <3> SUFFICES ASSUME (m + 1) + 1 <= n PROVE it[(m + 1) + 1] = SubSeq(w, 1, m + 1)
        OBVIOUS
      <3>1. m + 1 \in 1..Len(w) /\ it[m + 1] = SubSeq(w, 1, m) /\ (m + 2) - 1 = m + 1 /\ m + 2 \in 1..n
            /\ (m + 1) + 1 = m + 2
        BY <2>3, <2>6
      <3>2. path[m + 2] = w[m + 1] /\ w[m + 1] \in Words /\ SubSeq(w, 1, m) \in Seq(Words)
        BY <2>3, <3>1, WayGrows
      <3>3. it[m + 2] = Append(SubSeq(w, 1, m), w[m + 1])
        <4>1. it[m + 2] = Kept(it[(m + 2) - 1], path[m + 2])
          BY <1>1, <3>1
        <4>2. it[m + 2] = Kept(SubSeq(w, 1, m), w[m + 1])
          BY <3>1, <3>2, <4>1
        <4> QED BY <3>2, <4>2, KeptIs
      <3>4. SubSeq(w, 1, m + 1) = Append(SubSeq(w, 1, m), w[m + 1])
        BY <3>1, WayGrows
      <3> QED BY <3>1, <3>3, <3>4
    <2> HIDE DEF T
    <2>7. Len(w) \in T
      BY <2>3, <2>5, <2>6, SetInduction
    <2>8. it[n] = SubSeq(w, 1, Len(w))
      BY <2>3, <2>7 DEF T
    <2> QED BY <1>1, <2>8, SubSeqFull
  <1> QED BY <1>3, <1>4, <1>5

-------------------------------------------------------------------------------
(* The path of a node.                                                     *)

(* What a name spells.                                                    *)
LEMMA PartsIs ==
  /\ \A name \in Strings : Parts(name) \in Seq(Spelled)
  /\ \A name \in Words : Parts(name) = <<name>>
  /\ Parts(NoName) = <<NoName>>
  /\ \A name \in Strings : name \notin DOMAIN Dotted => Parts(name) = <<name>> /\ name \in Spelled
  /\ \A name \in DOMAIN Dotted : Parts(name) = Dotted[name] /\ Len(Dotted[name]) > 1 /\ Dotted[name] \in Seq(Spelled)
  <1>1. \A name \in DOMAIN Dotted : name # NoName /\ Dotted[name] \in Seq(Spelled) /\ Len(Dotted[name]) > 1
    BY DottedAssumption DEF Spelled, Strings, NoName
  <1>2. \A name \in Strings : name \notin DOMAIN Dotted => Parts(name) = <<name>> /\ name \in Spelled
    BY DEF Parts, Spelled
  <1>3. \A name \in Words : name \in Strings /\ name \notin DOMAIN Dotted
    BY DEF Words
  <1>4. NoName \in Strings /\ NoName \notin DOMAIN Dotted
    BY <1>1, NamesAssumption DEF Strings, NoName
  <1>5. \A name \in DOMAIN Dotted : Parts(name) = Dotted[name]
    BY DEF Parts
  <1>6. \A name \in Spelled : <<name>> \in Seq(Spelled)
    OBVIOUS
  <1> QED BY <1>1, <1>2, <1>3, <1>4, <1>5, <1>6

(* The path of a node from that of its container.                         *)
Stepped(doc, node, path, part) ==
  IF path # <<>> \/ doc[node] = Array
  THEN (IF path = <<>> THEN <<NoName>> ELSE path) \o Parts(part)
  ELSE IF part = NoName THEN <<>> ELSE Parts(part)

(* It is a path.                                                          *)
LEMMA SteppedIs ==
  ASSUME NEW doc, NEW node, NEW path \in Seq(Spelled), NEW part \in Strings
  PROVE  Stepped(doc, node, path, part) \in Seq(Spelled)
  <1>1. Parts(part) \in Seq(Spelled) /\ <<>> \in Seq(Spelled)
    BY PartsIs
  <1>2. <<NoName>> \in Seq(Spelled)
    <2>1. NoName \in Strings
      BY NamesAssumption DEF NoName, Strings
    <2>2. Parts(NoName) \in Seq(Spelled) /\ Parts(NoName) = <<NoName>>
      BY <2>1, PartsIs
    <2> QED BY <2>2
  <1>3. (IF path = <<>> THEN <<NoName>> ELSE path) \in Seq(Spelled)
    BY <1>2
  <1>4. (IF path = <<>> THEN <<NoName>> ELSE path) \o Parts(part) \in Seq(Spelled)
    BY <1>1, <1>3, Joined
  <1> QED BY <1>1, <1>4 DEF Stepped

(* The intermediate results of PathOf.                                    *)
LEMMA PathFolds ==
  ASSUME NEW doc, NEW node \in Seq(Strings)
  PROVE  \E it : /\ it[0] = <<>> /\ PathOf(doc, node) = it[Len(node)]
                 /\ \A m \in 1..Len(node) : it[m] = Stepped(doc, SubSeq(node, 1, m - 1), it[m - 1], node[m])
                 /\ \A m \in 0..Len(node) : it[m] \in Seq(Spelled)
  <1> DEFINE n == Len(node)
             V == Seq(Spelled)
             op(path, i) == Stepped(doc, SubSeq(node, 1, i - 1), path, node[i])
             F == [p \in V \X (1..n) |-> op(p[1], p[2])]
             seq == [i \in 1..n |-> i]
             Step(h) == [t \in SUBSET (1..n) |->
                           IF t = {} THEN <<>> ELSE op(h[t \ {Max(t)}], seq[Max(t)])]
             iter == CHOOSE h : h = Step(h)
  <1>1. n \in Nat /\ \A i \in 1..n : node[i] \in Strings
    BY LenProperties, ElementOfSeq
  <1>2. F \in [V \X (1..n) -> V] /\ <<>> \in V
    <2>1. \A p \in V \X (1..n) : op(p[1], p[2]) \in V
      <3> HIDE DEF n
      <3> QED BY <1>1, SteppedIs
    <2> HIDE DEF V, op, n
    <2>2. F \in [V \X (1..n) -> V]
      BY <2>1
    <2> QED BY <2>2 DEF V
  <1>3. PathOf(doc, node) = iter[1..n]
    BY <1>1 DEF PathOf, Stepped, NoName, FoldLeft, MapThenFoldSet
  <1> HIDE DEF op
  <1>4. PICK g \in [SUBSET (1..n) -> V] : IsFold(g, <<>>, n, F)
    <2> HIDE DEF n, F, V
    <2> QED BY <1>1, <1>2, FoldExists
  <1>5. g = Step(g)
    <2>1. ASSUME NEW t \in SUBSET (1..n), t # {} PROVE g[t] = op(g[t \ {Max(t)}], seq[Max(t)])
      <3>1. Max(t) \in 1..n /\ g[t \ {Max(t)}] \in V
        <4> HIDE DEF n, V
        <4> QED BY <1>1, <2>1, MaxInside
      <3> HIDE DEF V, n
      <3>2. seq[Max(t)] = Max(t)
        BY <3>1
      <3> HIDE DEF seq
      <3> QED BY <1>4, <2>1, <3>1, <3>2 DEF IsFold
    <2> HIDE DEF V, n, F, seq
    <2> QED BY <1>4, <2>1 DEF IsFold
  <1>6. iter = Step(iter)
    <2> HIDE DEF Step
    <2> QED BY <1>5
  <1> DEFINE it == [m \in 0..n |-> iter[1..m]]
  <1>7. it[0] = <<>> /\ it[n] = iter[1..n] /\ \A m \in 1..n : it[m] = op(it[m - 1], m)
    <2> HIDE DEF iter
    <2>0. \A m \in 1..n : seq[m] = m
      OBVIOUS
    <2> HIDE DEF n, seq
    <2>1. \A t \in SUBSET (1..n) :
            iter[t] = IF t = {} THEN <<>> ELSE op(iter[t \ {Max(t)}], seq[Max(t)])
      BY <1>6, Zenon
    <2> HIDE DEF V, F
    <2>2. 1..0 = {} /\ {} \in SUBSET (1..n) /\ \A m \in 1..n : 1..m \in SUBSET (1..n) /\ m \in Nat \ {0}
      BY <1>1
    <2>3. iter[1..0] = <<>> /\ \A m \in 1..n : iter[1..m] = op(iter[1..(m - 1)], seq[m])
      BY <2>1, <2>2, IntervalStep
    <2>31. \A m \in 1..n : iter[1..m] = op(iter[1..(m - 1)], m)
      BY <2>0, <2>3
    <2>4. 0 \in 0..n /\ n \in 0..n /\ \A m \in 1..n : m \in 0..n /\ m - 1 \in 0..n
      BY <1>1
    <2> QED BY <2>3, <2>31, <2>4
  <1> HIDE DEF it, iter
  <1>8. \A m \in 0..n : it[m] \in Seq(Spelled)
    <2> DEFINE T == {m \in Nat : m <= n => it[m] \in Seq(Spelled)}
    <2>1. 0 \in T
      <3>1. it[0] \in Seq(Spelled)
        BY <1>2, <1>7
      <3> QED BY <3>1
    <2>2. ASSUME NEW m \in Nat, m \in T PROVE m + 1 \in T
      <3> HIDE DEF n
      <3> SUFFICES ASSUME m + 1 <= n PROVE it[m + 1] \in Seq(Spelled)
        OBVIOUS
      <3>1. m + 1 \in 1..n /\ it[m] \in Seq(Spelled) /\ (m + 1) - 1 = m
        BY <1>1, <2>2
      <3>2. it[m + 1] = op(it[m], m + 1) /\ node[m + 1] \in Strings
        BY <1>1, <1>7, <3>1
      <3> QED BY <3>1, <3>2, SteppedIs DEF op
    <2> HIDE DEF T, n
    <2>3. Nat \subseteq T
      BY <2>1, <2>2, SetInduction
    <2>4. ASSUME NEW m \in 0..n PROVE it[m] \in Seq(Spelled)
      <3>1. m \in Nat /\ m <= n /\ m \in T
        BY <1>1, <2>3
      <3> QED BY <3>1 DEF T
    <2> QED BY <2>4
  <1> QED BY <1>3, <1>7, <1>8 DEF op

(* The path of a node is got from the path of its container.              *)
LEMMA PathGrows ==
  ASSUME NEW doc, NEW node \in Seq(Strings)
  PROVE  /\ PathOf(doc, node) \in Seq(Spelled) /\ PathOf(doc, <<>>) = <<>>
         /\ \A part \in Strings : PathOf(doc, Append(node, part)) = Stepped(doc, node, PathOf(doc, node), part)
  <1>1. PICK it : /\ it[0] = <<>> /\ PathOf(doc, node) = it[Len(node)]
                  /\ \A m \in 1..Len(node) : it[m] = Stepped(doc, SubSeq(node, 1, m - 1), it[m - 1], node[m])
                  /\ \A m \in 0..Len(node) : it[m] \in Seq(Spelled)
    BY PathFolds
  <1>2. PathOf(doc, node) \in Seq(Spelled)
    <2>1. Len(node) \in 0..Len(node)
      BY LenProperties
    <2> QED BY <1>1, <2>1
  <1>3. PathOf(doc, <<>>) = <<>>
    <2>1. <<>> \in Seq(Strings) /\ Len(<<>>) = 0
      OBVIOUS
    <2> DEFINE e == <<>>
    <2> HIDE DEF e
    <2>3. e \in Seq(Strings)
      BY <2>1 DEF e
    <2>4. PICK jt : /\ jt[0] = <<>> /\ PathOf(doc, e) = jt[Len(e)]
                    /\ \A m \in 1..Len(e) : jt[m] = Stepped(doc, SubSeq(e, 1, m - 1), jt[m - 1], e[m])
                    /\ \A m \in 0..Len(e) : jt[m] \in Seq(Spelled)
      BY <2>3, PathFolds
    <2>2. \E it0 : it0[0] = <<>> /\ PathOf(doc, e) = it0[Len(e)]
      BY <2>4
    <2> QED BY <2>1, <2>2 DEF e
  <1>4. ASSUME NEW part \in Strings
        PROVE  PathOf(doc, Append(node, part)) = Stepped(doc, node, PathOf(doc, node), part)
    <2>1. PICK e : e = Append(node, part)
      OBVIOUS
    <2>2. PICK n \in Nat : n = Len(node)
      BY LenProperties
    <2>3. e \in Seq(Strings) /\ Len(e) = n + 1 /\ (\A i \in 1..n : e[i] = node[i]) /\ e[n + 1] = part
      BY <2>1, <2>2, AppendProperties
    <2>4. PICK jt : /\ jt[0] = <<>> /\ PathOf(doc, e) = jt[n + 1]
                    /\ \A m \in 1..(n + 1) : jt[m] = Stepped(doc, SubSeq(e, 1, m - 1), jt[m - 1], e[m])
      <3>1. \E jt : /\ jt[0] = <<>> /\ PathOf(doc, e) = jt[Len(e)]
                    /\ \A m \in 1..Len(e) : jt[m] = Stepped(doc, SubSeq(e, 1, m - 1), jt[m - 1], e[m])
                    /\ \A m \in 0..Len(e) : jt[m] \in Seq(Spelled)
        <4>1. e \in Seq(Strings)
          BY <2>3
        <4> QED BY <4>1, PathFolds
      <3>2. Len(e) = n + 1
        BY <2>3
      <3> QED BY <3>1, <3>2
    <2>5. ASSUME NEW m \in Nat, m <= n PROVE SubSeq(e, 1, m) = SubSeq(node, 1, m)
      <3>1. /\ SubSeq(e, 1, m) \in Seq(Strings) /\ Len(SubSeq(e, 1, m)) = m
            /\ \A i \in 1..m : SubSeq(e, 1, m)[i] = e[i]
        <4>1. \A i \in 1..m : e[i] \in Strings
          BY <2>3, <2>5, ElementOfSeq
        <4> QED BY <2>3, <2>5, <4>1, SubSeqProperties
      <3>2. /\ SubSeq(node, 1, m) \in Seq(Strings) /\ Len(SubSeq(node, 1, m)) = m
            /\ \A i \in 1..m : SubSeq(node, 1, m)[i] = node[i]
        <4>1. \A i \in 1..m : node[i] \in Strings
          BY <2>2, <2>5, ElementOfSeq
        <4> QED BY <2>2, <2>5, <4>1, SubSeqProperties
      <3>3. \A i \in 1..m : e[i] = node[i]
        BY <2>3, <2>5
      <3>4. \A i \in 1..m : SubSeq(e, 1, m)[i] = SubSeq(node, 1, m)[i]
        BY <3>1, <3>2, <3>3
      <3> QED BY <3>1, <3>2, <3>4, SeqEqual
    <2> DEFINE T == {m \in Nat : m <= n => jt[m] = it[m]}
    <2>6. 0 \in T
      BY <1>1, <2>4
    <2>7. ASSUME NEW m \in Nat, m \in T PROVE m + 1 \in T
      <3> SUFFICES ASSUME m + 1 <= n PROVE jt[m + 1] = it[m + 1]
        OBVIOUS
      <3>1. m + 1 \in 1..n /\ m + 1 \in 1..(n + 1) /\ (m + 1) - 1 = m /\ jt[m] = it[m] /\ m <= n
        BY <2>7
      <3>2. jt[m + 1] = Stepped(doc, SubSeq(e, 1, m), jt[m], e[m + 1])
        BY <2>4, <3>1
      <3>3. it[m + 1] = Stepped(doc, SubSeq(node, 1, m), it[m], node[m + 1])
        BY <1>1, <2>2, <3>1
      <3>4. SubSeq(e, 1, m) = SubSeq(node, 1, m) /\ e[m + 1] = node[m + 1]
        BY <2>3, <2>5, <3>1
      <3> QED BY <3>1, <3>2, <3>3, <3>4
    <2> HIDE DEF T
    <2>8. n \in T
      BY <2>6, <2>7, SetInduction
    <2>9. jt[n] = PathOf(doc, node)
      BY <1>1, <2>2, <2>8 DEF T
    <2>10. jt[n + 1] = Stepped(doc, SubSeq(e, 1, n), jt[n], e[n + 1])
      <3>1. n + 1 \in 1..(n + 1) /\ (n + 1) - 1 = n
        OBVIOUS
      <3> QED BY <2>4, <3>1
    <2>11. SubSeq(e, 1, n) = node
      BY <2>2, <2>5, SubSeqFull
    <2> QED BY <2>1, <2>3, <2>4, <2>9, <2>10, <2>11
  <1> QED BY <1>2, <1>3, <1>4

(* Induction over sequences that grow at the end.                          *)
LEMMA GrowInduction ==
  ASSUME NEW S, NEW T, <<>> \in T, \A n \in Seq(S), e \in S : n \in T => Append(n, e) \in T
  PROVE  Seq(S) \subseteq T
  <1> DEFINE L == {k \in Nat : \A n \in Seq(S) : Len(n) = k => n \in T}
  <1>1. 0 \in L
    <2>1. \A n \in Seq(S) : Len(n) = 0 => n = <<>>
      BY EmptySeq
    <2> QED BY <2>1
  <1>2. ASSUME NEW k \in Nat, k \in L PROVE k + 1 \in L
    <2> SUFFICES ASSUME NEW n \in Seq(S), Len(n) = k + 1 PROVE n \in T
      OBVIOUS
    <2>1. n # <<>>
      BY EmptySeq
    <2>2. Front(n) \in Seq(S) /\ Len(Front(n)) = k /\ Last(n) \in S /\ Append(Front(n), Last(n)) = n
      BY <2>1, FrontIs, FrontAndLast
    <2>3. Front(n) \in T
      BY <1>2, <2>2
    <2> QED BY <2>2, <2>3
  <1> HIDE DEF L
  <1>3. Nat \subseteq L
    BY <1>1, <1>2, SetInduction
  <1>4. ASSUME NEW n \in Seq(S) PROVE n \in T
    <2>1. Len(n) \in L
      BY <1>3, LenProperties
    <2> QED BY <2>1 DEF L
  <1> QED BY <1>4

(* A prefix is no longer than what it begins.                             *)
LEMMA PrefixLength ==
  ASSUME NEW S, NEW s \in Seq(S), NEW t \in Seq(S), IsPrefix(s, t)
  PROVE  Len(s) \in Nat /\ Len(t) \in Nat /\ Len(s) <= Len(t) /\ (Len(s) >= Len(t) => s = t)
  <1>1. Len(s) \in Nat /\ Len(t) \in Nat
    BY LenProperties
  <1>2. Len(s) <= Len(t) /\ \A i \in 1..Len(s) : s[i] = t[i]
    BY PrefixByElements
  <1>3. ASSUME Len(s) >= Len(t) PROVE s = t
    <2>1. Len(s) = Len(t)
      BY <1>1, <1>2, <1>3
    <2> QED BY <1>2, <2>1, SeqEqual
  <1> QED BY <1>1, <1>2, <1>3

(* What every path of a document begins with.                             *)
Lead(doc) == IF doc[<<>>] = Array THEN <<NoName>> ELSE <<>>

(* The empty part under an array, nothing under an object.                *)
LEMMA LeadIs ==
  ASSUME NEW doc
  PROVE  /\ Lead(doc) \in Seq(Spelled) /\ Lead(doc) \in Seq(Strings)
         /\ Lead(doc) \in {<<>>, <<NoName>>}
         /\ \A n \in Seq(Words) : n \in Seq(Spelled) /\ n \in Seq(Strings)
  <1>1. NoName \in Spelled /\ NoName \in Strings
    <2>1. NoName \in Strings
      BY NamesAssumption DEF NoName, Strings
    <2>2. NoName \notin DOMAIN Dotted
      BY DottedAssumption DEF NoName
    <2> QED BY <2>1, <2>2 DEF Spelled
  <1>2. Words \subseteq Spelled /\ Words \subseteq Strings
    BY DEF Words, Spelled
  <1>3. \A n \in Seq(Words) : n \in Seq(Spelled) /\ n \in Seq(Strings)
    BY <1>2, SeqMonotonic
  <1> QED BY <1>1, <1>3 DEF Lead

(* Joining and appending.                                                 *)
LEMMA JoinedAppend ==
  ASSUME NEW S, NEW s \in Seq(S), NEW n \in Seq(S), NEW e \in S,
         NEW l, l = s \o n, NEW r, r = s \o Append(n, e)
  PROVE  r = Append(l, e) /\ Append(l, e) = l \o <<e>>
  <1>1. PICK m : m = Append(n, e)
    OBVIOUS
  <1>2. /\ m \in Seq(S) /\ Len(m) = Len(n) + 1 /\ Len(s) \in Nat /\ Len(n) \in Nat
        /\ \A i \in 1..Len(n) : m[i] = n[i]
        /\ m[Len(n) + 1] = e
    BY <1>1, AppendProperties, LenProperties
  <1>3. /\ l \in Seq(S) /\ Len(l) = Len(s) + Len(n)
        /\ \A i \in 1..Len(s) : l[i] = s[i]
        /\ \A i \in 1..Len(n) : l[Len(s) + i] = n[i]
    BY Joined
  <1>4. /\ r \in Seq(S) /\ Len(r) = Len(s) + Len(m)
        /\ \A i \in 1..Len(s) : r[i] = s[i]
        /\ \A i \in 1..Len(m) : r[Len(s) + i] = m[i]
    BY <1>1, <1>2, Joined
  <1>5. PICK t : t = Append(l, e)
    OBVIOUS
  <1>6. /\ t \in Seq(S) /\ Len(t) = Len(l) + 1
        /\ \A i \in 1..Len(l) : t[i] = l[i]
        /\ t[Len(l) + 1] = e
    BY <1>3, <1>5, AppendProperties
  <1>7. Len(r) = Len(t)
    BY <1>2, <1>3, <1>4, <1>6
  <1>8. ASSUME NEW i \in 1..Len(r) PROVE r[i] = t[i]
    <2>1. CASE i \in 1..Len(s)
      BY <1>2, <1>3, <1>4, <1>6, <2>1
    <2>2. CASE i = Len(s) + Len(n) + 1
      <3>1. Len(n) + 1 \in 1..Len(m)
        BY <1>2
      <3>2. r[Len(s) + (Len(n) + 1)] = e
        BY <1>2, <1>4, <3>1
      <3>3. t[(Len(s) + Len(n)) + 1] = e
        BY <1>3, <1>6
      <3>4. i = Len(s) + (Len(n) + 1) /\ i = (Len(s) + Len(n)) + 1
        BY <1>2, <2>2
      <3> QED BY <3>2, <3>3, <3>4
    <2>3. CASE i \notin 1..Len(s) /\ i # Len(s) + Len(n) + 1
      <3>1. PICK j \in 1..Len(n) : i = Len(s) + j
        <4>1. i - Len(s) \in 1..Len(n) /\ i = Len(s) + (i - Len(s))
          <5>1. Len(r) = Len(s) + Len(n) + 1 /\ i \in 1..Len(r) /\ i \in Int
            BY <1>2, <1>4
          <5> QED BY <1>2, <2>3, <5>1
        <4> QED BY <4>1
      <3>2. j \in 1..Len(m) /\ Len(s) + j \in 1..Len(l)
        BY <1>2, <1>3, <3>1
      <3>3. r[Len(s) + j] = m[j] /\ t[Len(s) + j] = l[Len(s) + j]
        BY <1>4, <1>6, <3>2
      <3>4. m[j] = n[j] /\ l[Len(s) + j] = n[j]
        BY <1>2, <1>3, <3>1
      <3> QED BY <3>1, <3>3, <3>4
    <2> QED BY <2>1, <2>2, <2>3
  <1>9. r = t
    BY <1>4, <1>6, <1>7, <1>8, SeqEqual
  <1>10. Append(l, e) = l \o <<e>>
    BY <1>3
  <1> QED BY <1>5, <1>9, <1>10

(* A node of words is spelled by its words.                               *)
LEMMA PathClean ==
  ASSUME NEW doc, NEW n \in Seq(Words), n # <<>>
  PROVE  PathOf(doc, n) = Lead(doc) \o n
  <1> DEFINE T == {m \in Seq(Words) : m # <<>> => PathOf(doc, m) = Lead(doc) \o m}
  <1>1. <<>> \in T
    OBVIOUS
  <1>2. ASSUME NEW m \in Seq(Words), NEW e \in Words, m \in T PROVE Append(m, e) \in T
    <2>1. Append(m, e) \in Seq(Words)
      BY AppendProperties
    <2>2. e \in Strings /\ Parts(e) = <<e>> /\ e # NoName /\ m \in Seq(Strings) /\ e \in Spelled
      BY PartsIs, LeadIs DEF Words, NoName, Spelled
    <2>3. PathOf(doc, Append(m, e)) = Stepped(doc, m, PathOf(doc, m), e)
      BY <2>2, PathGrows
    <2>4. CASE m = <<>>
      <3>1. PathOf(doc, m) = <<>>
        BY <2>2, <2>4, PathGrows
      <3>2. Stepped(doc, m, <<>>, e) = Lead(doc) \o <<e>>
        <4>1. CASE doc[<<>>] = Array
          BY <2>2, <2>4, <4>1 DEF Stepped, Lead
        <4>2. CASE doc[<<>>] # Array
          <5>1. Lead(doc) = <<>> /\ Stepped(doc, m, <<>>, e) = Parts(e)
            BY <2>2, <2>4, <4>2 DEF Stepped, Lead
          <5>2. <<>> \o <<e>> = <<e>>
            OBVIOUS
          <5> QED BY <2>2, <5>1, <5>2
        <4> QED BY <4>1, <4>2
      <3>3. Append(m, e) = <<e>>
        BY <2>4
      <3> QED BY <2>1, <2>3, <3>1, <3>2, <3>3
    <2>5. CASE m # <<>>
      <3>1. PathOf(doc, m) = Lead(doc) \o m
        BY <1>2, <2>5
      <3>2. Lead(doc) \in Seq(Strings) /\ Lead(doc) \o m # <<>> /\ Lead(doc) \o m \in Seq(Strings)
        BY <2>2, <2>5, LeadIs, FrontOfJoined, Joined
      <3>3. Stepped(doc, m, Lead(doc) \o m, e) = (Lead(doc) \o m) \o <<e>>
        <4> DEFINE p == Lead(doc) \o m
        <4>1. p # <<>>
          BY <3>2
        <4> HIDE DEF p
        <4>2. Stepped(doc, m, p, e) = p \o <<e>>
          BY <2>2, <4>1 DEF Stepped
        <4> QED BY <4>2 DEF p
      <3>4. (Lead(doc) \o m) \o <<e>> = Lead(doc) \o Append(m, e)
        <4> DEFINE l == Lead(doc)
                   p == Lead(doc) \o m
                   r == Lead(doc) \o Append(m, e)
        <4>1. l \in Seq(Strings) /\ m \in Seq(Strings) /\ e \in Strings /\ p = l \o m /\ r = l \o Append(m, e)
          BY <2>2, <3>2
        <4> HIDE DEF l, p, r
        <4>2. r = Append(p, e) /\ Append(p, e) = p \o <<e>>
          BY <4>1, JoinedAppend
        <4>3. p \o <<e>> = r
          BY <4>2
        <4> QED BY <4>3 DEF p, r
      <3> QED BY <2>1, <2>3, <3>1, <3>3, <3>4
    <2> QED BY <2>4, <2>5
  <1> HIDE DEF T
  <1>3. n \in T
    BY <1>1, <1>2, GrowInduction
  <1> QED BY <1>3 DEF T

(* The path of a node begins with the paths of the nodes above it.        *)
LEMMA PathPrefix ==
  ASSUME NEW doc, NEW m \in Seq(Strings), NEW n \in Seq(Strings), IsPrefix(m, n)
  PROVE  IsPrefix(PathOf(doc, m), PathOf(doc, n))
  <1> DEFINE T == {o \in Seq(Strings) : IsPrefix(m, o) => IsPrefix(PathOf(doc, m), PathOf(doc, o))}
  <1>0. PathOf(doc, m) \in Seq(Spelled)
    BY PathGrows
  <1>1. <<>> \in T
    <2>1. IsPrefix(m, <<>>) => m = <<>>
      <3>1. <<>> \in Seq(Strings) /\ Len(<<>>) = 0
        OBVIOUS
      <3>2. ASSUME NEW z \in Seq(Strings), Len(z) = 0, IsPrefix(m, z) PROVE m = <<>>
        <4>1. Len(m) = 0
          <5>1. Len(m) <= Len(z) /\ Len(m) \in Nat
            BY <3>2, PrefixLength
          <5> QED BY <3>2, <5>1
        <4> QED BY <4>1, EmptySeq
      <3> QED BY <3>1, <3>2
    <2>2. IsPrefix(PathOf(doc, m), PathOf(doc, m))
      BY <1>0, PrefixSelf
    <2> QED BY <2>1, <2>2
  <1>2. ASSUME NEW o \in Seq(Strings), NEW e \in Strings, o \in T PROVE Append(o, e) \in T
    <2>1. Append(o, e) \in Seq(Strings) /\ Len(Append(o, e)) = Len(o) + 1 /\ Len(o) \in Nat
          /\ Front(Append(o, e)) = o /\ Append(o, e) # <<>>
      BY AppendIs, LenProperties
    <2>2. IsPrefix(o, Append(o, e))
      BY <2>1, FrontIs
    <2> SUFFICES ASSUME IsPrefix(m, Append(o, e))
                 PROVE  IsPrefix(PathOf(doc, m), PathOf(doc, Append(o, e)))
      BY <2>1
    <2>3. CASE Len(m) = Len(o) + 1
      <3>1. m = Append(o, e)
        BY <2>1, <2>3, PrefixLength
      <3> QED BY <1>0, <3>1, PrefixSelf
    <2>4. CASE Len(m) # Len(o) + 1
      <3>1. Len(m) <= Len(o)
        <4>1. Len(m) <= Len(Append(o, e)) /\ Len(m) \in Nat
          BY <2>1, PrefixLength
        <4> QED BY <2>1, <2>4, <4>1
      <3>2. IsPrefix(m, o)
        BY <2>1, <2>2, <3>1, PrefixesComparable, PrefixOfLonger
      <3>3. IsPrefix(PathOf(doc, m), PathOf(doc, o))
        BY <1>2, <3>2
      <3>4. PathOf(doc, o) \in Seq(Spelled) /\ PathOf(doc, Append(o, e)) \in Seq(Spelled)
        BY <2>1, PathGrows
      <3>5. IsPrefix(PathOf(doc, o), PathOf(doc, Append(o, e)))
        <4>1. PathOf(doc, Append(o, e)) = Stepped(doc, o, PathOf(doc, o), e)
          BY PathGrows
        <4>2. CASE PathOf(doc, o) = <<>>
          BY <3>4, <4>2, PrefixSelf
        <4>3. CASE PathOf(doc, o) # <<>>
          <5>1. PathOf(doc, Append(o, e)) = PathOf(doc, o) \o Parts(e)
            BY <4>1, <4>3 DEF Stepped
          <5> QED BY <3>4, <5>1, PartsIs, Joined
        <4> QED BY <4>2, <4>3
      <3> QED BY <1>0, <3>3, <3>4, <3>5, PrefixTransitive
    <2> QED BY <2>3, <2>4
  <1> HIDE DEF T
  <1>3. n \in T
    BY <1>1, <1>2, GrowInduction
  <1> QED BY <1>3 DEF T

(* Only the arrays above a node decide how it is spelled.                 *)
LEMMA PathSame ==
  ASSUME NEW d, NEW e, NEW n \in Seq(Strings),
         \A m \in Seq(Strings) : IsPrefix(m, n) /\ m # n => (d[m] = Array <=> e[m] = Array)
  PROVE  PathOf(d, n) = PathOf(e, n)
  <1> DEFINE T == {o \in Seq(Strings) : IsPrefix(o, n) => PathOf(d, o) = PathOf(e, o)}
  <1>1. <<>> \in T
    <2>1. <<>> \in Seq(Strings)
      OBVIOUS
    <2>2. \A f : PathOf(f, <<>>) = <<>>
      BY <2>1, PathGrows
    <2> QED BY <2>1, <2>2
  <1>2. ASSUME NEW o \in Seq(Strings), NEW x \in Strings, o \in T PROVE Append(o, x) \in T
    <2>1. Append(o, x) \in Seq(Strings) /\ Len(Append(o, x)) = Len(o) + 1 /\ Len(o) \in Nat
          /\ Front(Append(o, x)) = o /\ Append(o, x) # <<>>
      BY AppendIs, LenProperties
    <2>2. IsPrefix(o, Append(o, x))
      BY <2>1, FrontIs
    <2> SUFFICES ASSUME IsPrefix(Append(o, x), n)
                 PROVE  PathOf(d, Append(o, x)) = PathOf(e, Append(o, x))
      BY <2>1
    <2>3. IsPrefix(o, n)
      BY <2>1, <2>2, PrefixTransitive
    <2>4. o # n
      <3>1. Len(Append(o, x)) <= Len(n)
        BY <2>1, PrefixLength
      <3> QED BY <2>1, <3>1
    <2>5. PathOf(d, o) = PathOf(e, o) /\ (d[o] = Array <=> e[o] = Array)
      BY <1>2, <2>3, <2>4
    <2>6. /\ PathOf(d, Append(o, x)) = Stepped(d, o, PathOf(d, o), x)
          /\ PathOf(e, Append(o, x)) = Stepped(e, o, PathOf(e, o), x)
      BY PathGrows
    <2> QED BY <2>5, <2>6 DEF Stepped
  <1> HIDE DEF T
  <1>3. n \in T
    BY <1>1, <1>2, GrowInduction
  <1>4. IsPrefix(n, n)
    BY PrefixSelf
  <1> QED BY <1>3, <1>4 DEF T

-------------------------------------------------------------------------------
(* Reading by a path.                                                      *)

(* One part further down.                                                 *)
Below(d, nodes, part) == UNION {Child(d, o, part) : o \in nodes}

(* The intermediate results of Located.                                   *)
LocatedBy(it, d, path, w) ==
  /\ it[0] = {<<>>} /\ Located(d, path) = it[Len(w)]
  /\ \A m \in 1..Len(w) : it[m] = Below(d, it[m - 1], w[m])

(* There are such results.                                                *)
LEMMA LocatedFolds ==
  ASSUME NEW d, NEW path, NEW w \in Seq(Words), w = Split(path), <<>> \in DOMAIN d
  PROVE  \E it : LocatedBy(it, d, path, w)
  <1> DEFINE n == Len(w)
             V == SUBSET DOMAIN d
             F == [p \in V \X (1..n) |-> Below(d, p[1], w[p[2]])]
             Step(h) == [t \in SUBSET (1..n) |->
                           IF t = {} THEN {<<>>} ELSE Below(d, h[t \ {Max(t)}], w[Max(t)])]
             iter == CHOOSE h : h = Step(h)
  <1>1. n \in Nat /\ DOMAIN w = 1..n
    BY LenProperties
  <1>2. F \in [V \X (1..n) -> V] /\ {<<>>} \in V
    <2>1. \A nodes, part : Below(d, nodes, part) \in V
      BY DEF Below, Child
    <2> HIDE DEF V, n
    <2>2. F \in [V \X (1..n) -> V]
      BY <2>1
    <2> QED BY <2>2 DEF V
  <1>3. Located(d, path) = iter[1..n]
    BY <1>1 DEF Located, Below, FoldLeft, MapThenFoldSet
  <1>4. PICK g \in [SUBSET (1..n) -> V] : IsFold(g, {<<>>}, n, F)
    <2> HIDE DEF n, F, V
    <2> QED BY <1>1, <1>2, FoldExists
  <1>5. g = Step(g)
    <2>1. ASSUME NEW t \in SUBSET (1..n), t # {} PROVE g[t] = Below(d, g[t \ {Max(t)}], w[Max(t)])
      <3>1. Max(t) \in 1..n /\ g[t \ {Max(t)}] \in V
        <4> HIDE DEF n, V
        <4> QED BY <1>1, <2>1, MaxInside
      <3> HIDE DEF V, n
      <3> QED BY <1>4, <2>1, <3>1 DEF IsFold
    <2> HIDE DEF V, n, F
    <2> QED BY <1>4, <2>1 DEF IsFold
  <1>6. iter = Step(iter)
    <2> HIDE DEF Step
    <2> QED BY <1>5
  <1> DEFINE it == [m \in 0..n |-> iter[1..m]]
  <1>7. it[0] = {<<>>} /\ it[n] = iter[1..n] /\ \A m \in 1..n : it[m] = Below(d, it[m - 1], w[m])
    <2> HIDE DEF iter, n
    <2>1. \A t \in SUBSET (1..n) :
            iter[t] = IF t = {} THEN {<<>>} ELSE Below(d, iter[t \ {Max(t)}], w[Max(t)])
      BY <1>6, Zenon
    <2> HIDE DEF V, F
    <2>2. 1..0 = {} /\ {} \in SUBSET (1..n) /\ \A m \in 1..n : 1..m \in SUBSET (1..n) /\ m \in Nat \ {0}
      BY <1>1
    <2>3. iter[1..0] = {<<>>} /\ \A m \in 1..n : iter[1..m] = Below(d, iter[1..(m - 1)], w[m])
      <3>1. iter[1..0] = {<<>>}
        BY <2>1, <2>2
      <3>2. ASSUME NEW m \in 1..n PROVE iter[1..m] = Below(d, iter[1..(m - 1)], w[m])
        <4>1. 1..m \in SUBSET (1..n) /\ m \in Nat \ {0}
          BY <2>2
        <4>2. 1..m # {} /\ Max(1..m) = m /\ (1..m) \ {Max(1..m)} = 1..(m - 1)
          BY <4>1, IntervalStep
        <4>3. iter[1..m] = Below(d, iter[(1..m) \ {Max(1..m)}], w[Max(1..m)])
          BY <2>1, <4>1, <4>2
        <4> QED BY ONLY <4>2, <4>3
      <3> QED BY <3>1, <3>2
    <2>4. 0 \in 0..n /\ n \in 0..n /\ \A m \in 1..n : m \in 0..n /\ m - 1 \in 0..n
      BY <1>1
    <2> QED BY <2>3, <2>4
  <1> HIDE DEF it, iter
  <1>8. LocatedBy(it, d, path, w)
    BY <1>3, <1>7 DEF LocatedBy
  <1> QED BY <1>8

(* A path leads to the node that its parts name.                           *)
LEMMA LocatedIs ==
  ASSUME NEW d, IsDocument(d), NEW path, NEW w \in Seq(Words), w = Split(path)
  PROVE  /\ Located(d, path) = {w} \cap DOMAIN d
         /\ Exists(d, path) <=> w \in DOMAIN d
         /\ w \in DOMAIN d => Get(d, path) = d[w]
  <1>0. PICK it : LocatedBy(it, d, path, w)
    <2>1. <<>> \in DOMAIN d
      BY DEF IsDocument
    <2> QED BY <2>1, LocatedFolds
  <1>1. /\ it[0] = {<<>>} /\ Located(d, path) = it[Len(w)]
        /\ \A m \in 1..Len(w) : it[m] = Below(d, it[m - 1], w[m])
    BY <1>0 DEF LocatedBy
  <1>2. PICK n \in Nat : n = Len(w)
    BY LenProperties
  <1> DEFINE Way(m) == SubSeq(w, 1, m)
             T == {m \in Nat : m <= n => it[m] = {Way(m)} \cap DOMAIN d}
  <1>3. 0 \in T
    <2>1. Way(0) = <<>>
      BY SubSeqEmpty
    <2>2. <<>> \in DOMAIN d
      BY DEF IsDocument
    <2> QED BY <1>1, <2>1, <2>2
  <1>4. ASSUME NEW m \in Nat, m \in T PROVE m + 1 \in T
    <2> SUFFICES ASSUME m + 1 <= n PROVE it[m + 1] = {Way(m + 1)} \cap DOMAIN d
      OBVIOUS
    <2>1. m + 1 \in 1..Len(w) /\ (m + 1) - 1 = m /\ m <= n
      BY <1>2
    <2>2. PICK o : o = Way(m)
      OBVIOUS
    <2>3. PICK x : x = w[m + 1]
      OBVIOUS
    <2>4. o \in Seq(Words) /\ x \in Words /\ Way(m + 1) = Append(o, x)
      BY <2>1, <2>2, <2>3, WayGrows
    <2>5. it[m] = {o} \cap DOMAIN d
      BY <1>4, <2>1, <2>2
    <2>6. it[m + 1] = Below(d, it[m], x)
      BY <1>1, <2>1, <2>3
    <2>7. o \in Seq(Strings) /\ x \in Strings
      BY <2>4, LeadIs DEF Words
    <2>8. PICK q : q = Append(o, x)
      OBVIOUS
    <2>9. q \in DOMAIN d => o \in DOMAIN d /\ d[o] \in Containers /\ (d[o] = Array => IsIndex(x))
      <3>1. q # <<>> /\ Front(q) = o /\ Last(q) = x
        BY <2>7, <2>8, AppendIs
      <3> QED BY <3>1, NodeIs
    <2>10. CASE o \notin DOMAIN d
      BY <2>4, <2>5, <2>6, <2>8, <2>9, <2>10 DEF Below
    <2>11. CASE o \in DOMAIN d
      <3>1. it[m + 1] = Child(d, o, x)
        BY <2>5, <2>6, <2>11 DEF Below
      <3>2. Child(d, o, x) = {q} \cap DOMAIN d
        BY <2>8, <2>9 DEF Child, Containers
      <3> QED BY <2>4, <2>8, <3>1, <3>2
    <2> QED BY <2>10, <2>11
  <1> HIDE DEF T
  <1>5. n \in T
    BY <1>3, <1>4, SetInduction
  <1>6. Located(d, path) = {w} \cap DOMAIN d
    <2>1. it[n] = {Way(n)} \cap DOMAIN d
      BY <1>5 DEF T
    <2>2. Way(n) = w
      BY <1>2, SubSeqFull
    <2> QED BY <1>1, <1>2, <2>1, <2>2
  <1> QED BY <1>6 DEF Exists, Get

-------------------------------------------------------------------------------
(* Writing by a path.                                                      *)

(* The beginning of Set, and one part of it.                              *)
Start(d) == [doc |-> d, at |-> <<>>, ok |-> TRUE]
Down(acc, part, next) == IF acc.ok THEN Descend(acc, part, next) ELSE acc

(* The intermediate results of Set.                                       *)
SetBy(it, X, d, path, v, w) ==
  /\ it[0] = Start(d)
  /\ \A m \in 1..(Len(w) - 1) : it[m] = Down(it[m - 1], w[m], w[m + 1])
  /\ \A m \in 0..(Len(w) - 1) : it[m] \in Accs(X)
  /\ Set(d, path, v) = IF it[Len(w) - 1].ok THEN Assign(it[Len(w) - 1], Last(w), v) ELSE it[Len(w) - 1]

(* The beginning is a document and a node in it.                          *)
LEMMA StartIs ==
  ASSUME NEW X, NEW d \in Docs(X)
  PROVE  Start(d) \in Accs(X)
  <1>1. <<>> \in DOMAIN d /\ <<>> \in Seq(Words)
    <2>1. <<>> \in DOMAIN d
      BY DocsAre DEF IsDocument
    <2> QED BY <2>1
  <1> QED BY <1>1 DEF Start, Accs

(* There are such results.                                                *)
LEMMA SetFolds ==
  ASSUME NEW X, {Null, Object, Array} \subseteq X, NEW d \in Docs(X), NEW path, NEW v,
         NEW w \in Seq(Words), w = Split(path), w # <<>>
  PROVE  \E it : SetBy(it, X, d, path, v, w)
  <1> DEFINE n == Len(w) - 1
             V == Accs(X)
             op(acc, i) == Down(acc, w[i], w[i + 1])
             F == [p \in V \X (1..n) |-> op(p[1], p[2])]
             seq == [i \in 1..n |-> i]
             Step(h) == [t \in SUBSET (1..n) |->
                           IF t = {} THEN Start(d) ELSE op(h[t \ {Max(t)}], seq[Max(t)])]
             iter == CHOOSE h : h = Step(h)
  <1>1. n \in Nat /\ \A i \in 1..n : w[i] \in Words
    <2>1. Len(w) \in Nat /\ Len(w) # 0 /\ \A i \in 1..Len(w) : w[i] \in Words
      BY LenProperties, ElementOfSeq, EmptySeq
    <2> QED BY <2>1
  <1>2. F \in [V \X (1..n) -> V] /\ Start(d) \in V
    <2>1. \A p \in V \X (1..n) : op(p[1], p[2]) \in V
      <3> HIDE DEF n
      <3> QED BY <1>1, DescendIs DEF Down
    <2> HIDE DEF V, op, n
    <2>2. F \in [V \X (1..n) -> V]
      BY <2>1
    <2> QED BY <2>2, StartIs DEF V
  <1>3. Set(d, path, v) = IF iter[1..n].ok THEN Assign(iter[1..n], Last(w), v) ELSE iter[1..n]
    BY <1>1 DEF Set, Down, Start, FoldLeft, MapThenFoldSet
  <1> HIDE DEF op
  <1>4. PICK g \in [SUBSET (1..n) -> V] : IsFold(g, Start(d), n, F)
    <2> HIDE DEF n, F, V
    <2> QED BY <1>1, <1>2, FoldExists
  <1>5. g = Step(g)
    <2>1. ASSUME NEW t \in SUBSET (1..n), t # {} PROVE g[t] = op(g[t \ {Max(t)}], seq[Max(t)])
      <3>1. Max(t) \in 1..n /\ g[t \ {Max(t)}] \in V
        <4> HIDE DEF n, V
        <4> QED BY <1>1, <2>1, MaxInside
      <3> HIDE DEF V, n
      <3>2. seq[Max(t)] = Max(t)
        BY <3>1
      <3> HIDE DEF seq
      <3> QED BY <1>4, <2>1, <3>1, <3>2 DEF IsFold
    <2> HIDE DEF V, n, F, seq
    <2> QED BY <1>4, <2>1 DEF IsFold
  <1>6. iter = Step(iter)
    <2> HIDE DEF Step
    <2> QED BY <1>5
  <1> DEFINE it == [m \in 0..n |-> iter[1..m]]
  <1>7. it[0] = Start(d) /\ it[n] = iter[1..n] /\ \A m \in 1..n : it[m] = op(it[m - 1], m)
    <2> HIDE DEF iter
    <2>0. \A m \in 1..n : seq[m] = m
      OBVIOUS
    <2> HIDE DEF n, seq
    <2>1. \A t \in SUBSET (1..n) :
            iter[t] = IF t = {} THEN Start(d) ELSE op(iter[t \ {Max(t)}], seq[Max(t)])
      BY <1>6, Zenon
    <2> HIDE DEF V, F
    <2>2. 1..0 = {} /\ {} \in SUBSET (1..n) /\ \A m \in 1..n : 1..m \in SUBSET (1..n) /\ m \in Nat \ {0}
      BY <1>1
    <2>3. iter[1..0] = Start(d) /\ \A m \in 1..n : iter[1..m] = op(iter[1..(m - 1)], seq[m])
      BY <2>1, <2>2, IntervalStep
    <2>31. \A m \in 1..n : iter[1..m] = op(iter[1..(m - 1)], m)
      BY <2>0, <2>3
    <2>4. 0 \in 0..n /\ n \in 0..n /\ \A m \in 1..n : m \in 0..n /\ m - 1 \in 0..n
      BY <1>1
    <2> QED BY <2>3, <2>31, <2>4
  <1> HIDE DEF it, iter
  <1>8. \A m \in 0..n : it[m] \in V
    <2> HIDE DEF n
    <2> DEFINE T == {m \in Nat : m <= n => it[m] \in V}
    <2>1. 0 \in T
      <3> HIDE DEF V
      <3>1. it[0] \in V
        BY <1>2, <1>7
      <3> QED BY <3>1
    <2>2. ASSUME NEW m \in Nat, m \in T PROVE m + 1 \in T
      <3> SUFFICES ASSUME m + 1 <= n PROVE it[m + 1] \in V
        OBVIOUS
      <3> HIDE DEF V
      <3>1. m + 1 \in 1..n /\ it[m] \in V /\ (m + 1) - 1 = m
        BY <1>1, <2>2
      <3>2. it[m + 1] = op(it[m], m + 1) /\ w[m + 1] \in Words
        BY <1>1, <1>7, <3>1
      <3> QED BY <3>1, <3>2, DescendIs DEF op, Down, V
    <2> HIDE DEF T
    <2>3. Nat \subseteq T
      BY <2>1, <2>2, SetInduction
    <2>4. ASSUME NEW m \in 0..n PROVE it[m] \in V
      <3>1. m \in Nat /\ m <= n /\ m \in T
        BY <1>1, <2>3
      <3> QED BY <3>1 DEF T
    <2> QED BY <2>4
  <1>9. SetBy(it, X, d, path, v, w)
    <2>1. \A m \in 1..n : it[m] = Down(it[m - 1], w[m], w[m + 1])
      BY <1>7 DEF op
    <2> QED BY <1>3, <1>7, <1>8, <2>1 DEF SetBy
  <1> QED BY <1>9

(* An array on the way that is passed over.                                *)
Over(d, at, p, r, x) ==
  /\ r \in DOMAIN d /\ d[r] = Array /\ IsPrefix(r, at)
  /\ IsPrefix(Append(r, x), p) /\ ~IsIndex(x)
(* Some part of the path is passed over by an array.                      *)
Passed(d, at, p) == \E r \in Seq(Words), x \in Words : Over(d, at, p, r, x)

(* What a call of set does: at q, the node its path names unless an array  *)
(* on the way is passed over, the value takes the place of what was there. *)
Written(d, e, p, q, v) ==
  /\ q \in DOMAIN e /\ e[q] = v
  /\ \A n \in DOMAIN d : ~IsPrefix(q, n) =>
       n \in DOMAIN e /\ (d[n] # Null \/ n \notin Seq(Words) => e[n] = d[n])
  /\ \A n \in DOMAIN e \ DOMAIN d : n \in Seq(Words)
  /\ \A n \in DOMAIN e : IsPrefix(q, n) => n = q
  /\ q = p \/ \E r \in Seq(Words), x \in Words : Over(e, q, p, r, x) /\ r # q

(* Setting a path gives a document: unchanged for the empty path, otherwise *)
(* written at one node.                                                   *)
LEMMA SetIs ==
  ASSUME NEW X, {Null, Object, Array} \subseteq X, NEW d \in Docs(X), NEW path \in Seq(Spelled),
         NEW v \in X, v \notin Containers
  PROVE  LET b == Set(d, path, v)
         IN  /\ b \in Accs(X)
             /\ b.ok => \/ Split(path) = <<>> /\ b.doc = d
                        \/ Split(path) # <<>> /\ \E q \in Seq(Words) : Written(d, b.doc, Split(path), q, v)
  <1>1. PICK w \in Seq(Words) : w = Split(path)
    BY SplitIs
  <1>2. CASE w = <<>>
    <2>1. Set(d, path, v) = Start(d)
      BY <1>1, <1>2 DEF Set, Start
    <2>2. Start(d) \in Accs(X) /\ Start(d).doc = d
      BY StartIs DEF Start
    <2> QED BY <1>1, <1>2, <2>1, <2>2
  <1>3. CASE w # <<>>
    <2>1. PICK it : SetBy(it, X, d, path, v, w)
      BY <1>1, <1>3, SetFolds
    <2>2. PICK n \in Nat : Len(w) = n + 1
      <3>1. Len(w) \in Nat /\ Len(w) # 0
        BY <1>3, LenProperties, EmptySeq
      <3>2. Len(w) - 1 \in Nat /\ Len(w) = (Len(w) - 1) + 1
        BY <3>1
      <3> QED BY <3>2
    <2>3. /\ it[0] = Start(d)
          /\ \A m \in 1..n : it[m] = Down(it[m - 1], w[m], w[m + 1])
          /\ \A m \in 0..n : it[m] \in Accs(X)
          /\ Set(d, path, v) = IF it[n].ok THEN Assign(it[n], Last(w), v) ELSE it[n]
      <3>1. Len(w) - 1 = n
        BY <2>2
      <3> QED BY <2>1, <3>1 DEF SetBy
    <2> DEFINE Way(m) == SubSeq(w, 1, m)
               Good(m, a) == a.ok => /\ Grows(d, a.doc)
                                     /\ a.at = Way(m) \/ Passed(a.doc, a.at, w)
               T == {m \in Nat : m <= n => Good(m, it[m])}
    <2>4. 0 \in T
      <3>1. Grows(d, d)
        BY DEF Grows
      <3>2. Way(0) = <<>>
        BY SubSeqEmpty
      <3>3. Start(d).doc = d /\ Start(d).at = Way(0)
        BY <3>2 DEF Start
      <3>4. Good(0, Start(d))
        BY <3>1, <3>3
      <3> HIDE DEF Good
      <3>5. Good(0, it[0])
        BY <2>3, <3>4
      <3> QED BY <3>5
    <2>5. ASSUME NEW m \in Nat, m \in T PROVE m + 1 \in T
      <3>0. SUFFICES ASSUME m + 1 <= n PROVE Good(m + 1, it[m + 1])
        <4> HIDE DEF Good
        <4> QED OBVIOUS
      <3>1. m + 1 \in 1..n /\ m \in 0..n /\ (m + 1) - 1 = m /\ m <= n
        BY <3>0
      <3>2. PICK a \in Accs(X) : a = it[m]
        BY <2>3, <3>1
      <3>3. Good(m, a)
        <4> HIDE DEF Good
        <4> QED BY <2>5, <3>1, <3>2
      <3>4. PICK x : x = w[m + 1]
        OBVIOUS
      <3>5. x \in Words /\ Way(m) \in Seq(Words) /\ Way(m + 1) = Append(Way(m), x) /\ IsPrefix(Way(m + 1), w)
        <4>1. m + 1 \in 1..Len(w)
          BY <2>2, <3>1
        <4>2. x \in Words /\ Way(m) \in Seq(Words) /\ Way(m + 1) = Append(Way(m), x)
          BY <3>4, <4>1, WayGrows
        <4>3. IsPrefix(Way(m + 1), w)
          <5>1. /\ Way(m + 1) \in Seq(Words) /\ Len(Way(m + 1)) = m + 1
                /\ \A i \in 1..(m + 1) : Way(m + 1)[i] = w[i]
            <6>1. Len(w) \in Nat /\ \A i \in 1..(m + 1) : w[i] \in Words
              BY <4>1, LenProperties, ElementOfSeq
            <6> QED BY <4>1, <6>1, SubSeqProperties
          <5>2. m + 1 <= Len(w)
            BY <4>1
          <5> HIDE DEF Way
          <5> QED BY <5>1, <5>2, PrefixByElements
        <4> QED BY <4>2, <4>3
      <3>6. PICK b : b = it[m + 1]
        OBVIOUS
      <3>7. b = IF a.ok THEN Descend(a, x, w[(m + 1) + 1]) ELSE a
        BY <2>3, <3>1, <3>2, <3>4, <3>6 DEF Down
      <3> HIDE DEF Way
      <3> SUFFICES ASSUME b.ok
                   PROVE  /\ Grows(d, b.doc)
                          /\ b.at = Way(m + 1) \/ Passed(b.doc, b.at, w)
        BY <3>6
      <3>8. a.ok /\ b = Descend(a, x, w[(m + 1) + 1])
        BY <3>7
      <3>9. /\ b \in Accs(X) /\ Grows(a.doc, b.doc)
            /\ \/ b.at = Append(a.at, x)
               \/ b = a /\ a.doc[a.at] = Array /\ ~IsIndex(x)
        BY <3>5, <3>8, DescendIs
      <3>10. Grows(d, a.doc) /\ (a.at = Way(m) \/ Passed(a.doc, a.at, w))
        BY <3>3, <3>8
      <3>11. Grows(d, b.doc)
        BY <3>9, <3>10, GrowsOn
      <3>12. a.at \in Seq(Words) /\ a.at \in DOMAIN a.doc /\ IsPrefix(a.at, a.at) /\ IsPrefix(a.at, Append(a.at, x))
        <4>1. a.at \in Seq(Words) /\ a.at \in DOMAIN a.doc
          BY DEF Accs
        <4> QED BY <3>5, <4>1, PrefixSelf, PrefixOfAppend
      <3>13. CASE b.at = Append(a.at, x) /\ a.at = Way(m)
        BY <3>5, <3>11, <3>13
      <3>14. CASE b = a /\ a.doc[a.at] = Array /\ ~IsIndex(x) /\ a.at = Way(m)
        <4>1. Over(b.doc, b.at, w, a.at, x)
          BY <3>5, <3>12, <3>14 DEF Over
        <4> QED BY <3>5, <3>11, <3>12, <4>1 DEF Passed
      <3>15. CASE Passed(a.doc, a.at, w)
        <4>1. PICK r \in Seq(Words), y \in Words : Over(a.doc, a.at, w, r, y)
          BY <3>15 DEF Passed
        <4>2. IsPrefix(r, b.at)
          <5>1. Append(a.at, x) \in Seq(Words)
            BY <3>5, <3>12, AppendProperties
          <5> QED BY <3>9, <3>12, <4>1, <5>1, PrefixTransitive DEF Over
        <4>3. r \in DOMAIN b.doc /\ b.doc[r] = Array
          BY <3>9, <4>1 DEF Over, Grows, Array, Null
        <4>4. Over(b.doc, b.at, w, r, y)
          BY <4>1, <4>2, <4>3 DEF Over
        <4> QED BY <3>11, <4>4 DEF Passed
      <3> QED BY <3>9, <3>10, <3>13, <3>14, <3>15
    <2> HIDE DEF T
    <2>6. n \in T
      BY <2>4, <2>5, SetInduction
    <2>7. PICK a \in Accs(X) : a = it[n]
      <3>1. n \in 0..n
        OBVIOUS
      <3> QED BY <2>3, <3>1
    <2>8. Good(n, a)
      <3> HIDE DEF Good
      <3> QED BY <2>6, <2>7 DEF T
    <2>9. PICK b : b = Set(d, path, v)
      OBVIOUS
    <2>10. b = IF a.ok THEN Assign(a, Last(w), v) ELSE a
      BY <2>3, <2>7, <2>9
    <2>11. CASE ~a.ok
      BY <2>9, <2>10, <2>11
    <2>12. CASE a.ok
      <3> DEFINE x == Last(w)
                 q == Append(a.at, x)
      <3>1. x \in Words /\ Front(w) \in Seq(Words) /\ Len(Front(w)) = n /\ w = Append(Front(w), x)
            /\ Way(n) = Front(w)
        <4>1. x \in Words /\ Front(w) \in Seq(Words) /\ Len(Front(w)) = n /\ w = Append(Front(w), x)
              /\ \A i \in 1..n : Front(w)[i] = w[i]
          BY <1>3, <2>2, FrontIs, FrontAndLast
        <4>2. Len(w) \in Nat /\ n <= Len(w) /\ \A i \in 1..n : w[i] \in Words
          BY <2>2, ElementOfSeq
        <4>3. Way(n) \in Seq(Words) /\ Len(Way(n)) = n /\ \A i \in 1..n : Way(n)[i] = w[i]
          BY <4>2, SubSeqProperties
        <4>4. \A i \in 1..n : Way(n)[i] = Front(w)[i]
          BY <4>1, <4>3
        <4> HIDE DEF Way, x
        <4>5. Way(n) = Front(w)
          BY <4>1, <4>3, <4>4, SeqEqual
        <4> QED BY <4>1, <4>5
      <3>2. Grows(d, a.doc) /\ (a.at = Way(n) \/ Passed(a.doc, a.at, w))
        BY <2>8, <2>12
      <3>3. a.at \in Seq(Words) /\ a.doc \in Docs(X)
        BY DEF Accs
      <3>4. q \in Seq(Words) /\ IsPrefix(a.at, q) /\ Len(q) = Len(a.at) + 1 /\ Len(a.at) \in Nat
        <4> HIDE DEF x
        <4>1. IsPrefix(a.at, a.at)
          BY <3>3, PrefixSelf
        <4> QED BY <3>1, <3>3, <4>1, AppendProperties, PrefixOfAppend, LenProperties
      <3>5. b = Assign(a, x, v)
        BY <2>10, <2>12
      <3> HIDE DEF x, Good, Way
      <3>6. /\ b \in Accs(X)
            /\ b.ok => /\ q \in DOMAIN b.doc /\ b.doc[q] = v
                       /\ \A n1 \in DOMAIN a.doc : ~IsPrefix(q, n1) =>
                            n1 \in DOMAIN b.doc /\ (a.doc[n1] # Null \/ n1 \notin Seq(Words) => b.doc[n1] = a.doc[n1])
                       /\ \A n1 \in DOMAIN b.doc \ DOMAIN a.doc : n1 \in Seq(Words)
                       /\ \A n1 \in DOMAIN b.doc : IsPrefix(q, n1) => n1 = q
        BY <3>1, <3>5, AssignIs
      <3> HIDE DEF q
      <3>7. ASSUME b.ok PROVE Written(d, b.doc, w, q, v)
        <4>1. \A o \in DOMAIN d : o \in DOMAIN a.doc /\ (d[o] # Null \/ o \notin Seq(Words) => a.doc[o] = d[o])
          BY <3>2 DEF Grows
        <4>2. \A o \in DOMAIN a.doc \ DOMAIN d : o \in Seq(Words)
          BY <3>2 DEF Grows
        <4>3. \A o \in DOMAIN d : ~IsPrefix(q, o) =>
                o \in DOMAIN b.doc /\ (d[o] # Null \/ o \notin Seq(Words) => b.doc[o] = d[o])
          BY <3>6, <3>7, <4>1
        <4>4. \A o \in DOMAIN b.doc \ DOMAIN d : o \in Seq(Words)
          BY <3>6, <3>7, <4>2
        <4>5. CASE a.at = Way(n)
          <5>1. q = w
            BY <3>1, <4>5 DEF q
          <5> QED BY <3>6, <3>7, <4>3, <4>4, <5>1 DEF Written
        <4>6. CASE Passed(a.doc, a.at, w)
          <5>1. PICK r \in Seq(Words), y \in Words : Over(a.doc, a.at, w, r, y)
            BY <4>6 DEF Passed
          <5>2. r # q /\ ~IsPrefix(q, r) /\ IsPrefix(r, q)
            <6>1. Len(r) <= Len(a.at) /\ Len(r) \in Nat
              BY <3>3, <5>1, PrefixLength DEF Over
            <6>2. r # q
              BY <3>4, <6>1
            <6>3. ~IsPrefix(q, r)
              <7>1. IsPrefix(q, r) => Len(q) <= Len(r)
                BY <3>4, PrefixLength
              <7> QED BY <3>4, <6>1, <7>1
            <6>4. IsPrefix(r, q)
              BY <3>3, <3>4, <5>1, PrefixTransitive DEF Over
            <6> QED BY <6>2, <6>3, <6>4
          <5>3. r \in DOMAIN b.doc /\ b.doc[r] = Array
            BY <3>6, <3>7, <5>1, <5>2 DEF Over, Array, Null
          <5>4. Over(b.doc, q, w, r, y) /\ r # q
            BY <5>1, <5>2, <5>3 DEF Over
          <5> QED BY <3>6, <3>7, <4>3, <4>4, <5>4 DEF Written
        <4> QED BY <3>2, <4>5, <4>6
      <3> QED BY <1>1, <1>3, <2>9, <3>4, <3>6, <3>7
    <2> QED BY <2>11, <2>12
  <1> QED BY <1>2, <1>3

-------------------------------------------------------------------------------
(* Orders.                                                                 *)

(* Strict total orders, as sets of pairs.                                  *)
IsOrder(R, T) ==
  /\ \A x \in T : <<x, x>> \notin R
  /\ \A x, y \in T : x # y => <<x, y>> \in R \/ <<y, x>> \in R
  /\ \A x, y, z \in T : <<x, y>> \in R /\ <<y, z>> \in R => <<x, z>> \in R

(* The places of an order are all taken.                                  *)
Ranked(R, T) ==
  /\ Cardinality(T) \in Nat
  /\ \A i \in 1..Cardinality(T) : \E x \in T : Cardinality({y \in T : <<y, x>> \in R}) = i - 1

(* Nobody shares a place.                                                  *)
Apart(R, T) ==
  \A x \in T :
    /\ Cardinality({y \in T : <<y, x>> \in R}) + 1 \in 1..Cardinality(T)
    /\ \A z \in T : Cardinality({y \in T : <<y, z>> \in R}) = Cardinality({y \in T : <<y, x>> \in R}) => z = x

(* In a finite set each number of predecessors occurs, and once.           *)
LEMMA Enumerated ==
  ASSUME NEW T, IsFiniteSet(T), NEW R, IsOrder(R, T)
  PROVE  Ranked(R, T) /\ Apart(R, T)
  <1> DEFINE Before(x) == {y \in T : <<y, x>> \in R}
             f == [x \in T |-> Cardinality(Before(x)) + 1]
  <1>1. PICK N \in Nat : N = Cardinality(T)
    BY FS_CardinalityType
  <1>2. \A x \in T : IsFiniteSet(Before(x)) /\ Cardinality(Before(x)) \in Nat
    <2> TAKE x \in T
    <2>1. Before(x) \in SUBSET T
      OBVIOUS
    <2> HIDE DEF Before
    <2> QED BY <2>1, FS_Subset, FS_CardinalityType
  <1>3. \A x \in T : Cardinality(Before(x)) < N
    <2> TAKE x \in T
    <2>1. Before(x) \in SUBSET T /\ x \notin Before(x)
      BY DEF IsOrder
    <2> HIDE DEF Before
    <2>2. Cardinality(Before(x)) <= N /\ Cardinality(Before(x)) # N
      <3>1. Cardinality(Before(x)) <= Cardinality(T) /\ (Cardinality(T) = Cardinality(Before(x)) => T = Before(x))
        BY <2>1, FS_Subset
      <3> QED BY <1>1, <2>1, <3>1
    <2> QED BY <1>1, <1>2, <2>2
  <1>4. ASSUME NEW x \in T, NEW y \in T, <<x, y>> \in R
        PROVE  Cardinality(Before(x)) < Cardinality(Before(y))
    <2>1. Before(x) \in SUBSET Before(y) /\ x \in Before(y) /\ x \notin Before(x)
      BY <1>4 DEF IsOrder
    <2> HIDE DEF Before
    <2>2. /\ Cardinality(Before(x)) <= Cardinality(Before(y))
          /\ Cardinality(Before(y)) = Cardinality(Before(x)) => Before(y) = Before(x)
      BY <1>2, <2>1, FS_Subset
    <2>3. Cardinality(Before(y)) # Cardinality(Before(x))
      BY <2>1, <2>2
    <2> QED BY <1>2, <2>2, <2>3
  <1>5. f \in Injection(T, 1..N)
    <2>1. f \in [T -> 1..N]
      <3>1. \A x \in T : Cardinality(Before(x)) + 1 \in 1..N
        <4> HIDE DEF Before
        <4> QED BY <1>1, <1>2, <1>3
      <3> HIDE DEF Before
      <3> QED BY <3>1
    <2>2. ASSUME NEW x \in T, NEW y \in T, f[x] = f[y] PROVE x = y
      <3> HIDE DEF Before
      <3>1. Cardinality(Before(x)) = Cardinality(Before(y))
        BY <1>2, <2>2
      <3>2. <<x, y>> \notin R /\ <<y, x>> \notin R
        BY <1>2, <1>4, <3>1
      <3> QED BY <3>2 DEF IsOrder
    <2> HIDE DEF f
    <2> QED BY <2>1, <2>2 DEF Injection, IsInjective
  <1>6. f \in Surjection(T, 1..N)
    <2>1. IsFiniteSet(1..N) /\ Cardinality(1..N) = N
      BY FS_Interval
    <2> HIDE DEF f
    <2> QED BY <1>1, <1>5, <2>1, FS_Injection
  <1>7. ASSUME NEW i \in 1..N PROVE \E x \in T : Cardinality(Before(x)) = i - 1
    <2>1. PICK x \in T : f[x] = i
      <3> HIDE DEF f
      <3> QED BY <1>6 DEF Surjection
    <2>2. Cardinality(Before(x)) + 1 = i
      BY <2>1
    <2> HIDE DEF Before
    <2> QED BY <1>2, <2>2
  <1>8. ASSUME NEW x \in T PROVE Cardinality(Before(x)) + 1 \in 1..N
    <2> HIDE DEF Before
    <2> QED BY <1>1, <1>2, <1>3
  <1>9. ASSUME NEW x \in T, NEW z \in T, Cardinality(Before(z)) = Cardinality(Before(x)) PROVE z = x
    <2>1. f[z] = f[x]
      <3> HIDE DEF Before
      <3> QED BY <1>9
    <2> HIDE DEF f
    <2> QED BY <1>5, <2>1 DEF Injection, IsInjective
  <1>10. Ranked(R, T)
    BY <1>1, <1>7 DEF Ranked
  <1>11. Apart(R, T)
    BY <1>1, <1>8, <1>9 DEF Apart
  <1> QED BY <1>10, <1>11

(* The first place where two sequences differ.                             *)
DifferAt(s, t, i) ==
  /\ i \in 1..Len(s) /\ i \in 1..Len(t) /\ s[i] # t[i]
  /\ \A j \in 1..(i - 1) : s[j] = t[j]

(* Of two sequences one begins the other, or there is a first place where *)
(* they differ.                                                           *)
LEMMA DifferIs ==
  ASSUME NEW S, NEW s \in Seq(S), NEW t \in Seq(S)
  PROVE  LET D == {i \in 1..Min({Len(s), Len(t)}) : s[i] # t[i]}
         IN  /\ D = {} <=> IsPrefix(s, t) \/ IsPrefix(t, s)
             /\ D # {} => DifferAt(s, t, Min(D))
             /\ \A i : DifferAt(s, t, i) => D # {} /\ Min(D) = i
             /\ \A i : DifferAt(s, t, i) => DifferAt(t, s, i) /\ i \in Nat
                                            /\ SubSeq(s, 1, i - 1) = SubSeq(t, 1, i - 1)
  <1>1. PICK k \in Nat : k = Len(s)
    BY LenProperties
  <1>2. PICK l \in Nat : l = Len(t)
    BY LenProperties
  <1>3. PICK m : m = Min({k, l})
    OBVIOUS
  <1>4. m \in Nat /\ m <= k /\ m <= l /\ (m = k \/ m = l)
    <2>1. {k, l} \in SUBSET Nat /\ {k, l} # {}
      OBVIOUS
    <2> QED BY <1>3, <2>1, MinHolds
  <1> DEFINE D == {i \in 1..m : s[i] # t[i]}
  <1>5. D \in SUBSET Nat /\ {i \in 1..Min({Len(s), Len(t)}) : s[i] # t[i]} = D
    BY <1>1, <1>2, <1>3, <1>4
  <1>6. D = {} <=> IsPrefix(s, t) \/ IsPrefix(t, s)
    <2>1. IsPrefix(s, t) <=> k <= l /\ \A i \in 1..k : s[i] = t[i]
      BY <1>1, <1>2, PrefixByElements
    <2>2. IsPrefix(t, s) <=> l <= k /\ \A i \in 1..l : t[i] = s[i]
      BY <1>1, <1>2, PrefixByElements
    <2>3. D = {} <=> \A i \in 1..m : s[i] = t[i]
      OBVIOUS
    <2>4. (m = k /\ k <= l) \/ (m = l /\ l <= k)
      BY ONLY <1>4
    <2> HIDE DEF D
    <2>5. CASE m = k /\ k <= l
      <3>1. IsPrefix(s, t) <=> D = {}
        BY <1>4, <2>1, <2>3, <2>5
      <3>2. IsPrefix(t, s) => k = l
        BY <1>4, <2>2, <2>5
      <3>3. IsPrefix(t, s) => D = {}
        BY ONLY <2>2, <2>3, <2>5, <3>2
      <3> QED BY ONLY <3>1, <3>3
    <2>6. CASE m = l /\ l <= k
      <3>1. IsPrefix(t, s) <=> D = {}
        BY <1>4, <2>2, <2>3, <2>6
      <3>2. IsPrefix(s, t) => k = l
        BY <1>4, <2>1, <2>6
      <3>3. IsPrefix(s, t) => D = {}
        BY ONLY <2>1, <2>3, <2>6, <3>2
      <3> QED BY ONLY <3>1, <3>3
    <2> QED BY ONLY <2>4, <2>5, <2>6
  <1>7. ASSUME D # {} PROVE DifferAt(s, t, Min(D))
    <2>1. PICK i \in D : i = Min(D) /\ \A j \in D : i <= j
      BY <1>5, <1>7, MinHolds
    <2>2. i \in 1..m /\ s[i] # t[i] /\ i \in 1..k /\ i \in 1..l
      BY <1>4
    <2>3. \A j \in 1..(i - 1) : s[j] = t[j]
      <3> TAKE j \in 1..(i - 1)
      <3>1. j \in 1..m /\ ~(i <= j)
        BY <1>4, <2>2
      <3> QED BY <2>1, <3>1
    <2> QED BY <1>1, <1>2, <2>1, <2>2, <2>3 DEF DifferAt
  <1>8. ASSUME NEW i, DifferAt(s, t, i)
        PROVE  /\ D # {} /\ Min(D) = i /\ DifferAt(t, s, i) /\ i \in Nat
               /\ SubSeq(s, 1, i - 1) = SubSeq(t, 1, i - 1)
    <2>1. i \in 1..k /\ i \in 1..l /\ s[i] # t[i] /\ \A j \in 1..(i - 1) : s[j] = t[j]
      BY <1>1, <1>2, <1>8 DEF DifferAt
    <2>2. i \in D
      BY <1>4, <2>1
    <2>3. PICK h \in D : h = Min(D) /\ \A j \in D : h <= j
      BY <1>5, <2>2, MinHolds
    <2>4. h = i
      <3>1. h \in 1..m /\ s[h] # t[h] /\ h <= i
        BY <2>2, <2>3
      <3>2. h \notin 1..(i - 1)
        BY <2>1, <3>1
      <3> QED BY <1>4, <2>1, <3>1, <3>2
    <2>5. DifferAt(t, s, i)
      BY <1>8 DEF DifferAt
    <2>6. SubSeq(s, 1, i - 1) = SubSeq(t, 1, i - 1)
      <3>1. PICK p \in Nat : p = i - 1
        BY <2>1
      <3>2. p <= k /\ p <= l
        BY <2>1, <3>1
      <3>3. /\ SubSeq(s, 1, p) \in Seq(S) /\ Len(SubSeq(s, 1, p)) = p
            /\ \A j \in 1..p : SubSeq(s, 1, p)[j] = s[j]
        <4>1. \A j \in 1..p : s[j] \in S
          BY <1>1, <3>2, ElementOfSeq
        <4> QED BY <1>1, <3>2, <4>1, SubSeqProperties
      <3>4. /\ SubSeq(t, 1, p) \in Seq(S) /\ Len(SubSeq(t, 1, p)) = p
            /\ \A j \in 1..p : SubSeq(t, 1, p)[j] = t[j]
        <4>1. \A j \in 1..p : t[j] \in S
          BY <1>2, <3>2, ElementOfSeq
        <4> QED BY <1>2, <3>2, <4>1, SubSeqProperties
      <3>5. \A j \in 1..p : SubSeq(s, 1, p)[j] = SubSeq(t, 1, p)[j]
        BY <2>1, <3>1, <3>3, <3>4
      <3>6. SubSeq(s, 1, p) = SubSeq(t, 1, p)
        BY <3>3, <3>4, <3>5, SeqEqual
      <3> QED BY <3>1, <3>6
    <2> QED BY <2>1, <2>2, <2>3, <2>4, <2>5, <2>6
  <1> QED BY <1>5, <1>6, <1>7, <1>8

-------------------------------------------------------------------------------
(* The order of visits, and the flattened form.                            *)

(* The last element of a finite set that is not empty.                     *)
LEMMA LastOf ==
  ASSUME NEW T, IsFiniteSet(T), T # {}, NEW R, IsOrder(R, T)
  PROVE  \E x \in T : \A y \in T \ {x} : <<y, x>> \in R
  <1>1. PICK N \in Nat : N = Cardinality(T) /\ N # 0
    BY FS_CardinalityType, FS_EmptySet
  <1>2. PICK x \in T : Cardinality({y \in T : <<y, x>> \in R}) = N - 1
    <2>1. N \in 1..N
      BY <1>1
    <2> QED BY <1>1, <2>1, Enumerated DEF Ranked
  <1> DEFINE B == {y \in T : <<y, x>> \in R}
             C == T \ {x}
  <1>3. B \in SUBSET C
    BY DEF IsOrder
  <1>4. IsFiniteSet(C) /\ Cardinality(C) = N - 1
    BY <1>1, FS_RemoveElement
  <1>5. Cardinality(B) = N - 1
    BY <1>2
  <1>6. B = C
    <2> HIDE DEF B, C
    <2> QED BY <1>3, <1>4, <1>5, FS_Subset
  <1> QED BY <1>6

(* The first difference is one, seen from both.                           *)
LEMMA DifferHas ==
  ASSUME NEW S, NEW s \in Seq(S), NEW t \in Seq(S), NEW i, DifferAt(s, t, i)
  PROVE  /\ DifferAt(t, s, i) /\ i \in Nat /\ SubSeq(s, 1, i - 1) = SubSeq(t, 1, i - 1)
         /\ Min({h \in 1..Min({Len(s), Len(t)}) : s[h] # t[h]}) = i
         /\ {h \in 1..Min({Len(s), Len(t)}) : s[h] # t[h]} # {}
         /\ \A j : DifferAt(s, t, j) => i = j
  <1> DEFINE D == {h \in 1..Min({Len(s), Len(t)}) : s[h] # t[h]}
  <1>1. /\ \A j : DifferAt(s, t, j) => D # {} /\ Min(D) = j
        /\ \A j : DifferAt(s, t, j) => DifferAt(t, s, j) /\ j \in Nat
                                            /\ SubSeq(s, 1, j - 1) = SubSeq(t, 1, j - 1)
    BY DifferIs
  <1> HIDE DEF D
  <1>2. D # {} /\ Min(D) = i /\ DifferAt(t, s, i) /\ i \in Nat /\ SubSeq(s, 1, i - 1) = SubSeq(t, 1, i - 1)
    BY <1>1
  <1>3. \A j : DifferAt(s, t, j) => i = j
    BY <1>1
  <1> QED BY <1>2, <1>3 DEF D

(* Different sequences: one begins the other, or they differ somewhere    *)
(* first.                                                                 *)
LEMMA DifferOr ==
  ASSUME NEW S, NEW s \in Seq(S), NEW t \in Seq(S), s # t
  PROVE  \/ Len(s) < Len(t) /\ IsPrefix(s, t) /\ {h \in 1..Min({Len(s), Len(t)}) : s[h] # t[h]} = {}
         \/ Len(t) < Len(s) /\ IsPrefix(t, s) /\ {h \in 1..Min({Len(s), Len(t)}) : s[h] # t[h]} = {}
         \/ \E i \in Nat : DifferAt(s, t, i)
  <1> DEFINE D == {h \in 1..Min({Len(s), Len(t)}) : s[h] # t[h]}
  <1>1. /\ D = {} <=> IsPrefix(s, t) \/ IsPrefix(t, s)
        /\ D # {} => DifferAt(s, t, Min(D))
    BY DifferIs, ZenonT(60)
  <1> HIDE DEF D
  <1>2. CASE D # {}
    <2>1. DifferAt(s, t, Min(D))
      BY <1>1, <1>2
    <2>2. Min(D) \in Nat
      BY <2>1, DifferHas
    <2> QED BY <2>1, <2>2
  <1>3. CASE D = {}
    <2>1. Len(s) \in Nat /\ Len(t) \in Nat
      BY LenProperties
    <2>2. IsPrefix(s, t) => Len(s) <= Len(t) /\ Len(s) # Len(t)
      BY <2>1, PrefixLength
    <2>3. IsPrefix(t, s) => Len(t) <= Len(s) /\ Len(s) # Len(t)
      BY <2>1, PrefixLength
    <2>4. \/ Len(s) < Len(t) /\ IsPrefix(s, t) /\ D = {}
          \/ Len(t) < Len(s) /\ IsPrefix(t, s) /\ D = {}
      BY <1>1, <1>3, <2>1, <2>2, <2>3
    <2> QED BY <2>4 DEF D
  <1> QED BY <1>2, <1>3

(* Three sequences: the earlier of two first differences decides.         *)
LEMMA DifferLater ==
  ASSUME NEW s \in Seq(Strings), NEW t \in Seq(Strings), NEW u \in Seq(Strings),
         NEW i \in Nat, NEW j \in Nat, DifferAt(s, t, i), DifferAt(t, u, j), j < i
  PROVE  DifferAt(s, u, j) /\ s[j] = t[j]
  <1>1. Len(s) \in Nat /\ Len(t) \in Nat /\ Len(u) \in Nat
    BY LenProperties
  <1>2. i \in 1..Len(s) /\ j \in 1..Len(u) /\ j \in 1..(i - 1) /\ s[j] = t[j] /\ t[j] # u[j]
    BY <1>1 DEF DifferAt
  <1>3. j \in 1..Len(s) /\ \A h \in 1..(j - 1) : h \in 1..(i - 1) /\ s[h] = t[h] /\ t[h] = u[h]
    BY <1>1, <1>2 DEF DifferAt
  <1> QED BY <1>2, <1>3 DEF DifferAt

(* The same the other way around.                                         *)
LEMMA DifferSooner ==
  ASSUME NEW s \in Seq(Strings), NEW t \in Seq(Strings), NEW u \in Seq(Strings),
         NEW i \in Nat, NEW j \in Nat, DifferAt(s, t, i), DifferAt(t, u, j), i < j
  PROVE  DifferAt(s, u, i) /\ u[i] = t[i]
  <1>1. Len(s) \in Nat /\ Len(t) \in Nat /\ Len(u) \in Nat
    BY LenProperties
  <1>2. i \in 1..Len(s) /\ j \in 1..Len(u) /\ i \in 1..(j - 1) /\ u[i] = t[i] /\ s[i] # t[i]
    BY <1>1 DEF DifferAt
  <1>3. i \in 1..Len(u) /\ \A h \in 1..(i - 1) : h \in 1..(j - 1) /\ s[h] = t[h] /\ t[h] = u[h]
    BY <1>1, <1>2 DEF DifferAt
  <1> QED BY <1>2, <1>3 DEF DifferAt

(* Both at the same place.                                                *)
LEMMA DifferSame ==
  ASSUME NEW s \in Seq(Strings), NEW t \in Seq(Strings), NEW u \in Seq(Strings),
         NEW i \in Nat, DifferAt(s, t, i), DifferAt(t, u, i), s[i] # u[i]
  PROVE  DifferAt(s, u, i)
  <1>1. Len(s) \in Nat /\ Len(t) \in Nat /\ Len(u) \in Nat
    BY LenProperties
  <1>2. i \in 1..Len(s) /\ i \in 1..Len(u) /\ \A h \in 1..(i - 1) : s[h] = t[h] /\ t[h] = u[h]
    BY DEF DifferAt
  <1> QED BY <1>2 DEF DifferAt

(* The place of a name.                                                   *)
LEMMA RankIs ==
  ASSUME NEW x \in Strings
  PROVE  Rank(x) \in Nat /\ Rank(x) \in 1..Len(Names) /\ Names[Rank(x)] = x
  <1>1. Names \in Seq(Strings)
    BY NamesAssumption DEF Strings
  <1>2. Len(Names) \in Nat /\ DOMAIN Names = 1..Len(Names)
    BY <1>1, LenProperties
  <1>3. \E i \in 1..Len(Names) : Names[i] = x
    BY <1>2 DEF Strings, Range
  <1>4. Rank(x) \in 1..Len(Names) /\ Names[Rank(x)] = x
    BY <1>3 DEF Rank
  <1> QED BY <1>2, <1>4

(* The order of visits.                                                    *)
Place(doc, o, x) == IF doc[o] = Array THEN IndexOf(x) ELSE Rank(x)
(* The nodes that are flattened.                                          *)
Leaves(doc) == {n \in DOMAIN doc \ {<<>>} : doc[n] \notin Containers}

(* Where two leaves part, and which comes first there.                    *)
Part(doc, m, n, i) ==
  /\ DifferAt(m, n, i) /\ i \in Nat /\ SubSeq(m, 1, i - 1) = SubSeq(n, 1, i - 1)
  /\ SubSeq(m, 1, i - 1) \in DOMAIN doc /\ m[i] \in Strings /\ n[i] \in Strings
  /\ Place(doc, SubSeq(m, 1, i - 1), m[i]) \in Nat /\ Place(doc, SubSeq(m, 1, i - 1), n[i]) \in Nat
  /\ Place(doc, SubSeq(m, 1, i - 1), m[i]) # Place(doc, SubSeq(m, 1, i - 1), n[i])
  /\ VisitedBefore(doc, m, n) <=> Place(doc, SubSeq(m, 1, i - 1), m[i]) < Place(doc, SubSeq(m, 1, i - 1), n[i])

(* The nodes on the way to a node.                                        *)
LEMMA UpTo ==
  ASSUME NEW d, IsDocument(d), NEW n \in DOMAIN d, NEW i \in 1..Len(n)
  PROVE  /\ SubSeq(n, 1, i - 1) \in DOMAIN d /\ SubSeq(n, 1, i - 1) \in Seq(Strings) /\ n[i] \in Strings
         /\ d[SubSeq(n, 1, i - 1)] = Array => IsIndex(n[i])
         /\ d[SubSeq(n, 1, i - 1)] \in Containers
         /\ SubSeq(n, 1, i) = Append(SubSeq(n, 1, i - 1), n[i])
         /\ SubSeq(n, 1, i) \in DOMAIN d
         /\ Len(SubSeq(n, 1, i - 1)) = i - 1
  <1>1. n \in Seq(Strings)
    BY NodeIs
  <1>2. PICK h \in Nat : i = h + 1 /\ i - 1 = h
    <2>1. i - 1 \in Nat /\ i = (i - 1) + 1
      BY <1>1, LenProperties
    <2> QED BY <2>1
  <1> DEFINE o == SubSeq(n, 1, h)
             q == SubSeq(n, 1, h + 1)
  <1>3. o \in Seq(Strings) /\ Len(o) = h /\ n[h + 1] \in Strings /\ q = Append(o, n[h + 1])
    BY <1>1, <1>2, WayGrows
  <1> HIDE DEF o, q
  <1>4. q \in Seq(Strings) /\ Len(q) = h + 1 /\ Front(q) = o /\ Last(q) = n[h + 1] /\ q # <<>>
    BY <1>3, AppendIs
  <1>5. IsPrefix(q, n)
    <2>1. h + 1 <= Len(n) /\ Len(n) \in Nat /\ \A j \in 1..(h + 1) : n[j] \in Strings
      BY <1>1, <1>2, LenProperties, ElementOfSeq
    <2>2. \A j \in 1..(h + 1) : q[j] = n[j]
      BY <1>1, <2>1, SubSeqProperties DEF q
    <2> QED BY <1>1, <1>4, <2>1, <2>2, PrefixByElements
  <1>6. q \in DOMAIN d
    BY <1>1, <1>4, <1>5, AboveIsContainer
  <1>7. o \in DOMAIN d /\ d[o] \in Containers /\ (d[o] = Array => IsIndex(n[h + 1]))
    BY <1>4, <1>6, NodeIs
  <1> QED BY <1>2, <1>3, <1>6, <1>7 DEF o, q

(* Two leaves part somewhere.                                             *)
LEMMA VisitIs ==
  ASSUME NEW doc, IsDocument(doc), NEW m \in Leaves(doc), NEW n \in Leaves(doc), m # n
  PROVE  \E i \in Nat : Part(doc, m, n, i)
  <1>1. m \in DOMAIN doc /\ n \in DOMAIN doc /\ doc[m] \notin Containers /\ doc[n] \notin Containers
        /\ m \in Seq(Strings) /\ n \in Seq(Strings)
    BY NodeIs DEF Leaves
  <1>2. ~IsPrefix(m, n) /\ ~IsPrefix(n, m)
    BY <1>1, AboveIsContainer
  <1>31. PICK i \in Nat : DifferAt(m, n, i)
    BY <1>1, <1>2, DifferOr
  <1>3. i = Min({h \in 1..Min({Len(m), Len(n)}) : m[h] # n[h]})
    BY <1>1, <1>31, DifferHas
  <1>4. DifferAt(m, n, i) /\ i \in Nat /\ SubSeq(m, 1, i - 1) = SubSeq(n, 1, i - 1)
    BY <1>1, <1>31, DifferHas
  <1>5. VisitedBefore(doc, m, n) <=> IF doc[SubSeq(m, 1, i - 1)] = Array THEN IndexOf(m[i]) < IndexOf(n[i])
                                     ELSE Rank(m[i]) < Rank(n[i])
    BY <1>3 DEF VisitedBefore
  <1>6. PICK o : o = SubSeq(m, 1, i - 1)
    OBVIOUS
  <1>7. i \in 1..Len(m) /\ i \in 1..Len(n) /\ m[i] # n[i]
    BY <1>4 DEF DifferAt
  <1>8. /\ o \in DOMAIN doc /\ m[i] \in Strings /\ n[i] \in Strings
        /\ doc[o] = Array => IsIndex(m[i]) /\ IsIndex(n[i])
    BY <1>1, <1>4, <1>6, <1>7, UpTo
  <1>9. Place(doc, o, m[i]) \in Nat /\ Place(doc, o, n[i]) \in Nat /\ Place(doc, o, m[i]) # Place(doc, o, n[i])
    <2>1. CASE doc[o] = Array
      <3>1. IndexOf(m[i]) \in Nat /\ IndexOf(n[i]) \in Nat /\ IndexOf(m[i]) # IndexOf(n[i])
        BY <1>7, <1>8, <2>1, IndexIs
      <3> QED BY <2>1, <3>1 DEF Place
    <2>2. CASE doc[o] # Array
      <3>1. Rank(m[i]) \in Nat /\ Rank(n[i]) \in Nat /\ Rank(m[i]) # Rank(n[i])
        BY <1>7, <1>8, RankIs
      <3> QED BY <2>2, <3>1 DEF Place
    <2> QED BY <2>1, <2>2
  <1>10. VisitedBefore(doc, m, n) <=> Place(doc, o, m[i]) < Place(doc, o, n[i])
    BY <1>5, <1>6 DEF Place
  <1>11. Part(doc, m, n, i)
    BY <1>4, <1>6, <1>8, <1>9, <1>10 DEF Part
  <1> QED BY <1>4, <1>11

(* The order of visits as a relation.                                     *)
Visits(doc) == {p \in Leaves(doc) \X Leaves(doc) : p[1] # p[2] /\ VisitedBefore(doc, p[1], p[2])}

(* The order of visits is a strict total order of the leaves.             *)
LEMMA VisitsOrder ==
  ASSUME NEW doc, IsDocument(doc)
  PROVE  /\ IsOrder(Visits(doc), Leaves(doc)) /\ IsFiniteSet(Leaves(doc))
         /\ \A m, n \in Leaves(doc) : m # n => (<<m, n>> \in Visits(doc) <=> VisitedBefore(doc, m, n))
  <1> DEFINE L == Leaves(doc)
             R == Visits(doc)
  <1>1. \A m, n \in L : m # n => (<<m, n>> \in R <=> VisitedBefore(doc, m, n))
    <2> HIDE DEF L
    <2> QED BY DEF Visits, L
  <1>2. \A m \in L : <<m, m>> \notin R
    BY DEF Visits
  <1>3. ASSUME NEW m \in L, NEW n \in L, m # n PROVE <<m, n>> \in R \/ <<n, m>> \in R
    <2>1. PICK i \in Nat : Part(doc, m, n, i)
      BY <1>3, VisitIs
    <2>2. PICK j \in Nat : Part(doc, n, m, j)
      BY <1>3, VisitIs
    <2>3. m \in Seq(Strings) /\ n \in Seq(Strings)
      BY NodeIs DEF Leaves
    <2>4. i = j
      <3>1. DifferAt(m, n, i) /\ DifferAt(n, m, j)
        BY <2>1, <2>2 DEF Part
      <3>2. DifferAt(m, n, j)
        BY <2>3, <3>1, DifferHas
      <3> QED BY <2>3, <3>1, <3>2, DifferHas
    <2> DEFINE o == SubSeq(m, 1, i - 1)
    <2>41. /\ Place(doc, o, m[i]) \in Nat /\ Place(doc, o, n[i]) \in Nat
           /\ Place(doc, o, m[i]) # Place(doc, o, n[i]) /\ o = SubSeq(n, 1, i - 1)
           /\ VisitedBefore(doc, m, n) <=> Place(doc, o, m[i]) < Place(doc, o, n[i])
      BY <2>1 DEF Part
    <2>42. VisitedBefore(doc, n, m) <=> Place(doc, SubSeq(n, 1, i - 1), n[i]) < Place(doc, SubSeq(n, 1, i - 1), m[i])
      BY <2>2, <2>4 DEF Part
    <2> HIDE DEF o
    <2>5. VisitedBefore(doc, m, n) \/ VisitedBefore(doc, n, m)
      BY <2>41, <2>42
    <2> QED BY <1>1, <1>3, <2>5
  <1>4. ASSUME NEW m \in L, NEW n \in L, NEW p \in L, <<m, n>> \in R, <<n, p>> \in R
        PROVE  <<m, p>> \in R
    <2>0. m # n /\ n # p
      BY <1>4 DEF Visits
    <2>1. PICK i \in Nat : Part(doc, m, n, i)
      BY <2>0, VisitIs
    <2>2. PICK j \in Nat : Part(doc, n, p, j)
      BY <2>0, VisitIs
    <2>3. m \in Seq(Strings) /\ n \in Seq(Strings) /\ p \in Seq(Strings)
      BY NodeIs DEF Leaves
    <2> DEFINE om == SubSeq(m, 1, i - 1)
               on == SubSeq(n, 1, j - 1)
    <2>4. Place(doc, om, m[i]) < Place(doc, om, n[i]) /\ Place(doc, on, n[j]) < Place(doc, on, p[j])
      BY <1>1, <1>4, <2>0, <2>1, <2>2 DEF Part
    <2>5. /\ DifferAt(m, n, i) /\ DifferAt(n, p, j) /\ om = SubSeq(n, 1, i - 1) /\ on = SubSeq(p, 1, j - 1)
          /\ Place(doc, om, m[i]) \in Nat /\ Place(doc, om, n[i]) \in Nat
          /\ Place(doc, on, n[j]) \in Nat /\ Place(doc, on, p[j]) \in Nat
      BY <2>1, <2>2 DEF Part
    <2> HIDE DEF om, on
    <2>6. ASSUME NEW h \in Nat, DifferAt(m, p, h), NEW o, o = SubSeq(m, 1, h - 1),
                 Place(doc, o, m[h]) < Place(doc, o, p[h])
          PROVE  <<m, p>> \in R
      <3>1. m # p
        BY <2>6 DEF DifferAt
      <3>2. PICK g \in Nat : Part(doc, m, p, g)
        BY <3>1, VisitIs
      <3>3. g = h
        BY <2>3, <2>6, <3>2, DifferHas DEF Part
      <3>4. VisitedBefore(doc, m, p)
        BY <2>6, <3>2, <3>3 DEF Part
      <3> QED BY <1>1, <3>1, <3>4
    <2>7. CASE i < j
      <3>1. DifferAt(m, p, i) /\ p[i] = n[i]
        BY <2>3, <2>5, <2>7, DifferSooner
      <3> QED BY <2>4, <2>6, <3>1 DEF om
    <2>8. CASE j < i
      <3>0. DifferAt(m, n, i) /\ DifferAt(n, p, j) /\ i \in Nat /\ j \in Nat
        BY <2>5
      <3>1. DifferAt(m, p, j) /\ m[j] = n[j]
        BY <2>3, <2>8, <3>0, DifferLater
      <3>2. on = SubSeq(m, 1, j - 1)
        BY <2>3, <2>5, <3>1, DifferHas
      <3> QED BY <2>4, <2>6, <3>1, <3>2
    <2>9. CASE i = j
      <3>1. om = on
        BY <2>5, <2>9 DEF om, on
      <3>2. Place(doc, om, m[i]) < Place(doc, om, p[i]) /\ Place(doc, om, m[i]) \in Nat /\ Place(doc, om, p[i]) \in Nat
        <4>1. /\ Place(doc, om, m[i]) < Place(doc, om, n[i]) /\ Place(doc, om, n[i]) < Place(doc, om, p[i])
              /\ Place(doc, om, m[i]) \in Nat /\ Place(doc, om, n[i]) \in Nat /\ Place(doc, om, p[i]) \in Nat
          BY <2>4, <2>5, <2>9, <3>1
        <4> QED BY <4>1
      <3>3. m[i] # p[i]
        BY <2>5, <3>2, <3>1, <2>9
      <3>4. DifferAt(m, p, i)
        BY <2>3, <2>5, <2>9, <3>3, DifferSame
      <3> QED BY <2>6, <3>2, <3>4 DEF om
    <2> QED BY <2>7, <2>8, <2>9
  <1>5. IsFiniteSet(L)
    <2>1. IsFiniteSet(DOMAIN doc)
      BY DEF IsDocument
    <2>2. L \in SUBSET DOMAIN doc
      BY DEF Leaves
    <2> HIDE DEF L
    <2> QED BY <2>1, <2>2, FS_Subset
  <1>6. IsOrder(R, L)
    <2> HIDE DEF R, L
    <2> QED BY <1>2, <1>3, <1>4 DEF IsOrder
  <1> QED BY <1>1, <1>5, <1>6

(* The leaves with the same path, and the one that is visited last.       *)
Alike(doc, k) == {n \in Leaves(doc) : PathOf(doc, n) = k}
LastIn(doc, A, f) == f \in A /\ \A m \in A \ {f} : VisitedBefore(doc, m, f)

(* Of some leaves one is visited last.                                     *)
LEMMA OneIsLast ==
  ASSUME NEW doc, IsDocument(doc), NEW A \in SUBSET Leaves(doc), A # {}
  PROVE  /\ \E f \in A : LastIn(doc, A, f)
         /\ \A f, g \in A : LastIn(doc, A, f) /\ LastIn(doc, A, g) => f = g
         /\ \A f \in A : LastIn(doc, A, f) =>
              (CHOOSE n \in A : \A m \in A \ {n} : VisitedBefore(doc, m, n)) = f
  <1> DEFINE L == Leaves(doc)
             R == Visits(doc)
  <1>1. /\ IsOrder(R, L) /\ IsFiniteSet(L)
        /\ \A m, n \in L : m # n => (<<m, n>> \in R <=> VisitedBefore(doc, m, n))
    BY VisitsOrder
  <1> HIDE DEF L, R
  <1>2. A \in SUBSET L
    BY DEF L
  <1>3. IsOrder(R, A) /\ IsFiniteSet(A)
    <2>1. IsFiniteSet(A)
      BY <1>1, <1>2, FS_Subset
    <2>2. IsOrder(R, A)
      BY <1>1, <1>2 DEF IsOrder
    <2> QED BY <2>1, <2>2
  <1>4. PICK x \in A : \A y \in A \ {x} : <<y, x>> \in R
    BY <1>3, LastOf
  <1>5. LastIn(doc, A, x)
    BY <1>1, <1>2, <1>4 DEF LastIn
  <1>6. ASSUME NEW f \in A, NEW g \in A, LastIn(doc, A, f), LastIn(doc, A, g)
        PROVE  f = g
    <2> SUFFICES ASSUME f # g PROVE FALSE
      OBVIOUS
    <2>1. VisitedBefore(doc, f, g) /\ VisitedBefore(doc, g, f)
      BY <1>6 DEF LastIn
    <2>2. <<f, g>> \in R /\ <<g, f>> \in R
      BY <1>1, <1>2, <2>1
    <2>3. <<f, f>> \in R
      BY <1>3, <2>2 DEF IsOrder
    <2> QED BY <1>3, <2>3 DEF IsOrder
  <1>7. ASSUME NEW f \in A, LastIn(doc, A, f)
        PROVE  (CHOOSE n \in A : \A m \in A \ {n} : VisitedBefore(doc, m, n)) = f
    <2> DEFINE c == CHOOSE n \in A : \A m \in A \ {n} : VisitedBefore(doc, m, n)
    <2>1. c \in A /\ \A m \in A \ {c} : VisitedBefore(doc, m, c)
      BY <1>7 DEF LastIn
    <2> HIDE DEF c
    <2>2. LastIn(doc, A, c)
      BY <2>1 DEF LastIn
    <2>3. c = f
      BY <1>6, <1>7, <2>1, <2>2
    <2> QED BY <2>3 DEF c
  <1> QED BY <1>5, <1>6, <1>7

(* The flattened form: the values of the leaves that are visited last.    *)
LEMMA FlattenIs ==
  ASSUME NEW doc, IsDocument(doc)
  PROVE  /\ DOMAIN Flatten(doc) = {PathOf(doc, n) : n \in Leaves(doc)}
         /\ IsFiniteSet(DOMAIN Flatten(doc))
         /\ \A k \in DOMAIN Flatten(doc) : k \in Seq(Spelled)
         /\ \A k \in DOMAIN Flatten(doc) :
              \E f \in Leaves(doc) : LastIn(doc, Alike(doc, k), f) /\ Flatten(doc)[k] = doc[f]
         /\ \A k : \A f \in Leaves(doc) : LastIn(doc, Alike(doc, k), f) =>
              k \in DOMAIN Flatten(doc) /\ Flatten(doc)[k] = doc[f]
  <1> DEFINE Ks == {PathOf(doc, n) : n \in Leaves(doc)}
             Final(A) == CHOOSE n \in A : \A m \in A \ {n} : VisitedBefore(doc, m, n)
  <1>1. Flatten(doc) = [k \in Ks |-> doc[Final(Alike(doc, k))]]
    BY DEF Flatten, Leaves, Alike
  <1>2. DOMAIN Flatten(doc) = Ks
    BY <1>1
  <1>3. IsFiniteSet(Ks)
    <2> DEFINE f == [n \in Leaves(doc) |-> PathOf(doc, n)]
    <2>1. IsFiniteSet(Leaves(doc))
      BY VisitsOrder
    <2>2. IsFiniteSet({f[n] : n \in Leaves(doc)})
      BY <2>1, ImageFinite
    <2>3. {f[n] : n \in Leaves(doc)} = Ks
      OBVIOUS
    <2> QED BY <2>2, <2>3
  <1>4. ASSUME NEW k \in Ks PROVE k \in Seq(Spelled)
    <2>1. PICK n \in Leaves(doc) : k = PathOf(doc, n)
      BY <1>4
    <2>2. n \in Seq(Strings)
      BY NodeIs DEF Leaves
    <2> QED BY <2>1, <2>2, PathGrows
  <1>5. ASSUME NEW k \in Ks
        PROVE  \E f \in Leaves(doc) : LastIn(doc, Alike(doc, k), f)
    <2>1. Alike(doc, k) \in SUBSET Leaves(doc) /\ Alike(doc, k) # {}
      BY <1>5 DEF Alike
    <2> QED BY <2>1, OneIsLast, Zenon
  <1>6. ASSUME NEW k, NEW f \in Leaves(doc), LastIn(doc, Alike(doc, k), f)
        PROVE  k \in Ks /\ Flatten(doc)[k] = doc[f]
    <2>1. Alike(doc, k) \in SUBSET Leaves(doc) /\ f \in Alike(doc, k) /\ k \in Ks
      BY <1>6 DEF Alike, LastIn
    <2>2. Final(Alike(doc, k)) = f
      <3>1. \A A \in SUBSET Leaves(doc) : \A g \in A : LastIn(doc, A, g) =>
              (CHOOSE n \in A : \A m \in A \ {n} : VisitedBefore(doc, m, n)) = g
        BY OneIsLast, Zenon
      <3> QED BY ONLY <1>6, <2>1, <3>1, Zenon
    <2> HIDE DEF Final, Ks
    <2> QED BY <1>1, <2>1, <2>2
  <1> HIDE DEF Ks, Final
  <1>7. \A k \in Ks : \E f \in Leaves(doc) : LastIn(doc, Alike(doc, k), f) /\ Flatten(doc)[k] = doc[f]
    BY <1>5, <1>6
  <1> QED BY <1>2, <1>3, <1>4, <1>6, <1>7 DEF Ks

(* The leaf whose value the flattened form has for k.                     *)
FlatBy(doc, k, f) ==
  f \in Leaves(doc) /\ LastIn(doc, Alike(doc, k), f) /\ k \in DOMAIN Flatten(doc) /\ Flatten(doc)[k] = doc[f]

(* There is one for every key.                                            *)
LEMMA FlatHas ==
  ASSUME NEW doc, IsDocument(doc), NEW k \in DOMAIN Flatten(doc)
  PROVE  \E f : FlatBy(doc, k, f)
  <1>1. \A h \in DOMAIN Flatten(doc) :
              \E f \in Leaves(doc) : LastIn(doc, Alike(doc, h), f) /\ Flatten(doc)[h] = doc[f]
    BY FlattenIs
  <1> QED BY <1>1 DEF FlatBy

(* A leaf visited last of those spelled alike is that one.                *)
LEMMA FlatFrom ==
  ASSUME NEW doc, IsDocument(doc), NEW k, NEW f \in Leaves(doc), LastIn(doc, Alike(doc, k), f)
  PROVE  FlatBy(doc, k, f)
  <1>1. \A h : \A g \in Leaves(doc) : LastIn(doc, Alike(doc, h), g) =>
              h \in DOMAIN Flatten(doc) /\ Flatten(doc)[h] = doc[g]
    BY FlattenIs
  <1> QED BY <1>1 DEF FlatBy

(* Every leaf has a key.                                                  *)
LEMMA FlatKey ==
  ASSUME NEW doc, IsDocument(doc), NEW f \in Leaves(doc)
  PROVE  PathOf(doc, f) \in DOMAIN Flatten(doc) /\ PathOf(doc, f) \in Seq(Spelled)
  <1>1. DOMAIN Flatten(doc) = {PathOf(doc, n) : n \in Leaves(doc)}
    BY FlattenIs
  <1>2. \A k \in DOMAIN Flatten(doc) : k \in Seq(Spelled)
    BY FlattenIs
  <1> QED BY <1>1, <1>2

-------------------------------------------------------------------------------
(* The plan.                                                               *)

(* Paths by their first difference.                                       *)
LEMMA PrecedesIs ==
  ASSUME NEW s \in Seq(Strings), NEW t \in Seq(Strings)
  PROVE  /\ ~Precedes(s, s)
         /\ IsPrefix(s, t) /\ s # t => Precedes(s, t) /\ ~Precedes(t, s)
         /\ \A i : DifferAt(s, t, i) => /\ i \in Nat /\ Rank(s[i]) \in Nat /\ Rank(t[i]) \in Nat /\ Rank(s[i]) # Rank(t[i])
                                        /\ Precedes(s, t) <=> Rank(s[i]) < Rank(t[i])
  <1>1. Len(s) \in Nat /\ Len(t) \in Nat
    BY LenProperties
  <1>2. ~Precedes(s, s)
    <2>1. {h \in 1..Min({Len(s), Len(s)}) : s[h] # s[h]} = {}
      OBVIOUS
    <2> QED BY <1>1, <2>1 DEF Precedes
  <1>3. ASSUME IsPrefix(s, t), s # t PROVE Precedes(s, t) /\ ~Precedes(t, s)
    <2>1. Len(s) < Len(t)
      <3>1. Len(s) <= Len(t) /\ Len(s) # Len(t)
        BY <1>1, <1>3, PrefixLength
      <3> QED BY <1>1, <3>1
    <2>2. {h \in 1..Min({Len(s), Len(t)}) : s[h] # t[h]} = {}
      BY <1>3, DifferIs, ZenonT(60)
    <2>3. {h \in 1..Min({Len(t), Len(s)}) : t[h] # s[h]} = {}
      BY <1>3, DifferIs, ZenonT(60)
    <2> QED BY <1>1, <2>1, <2>2, <2>3 DEF Precedes
  <1>4. ASSUME NEW i, DifferAt(s, t, i)
        PROVE  /\ i \in Nat /\ Rank(s[i]) \in Nat /\ Rank(t[i]) \in Nat /\ Rank(s[i]) # Rank(t[i])
               /\ Precedes(s, t) <=> Rank(s[i]) < Rank(t[i])
    <2> DEFINE D == {h \in 1..Min({Len(s), Len(t)}) : s[h] # t[h]}
    <2>1. D # {} /\ Min(D) = i /\ i \in Nat
      BY <1>4, DifferHas, ZenonT(60)
    <2>2. s[i] \in Strings /\ t[i] \in Strings /\ s[i] # t[i]
      <3>1. i \in 1..Len(s) /\ i \in 1..Len(t) /\ s[i] # t[i]
        BY <1>4 DEF DifferAt
      <3> QED BY <3>1, ElementOfSeq
    <2>3. Rank(s[i]) \in Nat /\ Rank(t[i]) \in Nat /\ Rank(s[i]) # Rank(t[i])
      BY <2>2, RankIs
    <2>4. Precedes(s, t) <=> IF D = {} THEN Len(s) < Len(t) ELSE Rank(s[Min(D)]) < Rank(t[Min(D)])
      BY DEF Precedes
    <2> HIDE DEF D
    <2> QED BY <2>1, <2>3, <2>4
  <1> QED BY <1>2, <1>3, <1>4

(* The order of paths is strict and total.                                *)
LEMMA PrecedesOne ==
  ASSUME NEW s \in Seq(Strings), NEW t \in Seq(Strings), s # t
  PROVE  Precedes(s, t) \/ Precedes(t, s)
  <1>1. CASE IsPrefix(s, t)
    BY <1>1, PrecedesIs
  <1>2. CASE IsPrefix(t, s)
    BY <1>2, PrecedesIs
  <1>3. CASE \E i \in Nat : DifferAt(s, t, i)
    <2>1. PICK i \in Nat : DifferAt(s, t, i)
      BY <1>3
    <2>2. DifferAt(t, s, i)
      BY <2>1, DifferHas
    <2>3. /\ Rank(s[i]) \in Nat /\ Rank(t[i]) \in Nat /\ Rank(s[i]) # Rank(t[i])
          /\ Precedes(s, t) <=> Rank(s[i]) < Rank(t[i])
      BY <2>1, PrecedesIs
    <2>4. Precedes(t, s) <=> Rank(t[i]) < Rank(s[i])
      BY <2>2, PrecedesIs
    <2> QED BY <2>3, <2>4
  <1> QED BY <1>1, <1>2, <1>3, DifferOr

(* And transitive.                                                        *)
LEMMA PrecedesOn ==
  ASSUME NEW s \in Seq(Strings), NEW t \in Seq(Strings), NEW u \in Seq(Strings),
         Precedes(s, t), Precedes(t, u)
  PROVE  Precedes(s, u)
  <1>0. s # t /\ t # u /\ Len(s) \in Nat /\ Len(t) \in Nat /\ Len(u) \in Nat
    BY PrecedesIs, LenProperties
  <1>1. (Len(s) < Len(t) /\ IsPrefix(s, t)) \/ \E i \in Nat : DifferAt(s, t, i) /\ Rank(s[i]) < Rank(t[i])
    <2>1. ~IsPrefix(t, s)
      BY <1>0, PrecedesIs
    <2>2. (Len(s) < Len(t) /\ IsPrefix(s, t)) \/ \E i \in Nat : DifferAt(s, t, i)
      BY <1>0, <2>1, DifferOr
    <2>3. \A i \in Nat : DifferAt(s, t, i) => Rank(s[i]) < Rank(t[i])
      BY PrecedesIs
    <2> QED BY <2>2, <2>3
  <1>2. (Len(t) < Len(u) /\ IsPrefix(t, u)) \/ \E i \in Nat : DifferAt(t, u, i) /\ Rank(t[i]) < Rank(u[i])
    <2>1. ~IsPrefix(u, t)
      BY <1>0, PrecedesIs
    <2>2. (Len(t) < Len(u) /\ IsPrefix(t, u)) \/ \E i \in Nat : DifferAt(t, u, i)
      BY <1>0, <2>1, DifferOr
    <2>3. \A i \in Nat : DifferAt(t, u, i) => Rank(t[i]) < Rank(u[i])
      BY PrecedesIs
    <2> QED BY <2>2, <2>3
  <1>3. CASE Len(s) < Len(t) /\ IsPrefix(s, t) /\ Len(t) < Len(u) /\ IsPrefix(t, u)
    <2>1. IsPrefix(s, u) /\ s # u
      BY <1>0, <1>3, PrefixTransitive
    <2> QED BY <2>1, PrecedesIs
  <1>4. ASSUME Len(s) < Len(t) /\ IsPrefix(s, t), NEW j \in Nat, DifferAt(t, u, j), Rank(t[j]) < Rank(u[j])
        PROVE  Precedes(s, u)
    <2>1. j \in 1..Len(t) /\ j \in 1..Len(u) /\ t[j] # u[j] /\ \A h \in 1..(j - 1) : t[h] = u[h]
      BY <1>4 DEF DifferAt
    <2>2. \A h \in 1..Len(s) : s[h] = t[h]
      BY <1>4, PrefixByElements
    <2>3. CASE j <= Len(s)
      <3>1. j \in 1..Len(s)
        BY <1>0, <2>1, <2>3
      <3>2. DifferAt(s, u, j) /\ s[j] = t[j]
        <4>1. \A h \in 1..(j - 1) : h \in 1..Len(s)
          BY <1>0, <3>1
        <4> QED BY <2>1, <2>2, <3>1, <4>1 DEF DifferAt
      <3> QED BY <1>4, <3>2, PrecedesIs
    <2>4. CASE Len(s) < j
      <3>1. Len(s) < Len(u) /\ \A h \in 1..Len(s) : h \in 1..(j - 1)
        BY <1>0, <2>1, <2>4
      <3>2. Len(s) <= Len(u) /\ \A h \in 1..Len(s) : s[h] = u[h]
        BY <1>0, <2>1, <2>2, <3>1
      <3>3. IsPrefix(s, u) /\ s # u
        BY <1>0, <3>1, <3>2, PrefixByElements
      <3> QED BY <3>3, PrecedesIs
    <2> QED BY <1>0, <2>3, <2>4
  <1>5. ASSUME NEW i \in Nat, DifferAt(s, t, i), Rank(s[i]) < Rank(t[i]), Len(t) < Len(u) /\ IsPrefix(t, u)
        PROVE  Precedes(s, u)
    <2>1. i \in 1..Len(s) /\ i \in 1..Len(t) /\ s[i] # t[i] /\ \A h \in 1..(i - 1) : s[h] = t[h]
      BY <1>5 DEF DifferAt
    <2>2. \A h \in 1..Len(t) : t[h] = u[h]
      BY <1>5, PrefixByElements
    <2>3. i \in 1..Len(u) /\ \A h \in 1..(i - 1) : h \in 1..Len(t)
      BY <1>0, <1>5, <2>1
    <2>4. DifferAt(s, u, i) /\ u[i] = t[i]
      BY <2>1, <2>2, <2>3 DEF DifferAt
    <2> QED BY <1>5, <2>4, PrecedesIs
  <1>6. ASSUME NEW i \in Nat, DifferAt(s, t, i), Rank(s[i]) < Rank(t[i]),
               NEW j \in Nat, DifferAt(t, u, j), Rank(t[j]) < Rank(u[j])
        PROVE  Precedes(s, u)
    <2>1. Rank(s[i]) \in Nat /\ Rank(t[i]) \in Nat /\ Rank(t[j]) \in Nat /\ Rank(u[j]) \in Nat
      BY <1>6, PrecedesIs
    <2>2. CASE i < j
      <3>1. DifferAt(s, u, i) /\ u[i] = t[i]
        <4>1. DifferAt(s, t, i) /\ DifferAt(t, u, j) /\ i < j
          BY <1>6, <2>2
        <4> QED BY <4>1, DifferSooner
      <3> QED BY <1>6, <3>1, PrecedesIs
    <2>3. CASE j < i
      <3>1. DifferAt(s, u, j) /\ s[j] = t[j]
        BY <1>6, <2>3, DifferLater
      <3> QED BY <1>6, <3>1, PrecedesIs
    <2>4. CASE i = j
      <3>1. Rank(s[i]) < Rank(u[i]) /\ s[i] # u[i]
        <4>1. Rank(s[i]) < Rank(t[i]) /\ Rank(t[i]) < Rank(u[i]) /\ Rank(u[i]) \in Nat
          BY <1>6, <2>1, <2>4
        <4> QED BY <2>1, <4>1
      <3>2. DifferAt(s, u, i)
        BY <1>6, <2>4, <3>1, DifferSame
      <3> QED BY <3>1, <3>2, PrecedesIs
    <2> QED BY <2>2, <2>3, <2>4
  <1> QED BY <1>1, <1>2, <1>3, <1>4, <1>5, <1>6

(* The actions for a drift.                                               *)
Actions(drift) ==
  {[key |-> d.key, add |-> d.type = "KeyAdded", from |-> d.from, to |-> d.to] :
     d \in {d \in drift : d.type # "KeyRemoved"}}

(* A plan in the order of its keys.                                       *)
Sorted(A) ==
  [i \in 1..Cardinality(A) |->
     CHOOSE x \in A : Cardinality({y \in A : Precedes(y.key, x.key)}) = i - 1]

(* A plan consists of the actions.                                         *)
LEMMA PlanIs ==
  ASSUME NEW drift, NEW A, A = Actions(drift), IsFiniteSet(A),
         \A a \in A : a.key \in Seq(Strings),
         \A a, b \in A : a.key = b.key => a = b
  PROVE  CreatePlan(drift) \in Seq(A)
  <1> DEFINE R == {p \in A \X A : Precedes(p[1].key, p[2].key)}
             n == Cardinality(A)
             e(i) == CHOOSE x \in A : Cardinality({y \in A : Precedes(y.key, x.key)}) = i - 1
  <1>1. CreatePlan(drift) = [i \in 1..n |-> e(i)]
    <2>1. CreatePlan(drift) = Ordered(A, LAMBDA a, b : Precedes(a.key, b.key))
      BY DEF CreatePlan, Actions
    <2>2. Ordered(A, LAMBDA a, b : Precedes(a.key, b.key)) = CHOOSE q \in {Sorted(T) : T \in {A}} : TRUE
      BY DEF Ordered, Sorted
    <2>3. (CHOOSE q \in {Sorted(T) : T \in {A}} : TRUE) = Sorted(A)
      OBVIOUS
    <2>4. Sorted(A) = [i \in 1..n |-> e(i)]
      BY DEF Sorted
    <2> QED BY <2>1, <2>2, <2>3, <2>4
  <1>2. IsOrder(R, A)
    <2>1. \A x \in A : <<x, x>> \notin R
      BY PrecedesIs
    <2>2. \A x, y \in A : x # y => <<x, y>> \in R \/ <<y, x>> \in R
      BY PrecedesOne
    <2>3. \A x, y, z \in A : <<x, y>> \in R /\ <<y, z>> \in R => <<x, z>> \in R
      BY PrecedesOn
    <2> HIDE DEF R
    <2> QED BY <2>1, <2>2, <2>3 DEF IsOrder
  <1>3. n \in Nat /\ \A i \in 1..n : \E x \in A : Cardinality({y \in A : <<y, x>> \in R}) = i - 1
    <2> HIDE DEF R
    <2>1. /\ Cardinality(A) \in Nat
          /\ \A i \in 1..Cardinality(A) : \E x \in A : Cardinality({y \in A : <<y, x>> \in R}) = i - 1
      <3> HIDE DEF n, e
      <3>1. Ranked(R, A)
        BY <1>2, Enumerated
      <3> QED BY <3>1 DEF Ranked
    <2> QED BY <2>1
  <1>4. \A x \in A : {y \in A : <<y, x>> \in R} = {y \in A : Precedes(y.key, x.key)}
    OBVIOUS
  <1>5. \A i \in 1..n : e(i) \in A
    <2> TAKE i \in 1..n
    <2>1. PICK x \in A : Cardinality({y \in A : <<y, x>> \in R}) = i - 1
      BY <1>3
    <2>2. Cardinality({y \in A : Precedes(y.key, x.key)}) = i - 1
      BY <1>4, <2>1
    <2> QED BY <2>2
  <1> HIDE DEF e, n
  <1> QED BY <1>1, <1>3, <1>5

-------------------------------------------------------------------------------
(* The application of a plan.                                              *)

(* One action of Apply.                                                   *)
Done(acc, action) ==
  IF ~acc.ok \/ ~Applicable(acc.doc, action) THEN Thrown(acc)
  ELSE [Set(acc.doc, action.key, action.to) EXCEPT !.at = <<>>]
Did(before, action) == CHOOSE after \in {Done(acc, action) : acc \in {before}} : TRUE

(* The choice in Apply is of one element.                                 *)
LEMMA DidIs == \A before, action : Did(before, action) = Done(before, action)
  <1> TAKE before, action
  <1>1. {Done(acc, action) : acc \in {before}} = {Done(before, action)}
    OBVIOUS
  <1> QED BY <1>1 DEF Did

(* Actions that the steps of a plan may be.                                *)
Doable(X) == {a \in [key : Seq(Spelled), add : BOOLEAN, from : X, to : X] : a.to \notin Containers}

(* One action leaves a document.                                          *)
LEMMA DoneIs ==
  ASSUME NEW X, {Null, Object, Array} \subseteq X, NEW acc \in Accs(X), NEW a \in Doable(X)
  PROVE  Done(acc, a) \in Accs(X)
  <1>1. CASE ~acc.ok \/ ~Applicable(acc.doc, a)
    <2>1. Thrown(acc) \in Accs(X)
      BY DEF Thrown, Accs
    <2> QED BY <1>1, <2>1 DEF Done
  <1>2. CASE ~(~acc.ok \/ ~Applicable(acc.doc, a))
    <2>1. PICK b : b = Set(acc.doc, a.key, a.to)
      OBVIOUS
    <2>2. acc.doc \in Docs(X) /\ a.key \in Seq(Spelled) /\ a.to \in X /\ a.to \notin Containers
      BY DEF Accs, Doable
    <2>3. b \in Accs(X)
      BY <2>1, <2>2, SetIs
    <2>4. <<>> \in DOMAIN b.doc /\ <<>> \in Seq(Words)
      <3>1. b.doc \in Docs(X)
        BY <2>3 DEF Accs
      <3>2. <<>> \in DOMAIN b.doc
        BY <3>1, DocsAre DEF IsDocument
      <3> QED BY <3>2
    <2>5. [b EXCEPT !.at = <<>>] \in Accs(X)
      BY <2>3, <2>4 DEF Accs
    <2> QED BY <1>2, <2>1, <2>5 DEF Done
  <1> QED BY <1>1, <1>2

(* The intermediate results of Apply.                                     *)
AppliedBy(it, X, d, plan) ==
  /\ it[0] = Start(d) /\ Apply(d, plan) = it[Len(plan)]
  /\ \A m \in 1..Len(plan) : it[m] = Done(it[m - 1], plan[m])
  /\ \A m \in 0..Len(plan) : it[m] \in Accs(X)

(* The intermediate results of Apply.                                     *)
LEMMA ApplyFolds ==
  ASSUME NEW X, {Null, Object, Array} \subseteq X, NEW d \in Docs(X), NEW plan \in Seq(Doable(X))
  PROVE  \E it : AppliedBy(it, X, d, plan)
  <1> DEFINE n == Len(plan)
             V == Accs(X)
             F == [p \in V \X (1..n) |-> Done(p[1], plan[p[2]])]
             Step(h) == [t \in SUBSET (1..n) |->
                           IF t = {} THEN Start(d) ELSE Did(h[t \ {Max(t)}], plan[Max(t)])]
             iter == CHOOSE h : h = Step(h)
  <1>1. n \in Nat /\ DOMAIN plan = 1..n /\ \A i \in 1..n : plan[i] \in Doable(X)
    BY LenProperties, ElementOfSeq
  <1>2. F \in [V \X (1..n) -> V] /\ Start(d) \in V
    <2>1. \A p \in V \X (1..n) : Done(p[1], plan[p[2]]) \in V
      <3> HIDE DEF n
      <3> QED BY <1>1, DoneIs
    <2> HIDE DEF V, n
    <2>2. F \in [V \X (1..n) -> V]
      BY <2>1
    <2> QED BY <2>2, StartIs DEF V
  <1>3. Apply(d, plan) = iter[1..n]
    BY <1>1 DEF Apply, Did, Done, Start, FoldLeft, MapThenFoldSet
  <1>4. PICK g \in [SUBSET (1..n) -> V] : IsFold(g, Start(d), n, F)
    <2> HIDE DEF n, F, V
    <2> QED BY <1>1, <1>2, FoldExists
  <1>5. g = Step(g)
    <2>1. ASSUME NEW t \in SUBSET (1..n), t # {} PROVE g[t] = Did(g[t \ {Max(t)}], plan[Max(t)])
      <3>1. Max(t) \in 1..n /\ g[t \ {Max(t)}] \in V
        <4> HIDE DEF n, V
        <4> QED BY <1>1, <2>1, MaxInside
      <3> HIDE DEF V, n
      <3>2. g[t] = Done(g[t \ {Max(t)}], plan[Max(t)])
        BY <1>4, <2>1, <3>1 DEF IsFold
      <3> QED BY <3>2, DidIs
    <2> HIDE DEF V, n, F
    <2> QED BY <1>4, <2>1 DEF IsFold
  <1>6. iter = Step(iter)
    <2> HIDE DEF Step
    <2> QED BY <1>5
  <1> DEFINE it == [m \in 0..n |-> iter[1..m]]
  <1>7. it[0] = Start(d) /\ it[n] = iter[1..n] /\ \A m \in 1..n : it[m] = Done(it[m - 1], plan[m])
    <2> HIDE DEF iter, n
    <2>1. \A t \in SUBSET (1..n) :
            iter[t] = IF t = {} THEN Start(d) ELSE Did(iter[t \ {Max(t)}], plan[Max(t)])
      BY <1>6, Zenon
    <2> HIDE DEF V, F
    <2>2. 1..0 = {} /\ {} \in SUBSET (1..n) /\ \A m \in 1..n : 1..m \in SUBSET (1..n) /\ m \in Nat \ {0}
      BY <1>1
    <2>3. iter[1..0] = Start(d) /\ \A m \in 1..n : iter[1..m] = Did(iter[1..(m - 1)], plan[m])
      BY <2>1, <2>2, IntervalStep
    <2>31. \A m \in 1..n : iter[1..m] = Done(iter[1..(m - 1)], plan[m])
      BY <2>3, DidIs
    <2>4. 0 \in 0..n /\ n \in 0..n /\ \A m \in 1..n : m \in 0..n /\ m - 1 \in 0..n
      BY <1>1
    <2> QED BY <2>3, <2>31, <2>4
  <1> HIDE DEF it, iter
  <1>8. \A m \in 0..n : it[m] \in V
    <2> HIDE DEF n
    <2> DEFINE T == {m \in Nat : m <= n => it[m] \in V}
    <2>1. 0 \in T
      <3> HIDE DEF V
      <3>1. it[0] \in V
        BY <1>2, <1>7
      <3> QED BY <3>1
    <2>2. ASSUME NEW m \in Nat, m \in T PROVE m + 1 \in T
      <3> SUFFICES ASSUME m + 1 <= n PROVE it[m + 1] \in V
        OBVIOUS
      <3> HIDE DEF V
      <3>1. m + 1 \in 1..n /\ it[m] \in V /\ (m + 1) - 1 = m
        BY <1>1, <2>2
      <3>2. it[m + 1] = Done(it[m], plan[m + 1]) /\ plan[m + 1] \in Doable(X)
        BY <1>1, <1>7, <3>1
      <3> QED BY <3>1, <3>2, DoneIs DEF V
    <2> HIDE DEF T
    <2>3. Nat \subseteq T
      BY <2>1, <2>2, SetInduction
    <2>4. ASSUME NEW m \in 0..n PROVE it[m] \in V
      <3>1. m \in Nat /\ m <= n /\ m \in T
        BY <1>1, <2>3
      <3> QED BY <3>1 DEF T
    <2> QED BY <2>4
  <1>9. AppliedBy(it, X, d, plan)
    BY <1>3, <1>7, <1>8 DEF AppliedBy
  <1> QED BY <1>9

(* What an action says, of an observed and a desired flattened document.   *)
Meant(a, O, D) ==
  /\ a.key \in DOMAIN D /\ a.to = D[a.key]
  /\ a.add => a.key \notin DOMAIN O
  /\ ~a.add => a.key \in DOMAIN O /\ a.from = O[a.key] /\ O[a.key] # D[a.key]

(* The action for one key.                                                *)
ActionOf(k, O, D) == [key |-> k, add |-> k \notin DOMAIN O,
                      from |-> IF k \in DOMAIN O THEN O[k] ELSE Null, to |-> D[k]]

(* The actions of a plan: one for each desired key that is missing or has *)
(* another value.                                                         *)
LEMMA ActionsAre ==
  ASSUME NEW O, NEW D
  PROVE  Actions(Drift(O, D)) = {ActionOf(k, O, D) : k \in {k \in DOMAIN D : k \notin DOMAIN O \/ O[k] # D[k]}}
  <1> DEFINE A == Actions(Drift(O, D))
             K == {k \in DOMAIN D : k \notin DOMAIN O \/ O[k] # D[k]}
             Act(d) == [key |-> d.key, add |-> d.type = "KeyAdded", from |-> d.from, to |-> d.to]
  <1>1. ASSUME NEW a \in A PROVE a \in {ActionOf(k, O, D) : k \in K}
    <2>1. PICK d \in Drift(O, D) : d.type # "KeyRemoved" /\ a = Act(d)
      BY DEF Actions
    <2>2. CASE \E k \in DOMAIN D \ DOMAIN O : d = DriftEvent(k, "KeyAdded", Null, D[k])
      <3>1. PICK k \in DOMAIN D \ DOMAIN O : d = DriftEvent(k, "KeyAdded", Null, D[k])
        BY <2>2
      <3>2. a = ActionOf(k, O, D) /\ k \in K
        BY <2>1, <3>1 DEF DriftEvent, ActionOf
      <3> QED BY <3>2
    <2>3. CASE \E k \in {k \in DOMAIN D \cap DOMAIN O : O[k] # D[k]} : d = DriftEvent(k, "ValueChanged", O[k], D[k])
      <3>1. PICK k \in {k \in DOMAIN D \cap DOMAIN O : O[k] # D[k]} : d = DriftEvent(k, "ValueChanged", O[k], D[k])
        BY <2>3
      <3>2. a = ActionOf(k, O, D) /\ k \in K
        BY <2>1, <3>1 DEF DriftEvent, ActionOf
      <3> QED BY <3>2
    <2>4. CASE \E k \in DOMAIN O \ DOMAIN D : d = DriftEvent(k, "KeyRemoved", O[k], Null)
      BY <2>1, <2>4 DEF DriftEvent
    <2> QED BY <2>1, <2>2, <2>3, <2>4 DEF Drift
  <1>2. ASSUME NEW k \in K PROVE ActionOf(k, O, D) \in A
    <2>1. CASE k \notin DOMAIN O
      <3> DEFINE d == DriftEvent(k, "KeyAdded", Null, D[k])
      <3>1. d \in Drift(O, D)
        BY <2>1 DEF Drift
      <3>2. d.type # "KeyRemoved" /\ Act(d) = ActionOf(k, O, D)
        BY <2>1 DEF DriftEvent, ActionOf
      <3> HIDE DEF d
      <3> QED BY <3>1, <3>2 DEF Actions
    <2>2. CASE k \in DOMAIN O
      <3> DEFINE d == DriftEvent(k, "ValueChanged", O[k], D[k])
      <3>1. d \in Drift(O, D)
        BY <2>2 DEF Drift
      <3>2. d.type # "KeyRemoved" /\ Act(d) = ActionOf(k, O, D)
        BY <2>2 DEF DriftEvent, ActionOf
      <3> HIDE DEF d
      <3> QED BY <3>1, <3>2 DEF Actions
    <2> QED BY <2>1, <2>2
  <1> HIDE DEF A, K
  <1>3. A = {ActionOf(k, O, D) : k \in K}
    BY <1>1, <1>2
  <1> QED BY <1>3 DEF A, K

(* The values a repair deals with.                                         *)
Values(d, e) == {Null, Object, Array} \cup Range(d) \cup Range(e)

(* Both documents have values among these.                                *)
LEMMA ValuesAre ==
  ASSUME NEW d, IsDocument(d), NEW e, IsDocument(e)
  PROVE  d \in Docs(Values(d, e)) /\ e \in Docs(Values(d, e)) /\ {Null, Object, Array} \subseteq Values(d, e)
  <1>1. d \in [DOMAIN d -> Range(d)] /\ e \in [DOMAIN e -> Range(e)]
    BY DEF IsDocument
  <1>2. d \in [DOMAIN d -> Values(d, e)] /\ e \in [DOMAIN e -> Values(d, e)]
    BY <1>1 DEF Values
  <1>3. {Null, Object, Array} \subseteq Values(d, e)
    BY DEF Values
  <1> QED BY <1>2, <1>3, DocsAre

(* The flattened form has values of the document, no containers.          *)
LEMMA FlatValue ==
  ASSUME NEW d, IsDocument(d), NEW k \in DOMAIN Flatten(d)
  PROVE  Flatten(d)[k] \in Range(d) /\ Flatten(d)[k] \notin Containers
  <1>0. PICK f : FlatBy(d, k, f)
    BY FlatHas
  <1>1. f \in Leaves(d) /\ Flatten(d)[k] = d[f]
    BY <1>0 DEF FlatBy
  <1>2. f \in DOMAIN d /\ d[f] \notin Containers
    BY <1>1 DEF Leaves
  <1> QED BY <1>1, <1>2 DEF Range

(* The plan of a repair.                                                   *)
LEMMA PlanFor ==
  ASSUME NEW d, IsDocument(d), NEW e, IsDocument(e),
         NEW plan, plan = CreatePlan(Drift(Flatten(d), Flatten(e)))
  PROVE  /\ plan \in Seq(Doable(Values(d, e)))
         /\ \A i \in 1..Len(plan) : Meant(plan[i], Flatten(d), Flatten(e))
  <1>1. PICK O : O = Flatten(d)
    OBVIOUS
  <1>2. PICK D : D = Flatten(e)
    OBVIOUS
  <1> DEFINE drift == Drift(O, D)
             A == Actions(drift)
             X == Values(d, e)
  <1>3. /\ IsFiniteSet(DOMAIN D)
        /\ \A k \in DOMAIN D : k \in Seq(Spelled)
        /\ \A k \in DOMAIN D : D[k] \in X /\ D[k] \notin Containers
        /\ \A k \in DOMAIN O : O[k] \in X
    <2>1. IsFiniteSet(DOMAIN D) /\ \A k \in DOMAIN D : k \in Seq(Spelled)
      BY <1>2, FlattenIs
    <2>2. \A k \in DOMAIN D : D[k] \in X /\ D[k] \notin Containers
      BY <1>2, FlatValue DEF Values
    <2>3. \A k \in DOMAIN O : O[k] \in X
      BY <1>1, FlatValue DEF Values
    <2> QED BY <2>1, <2>2, <2>3
  <1>4. Null \in X
    BY DEF Values
  <1> DEFINE K == {k \in DOMAIN D : k \notin DOMAIN O \/ O[k] # D[k]}
  <1>5. A = {ActionOf(k, O, D) : k \in K}
    BY ActionsAre
  <1>6. \A k \in K : ActionOf(k, O, D) \in Doable(X) /\ Meant(ActionOf(k, O, D), O, D)
    <2> HIDE DEF X
    <2> TAKE k \in K
    <2>1. k \in DOMAIN D /\ k \in Seq(Spelled) /\ D[k] \in X /\ D[k] \notin Containers
      BY <1>3
    <2>2. (IF k \in DOMAIN O THEN O[k] ELSE Null) \in X /\ (k \notin DOMAIN O) \in BOOLEAN
      BY <1>3, <1>4
    <2>3. ActionOf(k, O, D) \in Doable(X)
      BY <2>1, <2>2 DEF ActionOf, Doable
    <2>4. Meant(ActionOf(k, O, D), O, D)
      BY <2>1 DEF ActionOf, Meant
    <2> QED BY <2>3, <2>4
  <1>7. \A k : ActionOf(k, O, D).key = k
    BY DEF ActionOf
  <1>8. IsFiniteSet(A)
    <2> DEFINE f == [k \in K |-> ActionOf(k, O, D)]
    <2>1. IsFiniteSet(K)
      <3>1. K \in SUBSET DOMAIN D
        OBVIOUS
      <3> HIDE DEF K
      <3> QED BY <1>3, <3>1, FS_Subset
    <2> HIDE DEF K, A
    <2>2. IsFiniteSet({f[k] : k \in K})
      BY <2>1, ImageFinite
    <2>3. {f[k] : k \in K} = A
      BY <1>5
    <2> QED BY <2>2, <2>3
  <1> HIDE DEF A, K, X
  <1>9. \A a \in A : a \in Doable(X) /\ Meant(a, O, D)
    BY <1>5, <1>6
  <1>10. \A a, b \in A : a.key = b.key => a = b
    BY <1>5, <1>7
  <1>11. \A a \in A : a.key \in Seq(Strings)
    <2>1. \A s \in Seq(Spelled) : s \in Seq(Strings)
      BY SeqMonotonic DEF Spelled
    <2>2. \A a \in A : a.key \in Seq(Spelled)
      BY <1>9 DEF Doable
    <2> QED BY <2>1, <2>2
  <1>12. plan \in Seq(A)
    <2>1. plan = CreatePlan(drift)
      BY <1>1, <1>2
    <2> HIDE DEF drift
    <2> QED BY <1>8, <1>10, <1>11, <2>1, PlanIs DEF A
  <1>13. A \subseteq Doable(X)
    BY <1>9
  <1>14. plan \in Seq(Doable(X)) /\ \A i \in 1..Len(plan) : plan[i] \in A
    BY <1>12, <1>13, SeqMonotonic, ElementOfSeq
  <1> QED BY <1>1, <1>2, <1>9, <1>14 DEF X

-------------------------------------------------------------------------------
(* What an action leaves alone.                                            *)

(* The same arrays above a node, and a node that was there before.         *)
Ups(d, e, n) ==
  \A m \in Seq(Strings) : IsPrefix(m, n) /\ m # n => (d[m] = Array <=> e[m] = Array)
(* A node that was there, with its value and its way.                     *)
Old(d, e, n) == n \in DOMAIN d /\ e[n] = d[n] /\ Ups(d, e, n)

(* Only names that are words are written.                                  *)
LEMMA OldNode ==
  ASSUME NEW d, IsDocument(d), NEW e, NEW p, NEW q \in Seq(Words), NEW v, Written(d, e, p, q, v),
         NEW n \in DOMAIN e, n \notin Seq(Words)
  PROVE  Old(d, e, n)
  <1>1. n \in DOMAIN d
    BY DEF Written
  <1>2. ~IsPrefix(q, n)
    BY DEF Written
  <1>3. e[n] = d[n]
    BY <1>1, <1>2 DEF Written
  <1>4. ASSUME NEW m \in Seq(Strings), IsPrefix(m, n), m # n
        PROVE  d[m] = Array <=> e[m] = Array
    <2>1. m \in DOMAIN d /\ d[m] \in Containers
      BY <1>1, <1>4, AboveIsContainer
    <2>2. q \in Seq(Strings) /\ n \in Seq(Strings)
      BY <1>1, NodeIs, LeadIs
    <2>3. ~IsPrefix(q, m)
      BY <1>2, <1>4, <2>2, PrefixTransitive
    <2>4. e[m] = d[m]
      BY <2>1, <2>3 DEF Written, Containers, Object, Array, Null
    <2> QED BY <2>4
  <1> QED BY <1>1, <1>3, <1>4 DEF Old, Ups

(* What two steps leave alone.                                            *)
LEMMA OldOn ==
  ASSUME NEW d, NEW e, NEW f, NEW n, Old(d, e, n), Old(e, f, n)
  PROVE  Old(d, f, n)
  <1>1. n \in DOMAIN d /\ f[n] = d[n]
    BY DEF Old
  <1>2. Ups(d, e, n) /\ Ups(e, f, n)
    BY DEF Old
  <1>3. Ups(d, f, n)
    BY <1>2 DEF Ups
  <1> QED BY <1>1, <1>3 DEF Old

(* What no step touches.                                                  *)
LEMMA OldSelf ==
  ASSUME NEW d, NEW n \in DOMAIN d
  PROVE  Old(d, d, n)
  BY DEF Old, Ups

(* An old leaf is spelled as before.                                      *)
LEMMA OldLeaf ==
  ASSUME NEW d, IsDocument(d), NEW e, NEW n \in Leaves(e), Old(d, e, n)
  PROVE  n \in Leaves(d) /\ PathOf(d, n) = PathOf(e, n)
  <1>1. n \in DOMAIN d /\ d[n] = e[n] /\ n # <<>> /\ e[n] \notin Containers
    BY DEF Old, Leaves
  <1>2. n \in Leaves(d) /\ n \in Seq(Strings)
    BY <1>1, NodeIs DEF Leaves
  <1>3. PathOf(d, n) = PathOf(e, n)
    BY <1>2, PathSame DEF Old, Ups
  <1> QED BY <1>2, <1>3

(* The order of visits is that of before, from an old node.               *)
LEMMA SameVisits ==
  ASSUME NEW d, IsDocument(d), NEW e, NEW m \in Leaves(d), NEW n \in Leaves(d), m # n, Ups(d, e, m)
  PROVE  VisitedBefore(d, m, n) <=> VisitedBefore(e, m, n)
  <1>1. PICK i \in Nat : Part(d, m, n, i)
    BY VisitIs
  <1>2. m \in Seq(Strings) /\ n \in Seq(Strings)
    BY NodeIs DEF Leaves
  <1>3. Min({h \in 1..Min({Len(m), Len(n)}) : m[h] # n[h]}) = i
    BY <1>1, <1>2, DifferHas DEF Part
  <1>4. i \in 1..Len(m) /\ Len(m) \in Nat
    BY <1>1, <1>2, LenProperties DEF Part, DifferAt
  <1>5. PICK h \in Nat : i = h + 1 /\ i - 1 = h /\ h <= Len(m)
    <2>1. i - 1 \in Nat /\ i = (i - 1) + 1 /\ i - 1 <= Len(m)
      BY <1>4
    <2> QED BY <2>1
  <1> DEFINE o == SubSeq(m, 1, h)
  <1>6. o \in Seq(Strings) /\ IsPrefix(o, m) /\ o # m
    <2>1. o \in Seq(Strings) /\ Len(o) = h /\ \A j \in 1..h : o[j] = m[j]
      <3>1. \A j \in 1..h : m[j] \in Strings
        BY <1>2, <1>4, <1>5, ElementOfSeq
      <3> QED BY <1>2, <1>4, <1>5, <3>1, SubSeqProperties
    <2> HIDE DEF o
    <2>2. IsPrefix(o, m)
      BY <1>2, <1>5, <2>1, PrefixByElements
    <2>3. h # Len(m)
      BY <1>4, <1>5
    <2> QED BY <2>1, <2>2, <2>3
  <1>7. d[o] = Array <=> e[o] = Array
    <2> HIDE DEF o
    <2> QED BY <1>6 DEF Ups
  <1>8. SubSeq(m, 1, i - 1) = o
    BY <1>5
  <1> HIDE DEF o
  <1> QED BY <1>3, <1>7, <1>8 DEF VisitedBefore

(* A step of a plan, and one that writes where its path leads to.          *)
Went(d, e, a) ==
  /\ a.add => Split(a.key) \notin DOMAIN d
  /\ ~a.add => Split(a.key) \in DOMAIN d /\ d[Split(a.key)] \notin Containers
  /\ IF Split(a.key) = <<>> THEN e = d
     ELSE \E q \in Seq(Words) : Written(d, e, Split(a.key), q, a.to)
(* It wrote its target.                                                   *)
Straight(d, e, a) ==
  IF Split(a.key) = <<>> THEN e = d ELSE Written(d, e, Split(a.key), Split(a.key), a.to)

(* What one successful action did.                                        *)
LEMMA DoneWent ==
  ASSUME NEW X, {Null, Object, Array} \subseteq X, NEW acc \in Accs(X), NEW a \in Doable(X),
         ~a.add => a.from \notin Containers, Done(acc, a).ok
  PROVE  acc.ok /\ Went(acc.doc, Done(acc, a).doc, a)
  <1>1. acc.ok /\ Applicable(acc.doc, a)
    <2>1. Thrown(acc).ok = FALSE
      BY DEF Thrown, Accs
    <2> QED BY <2>1 DEF Done
  <1>2. PICK b : b = Set(acc.doc, a.key, a.to)
    OBVIOUS
  <1>3. acc.doc \in Docs(X) /\ IsDocument(acc.doc) /\ a.key \in Seq(Spelled) /\ a.to \in X /\ a.to \notin Containers
    BY DocsAre DEF Accs, Doable
  <1>4. b \in Accs(X) /\ Done(acc, a) = [b EXCEPT !.at = <<>>]
    <2>1. b \in Accs(X)
      BY <1>2, <1>3, SetIs
    <2> QED BY <1>1, <1>2, <2>1 DEF Done
  <1>5. b.ok /\ Done(acc, a).doc = b.doc
    BY <1>4 DEF Accs
  <1>6. IF Split(a.key) = <<>> THEN b.doc = acc.doc
        ELSE \E q \in Seq(Words) : Written(acc.doc, b.doc, Split(a.key), q, a.to)
    BY <1>2, <1>3, <1>5, SetIs
  <1>7. Split(a.key) \in Seq(Words)
    BY <1>3, SplitIs
  <1>8. a.add => Split(a.key) \notin DOMAIN acc.doc
    BY <1>1, <1>3, <1>7, LocatedIs DEF Applicable
  <1>9. ~a.add => Split(a.key) \in DOMAIN acc.doc /\ acc.doc[Split(a.key)] \notin Containers
    BY <1>1, <1>3, <1>7, LocatedIs DEF Applicable
  <1> QED BY <1>1, <1>5, <1>6, <1>8, <1>9 DEF Went

(* What a step that writes where its path leads to keeps.                  *)
Keeps(d, e, a) ==
  \A n \in DOMAIN d :
    /\ n \in DOMAIN e
    /\ d[n] \in Containers => e[n] = d[n]
    /\ n \notin Seq(Words) => e[n] = d[n]
    /\ (a.add \/ n # Split(a.key) \/ n = <<>>) /\ d[n] # Null => e[n] = d[n]

(* An action that went straight keeps all but its target and nulls.       *)
LEMMA StraightKeeps ==
  ASSUME NEW d, IsDocument(d), NEW e, NEW a, Split(a.key) \in Seq(Words), Went(d, e, a), Straight(d, e, a)
  PROVE  Keeps(d, e, a)
  <1>1. CASE Split(a.key) = <<>>
    BY <1>1 DEF Straight, Keeps
  <1>2. CASE Split(a.key) # <<>>
    <2>1. PICK p \in Seq(Words) : p = Split(a.key) /\ p # <<>> /\ p \in Seq(Strings)
      BY <1>2, LeadIs
    <2>2. Written(d, e, p, p, a.to)
      BY <1>2, <2>1 DEF Straight
    <2>3. ASSUME NEW n \in DOMAIN d, IsPrefix(p, n) PROVE p = n /\ ~a.add
      <3>1. n \in Seq(Strings)
        BY NodeIs
      <3>2. p # n => p \in DOMAIN d /\ d[p] \in Containers
        BY <2>1, <2>3, AboveIsContainer
      <3>3. p \in DOMAIN d
        BY <3>2
      <3>4. ~a.add /\ d[p] \notin Containers
        BY <2>1, <3>3 DEF Went
      <3> QED BY <3>2, <3>4
    <2>4. ASSUME NEW n \in DOMAIN d
          PROVE  /\ n \in DOMAIN e
                 /\ d[n] \in Containers => e[n] = d[n]
                 /\ n \notin Seq(Words) => e[n] = d[n]
                 /\ (a.add \/ n # Split(a.key) \/ n = <<>>) /\ d[n] # Null => e[n] = d[n]
      <3>1. CASE IsPrefix(p, n)
        <4>1. n = p /\ ~a.add
          BY <2>3, <3>1
        <4>2. d[n] \notin Containers
          BY <2>1, <4>1 DEF Went
        <4> QED BY <2>1, <2>2, <4>1, <4>2 DEF Written
      <3>2. CASE ~IsPrefix(p, n)
        <4>1. n \in DOMAIN e /\ (d[n] # Null \/ n \notin Seq(Words) => e[n] = d[n])
          BY <2>2, <3>2 DEF Written
        <4>2. d[n] \in Containers => d[n] # Null
          BY DEF Containers, Object, Array, Null
        <4> QED BY <4>1, <4>2
      <3> QED BY <3>1, <3>2
    <2> QED BY <2>4 DEF Keeps
  <1> QED BY <1>1, <1>2

(* An array that a path of words passes over is not on it.                 *)
LEMMA NotOver ==
  ASSUME NEW d, IsDocument(d), NEW p \in Seq(Words), NEW r \in Seq(Words), NEW x \in Words,
         IsPrefix(Append(r, x), p), ~IsIndex(x), d[r] = Array
  PROVE  p \notin DOMAIN d
  <1> SUFFICES ASSUME p \in DOMAIN d PROVE FALSE
    OBVIOUS
  <1> DEFINE s == Append(r, x)
  <1>1. s \in Seq(Words) /\ s # <<>> /\ Front(s) = r /\ Last(s) = x
    BY AppendIs
  <1>2. s \in Seq(Strings) /\ p \in Seq(Strings)
    BY <1>1, LeadIs
  <1> HIDE DEF s
  <1>3. IsPrefix(s, p)
    BY DEF s
  <1>4. s \in DOMAIN d
    BY <1>2, <1>3, AboveIsContainer
  <1> QED BY <1>1, <1>4, NodeIs

(* The leaf that a path of words spells.                                   *)
LEMMA CleanSpells ==
  ASSUME NEW doc, NEW f \in Seq(Words), f # <<>>, NEW k \in Seq(Spelled), PathOf(doc, f) = k
  PROVE  Split(k) = f /\ k = Lead(doc) \o f
  <1>1. k = Lead(doc) \o f
    BY PathClean
  <1>2. CASE Lead(doc) = <<>>
    <2>1. k = f
      BY <1>1, <1>2
    <2> QED BY <1>1, <2>1, SplitIs
  <1>3. CASE Lead(doc) = <<NoName>>
    BY <1>1, <1>3, SplitIs
  <1> QED BY <1>2, <1>3, LeadIs

(* No step of a plan that reaches its end passes over an array: a change   *)
(* finds its path, and what was added would not be found at the end.       *)
LEMMA OneStraight ==
  ASSUME NEW o, IsDocument(o), NEW d, IsDocument(d), NEW e, NEW z, IsDocument(z),
         NEW a, a.key \in Seq(Spelled), Went(d, e, a),
         \A r \in DOMAIN e : e[r] = Array => z[r] = Array,
         \A n \in DOMAIN z : n \notin Seq(Words) => Old(o, z, n),
         a.add => a.key \notin DOMAIN Flatten(o), a.key \in DOMAIN Flatten(z)
  PROVE  Straight(d, e, a)
  <1>1. PICK p \in Seq(Words) : p = Split(a.key)
    BY SplitIs
  <1>2. CASE p = <<>>
    BY <1>1, <1>2 DEF Went, Straight
  <1>3. CASE p # <<>>
    <2>1. PICK q \in Seq(Words) : Written(d, e, p, q, a.to)
      BY <1>1, <1>3 DEF Went
    <2>2. CASE q = p
      BY <1>1, <1>3, <2>1, <2>2 DEF Straight
    <2>3. CASE q # p
      <3>1. PICK r \in Seq(Words), x \in Words : Over(e, q, p, r, x) /\ r # q
        BY <2>1, <2>3 DEF Written
      <3>2. r \in DOMAIN e /\ e[r] = Array /\ IsPrefix(r, q) /\ IsPrefix(Append(r, x), p) /\ ~IsIndex(x)
        BY <3>1 DEF Over
      <3>3. CASE ~a.add
        <4>1. p \in DOMAIN d
          BY <1>1, <3>3 DEF Went
        <4>2. p \in Seq(Strings) /\ r \in Seq(Strings) /\ q \in Seq(Strings)
          BY LeadIs
        <4>3. IsPrefix(r, p) /\ r # p
          <5>1. Append(r, x) \in Seq(Words) /\ Len(Append(r, x)) = Len(r) + 1 /\ Len(r) \in Nat
            BY AppendIs, LenProperties
          <5>2. IsPrefix(r, Append(r, x))
            BY PrefixSelf, PrefixOfAppend
          <5>3. IsPrefix(r, p)
            BY <3>2, <5>1, <5>2, PrefixTransitive
          <5>4. Len(r) + 1 <= Len(p)
            <6>1. IsPrefix(Append(r, x), p)
              BY <3>2
            <6>2. Len(Append(r, x)) <= Len(p)
              BY <5>1, <6>1, PrefixLength
            <6> QED BY ONLY <5>1, <6>2
          <5> QED BY <5>1, <5>3, <5>4
        <4>4. r \in DOMAIN d /\ d[r] \in Containers
          BY <4>1, <4>2, <4>3, AboveIsContainer
        <4>5. ~IsPrefix(q, r)
          <5>1. Len(r) <= Len(q) /\ Len(r) \in Nat /\ Len(q) \in Nat
            BY <3>2, PrefixLength
          <5>2. IsPrefix(q, r) => q = r
            BY <5>1, PrefixLength
          <5> QED BY <3>1, <5>2
        <4>6. e[r] = d[r]
          BY <2>1, <4>4, <4>5 DEF Written, Containers, Object, Array, Null
        <4>7. d[r] = Array
          BY <3>2, <4>6
        <4>8. p \notin DOMAIN d
          BY <3>2, <4>7, NotOver
        <4> QED BY <4>1, <4>8
      <3>4. CASE a.add
        <4>1. z[r] = Array
          BY <3>2
        <4>2. PICK f : FlatBy(z, a.key, f)
          BY FlatHas
        <4>3. f \in Leaves(z) /\ PathOf(z, f) = a.key
          BY <4>2 DEF FlatBy, LastIn, Alike
        <4>4. f \in DOMAIN z /\ f # <<>>
          BY <4>3 DEF Leaves
        <4>5. CASE f \in Seq(Words)
          <5>1. f = p
            BY <1>1, <4>3, <4>4, <4>5, CleanSpells
          <5>2. p \notin DOMAIN z
            BY <3>2, <4>1, NotOver
          <5> QED BY <4>4, <5>1, <5>2
        <4>6. CASE f \notin Seq(Words)
          <5>1. Old(o, z, f)
            BY <4>4, <4>6
          <5>2. f \in Leaves(o) /\ PathOf(o, f) = a.key
            BY <4>3, <5>1, OldLeaf
          <5>3. a.key \in DOMAIN Flatten(o)
            BY <5>2, FlatKey
          <5> QED BY <3>4, <5>3
        <4> QED BY <4>5, <4>6
      <3> QED BY <3>3, <3>4
    <2> QED BY <2>2, <2>3
  <1> QED BY <1>2, <1>3

-------------------------------------------------------------------------------
(* What a plan leaves alone.                                               *)

(* A node that is not made of words is as old as the document.            *)
LEMMA WentOld ==
  ASSUME NEW d, IsDocument(d), NEW e, NEW a, Went(d, e, a), NEW n \in DOMAIN e, n \notin Seq(Words)
  PROVE  Old(d, e, n)
  <1>1. CASE e = d
    BY <1>1, OldSelf
  <1>2. CASE e # d
    <2>1. PICK q \in Seq(Words) : Written(d, e, Split(a.key), q, a.to)
      BY <1>2 DEF Went
    <2> QED BY <2>1, OldNode
  <1> QED BY <1>1, <1>2

(* The documents that the steps of a plan lead through.                    *)
Chain(c, plan) ==
  /\ \A m \in 0..Len(plan) : IsDocument(c[m])
  /\ \A m \in 1..Len(plan) : Went(c[m - 1], c[m], plan[m])

(* A plan that was applied is such a chain.                               *)
LEMMA ChainIs ==
  ASSUME NEW X, {Null, Object, Array} \subseteq X, NEW d \in Docs(X), NEW plan \in Seq(Doable(X)),
         \A i \in 1..Len(plan) : ~plan[i].add => plan[i].from \notin Containers,
         Apply(d, plan).ok
  PROVE  \E c : c[0] = d /\ c[Len(plan)] = Apply(d, plan).doc /\ Chain(c, plan)
  <1>1. PICK it : AppliedBy(it, X, d, plan)
    BY ApplyFolds
  <1>2. PICK n \in Nat : n = Len(plan)
    BY LenProperties
  <1>3. /\ it[0] = Start(d) /\ Apply(d, plan) = it[n]
        /\ \A m \in 1..n : it[m] = Done(it[m - 1], plan[m])
        /\ \A m \in 0..n : it[m] \in Accs(X)
    BY <1>1, <1>2 DEF AppliedBy
  <1>4. \A m \in 1..n : plan[m] \in Doable(X) /\ m - 1 \in 0..n /\ m \in 0..n
    BY <1>2, ElementOfSeq
  <1>5. ASSUME NEW m \in 1..n, it[m].ok
        PROVE  it[m - 1].ok /\ Went(it[m - 1].doc, it[m].doc, plan[m])
    <2>1. PICK acc \in Accs(X) : acc = it[m - 1]
      BY <1>3, <1>4
    <2>2. PICK a \in Doable(X) : a = plan[m] /\ (~a.add => a.from \notin Containers)
      BY <1>2, <1>4
    <2>3. it[m] = Done(acc, a)
      BY <1>3, <2>1, <2>2
    <2>4. acc.ok /\ Went(acc.doc, Done(acc, a).doc, a)
      BY <1>5, <2>2, <2>3, DoneWent
    <2> QED BY <2>1, <2>2, <2>3, <2>4
  <1>6. \A m \in 0..n : it[m].ok
    <2> DEFINE T == {j \in Nat : j <= n => it[n - j].ok}
    <2>1. 0 \in T
      <3>1. n - 0 = n
        OBVIOUS
      <3>2. it[n - 0].ok
        BY <1>3, <3>1
      <3> QED BY <3>2
    <2>2. ASSUME NEW j \in Nat, j \in T PROVE j + 1 \in T
      <3> SUFFICES ASSUME j + 1 <= n PROVE it[n - (j + 1)].ok
        OBVIOUS
      <3>1. n - j \in 1..n /\ n - (j + 1) = (n - j) - 1 /\ it[n - j].ok
        BY <2>2
      <3> QED BY <1>5, <3>1
    <2> HIDE DEF T
    <2>3. Nat \subseteq T
      BY <2>1, <2>2, SetInduction
    <2>4. ASSUME NEW m \in 0..n PROVE it[m].ok
      <3>1. n - m \in Nat /\ n - m <= n /\ n - (n - m) = m
        OBVIOUS
      <3>2. n - m \in T
        BY <2>3, <3>1
      <3>3. it[n - (n - m)].ok
        BY <3>1, <3>2 DEF T
      <3> QED BY <3>1, <3>3
    <2> QED BY <2>4
  <1> DEFINE c == [m \in 0..n |-> it[m].doc]
  <1>7. c[0] = d /\ c[n] = Apply(d, plan).doc
    <2>1. 0 \in 0..n /\ n \in 0..n
      OBVIOUS
    <2> QED BY <1>3, <2>1 DEF Start
  <1>8. Chain(c, plan)
    <2>1. \A m \in 0..n : IsDocument(c[m])
      <3>1. \A m \in 0..n : it[m].doc \in Docs(X)
        BY <1>3 DEF Accs
      <3> QED BY <3>1, DocsAre
    <2>2. \A m \in 1..n : Went(c[m - 1], c[m], plan[m])
      BY <1>4, <1>5, <1>6
    <2> HIDE DEF c
    <2> QED BY <1>2, <2>1, <2>2 DEF Chain
  <1> HIDE DEF c
  <1> QED BY <1>2, <1>7, <1>8

(* Along it, nodes that are not made of words stay old.                   *)
LEMMA ChainOld ==
  ASSUME NEW c, NEW S, NEW plan \in Seq(S), Chain(c, plan), NEW j \in 0..Len(plan),
         NEW o \in DOMAIN c[j], o \notin Seq(Words)
  PROVE  Old(c[0], c[j], o)
  <1>1. PICK n \in Nat : n = Len(plan)
    BY LenProperties
  <1>2. /\ \A m \in 0..n : IsDocument(c[m])
        /\ \A m \in 1..n : Went(c[m - 1], c[m], plan[m])
    BY <1>1 DEF Chain
  <1> DEFINE T == {m \in Nat : m <= n => \A x \in DOMAIN c[m] : x \notin Seq(Words) => Old(c[0], c[m], x)}
  <1>3. 0 \in T
    BY OldSelf
  <1>4. ASSUME NEW m \in Nat, m \in T PROVE m + 1 \in T
    <2> SUFFICES ASSUME m + 1 <= n, NEW x \in DOMAIN c[m + 1], x \notin Seq(Words)
                 PROVE  Old(c[0], c[m + 1], x)
      OBVIOUS
    <2>1. m + 1 \in 1..n /\ (m + 1) - 1 = m /\ m \in 0..n /\ m <= n
      OBVIOUS
    <2>2. Went(c[m], c[m + 1], plan[m + 1]) /\ IsDocument(c[m])
      BY <1>2, <2>1
    <2>3. Old(c[m], c[m + 1], x)
      BY <2>2, WentOld
    <2>4. x \in DOMAIN c[m]
      BY <2>3 DEF Old
    <2>5. Old(c[0], c[m], x)
      BY <1>4, <2>1, <2>4
    <2> QED BY <2>3, <2>5, OldOn
  <1> HIDE DEF T
  <1>5. Nat \subseteq T
    BY <1>3, <1>4, SetInduction
  <1>6. j \in Nat /\ j <= n
    BY <1>1
  <1> QED BY <1>5, <1>6 DEF T

(* What stays from a document to a later one.                              *)
Stays(d, e) == \A r \in DOMAIN d : d[r] \in Containers => r \in DOMAIN e /\ e[r] = d[r]

(* Where the desired keys are reached in the end, every action went       *)
(* straight to its target.                                                *)
LEMMA AllStraight ==
  ASSUME NEW c, NEW S, NEW plan \in Seq(S), Chain(c, plan), NEW n \in Nat, n = Len(plan),
         \A m \in 1..n : plan[m].key \in Seq(Spelled) /\ plan[m].key \in DOMAIN Flatten(c[n]),
         \A m \in 1..n : plan[m].add => plan[m].key \notin DOMAIN Flatten(c[0])
  PROVE  \A m \in 1..n : Straight(c[m - 1], c[m], plan[m])
  <1>2. /\ \A m \in 0..n : IsDocument(c[m])
        /\ \A m \in 1..n : Went(c[m - 1], c[m], plan[m])
    BY DEF Chain
  <1>3. \A o \in DOMAIN c[n] : o \notin Seq(Words) => Old(c[0], c[n], o)
    <2>1. n \in 0..Len(plan)
      OBVIOUS
    <2> QED BY <2>1, ChainOld
  <1> DEFINE Line(m) == Straight(c[m - 1], c[m], plan[m])
             T == {j \in Nat : j <= n => /\ \A m \in 1..n : m > n - j => Line(m)
                                         /\ Stays(c[n - j], c[n])}
  <1>4. 0 \in T
    <2>1. n - 0 = n /\ \A m \in 1..n : ~(m > n)
      OBVIOUS
    <2>2. Stays(c[n], c[n])
      BY DEF Stays
    <2> HIDE DEF Line
    <2>3. (\A m \in 1..n : m > n - 0 => Line(m)) /\ Stays(c[n - 0], c[n])
      BY <2>1, <2>2
    <2> QED BY <2>3
  <1>5. ASSUME NEW j \in Nat, j \in T PROVE j + 1 \in T
    <2> HIDE DEF Line
    <2>0. SUFFICES ASSUME j + 1 <= n
                   PROVE  /\ \A m \in 1..n : m > n - (j + 1) => Line(m)
                          /\ Stays(c[n - (j + 1)], c[n])
      OBVIOUS
    <2>1. PICK i \in 1..n : i = n - j /\ i \in 0..n /\ i - 1 \in 0..n /\ n - (j + 1) = i - 1 /\ n \in 0..n
      <3>1. n - j \in 1..n /\ n - j \in 0..n /\ (n - j) - 1 \in 0..n /\ n - (j + 1) = (n - j) - 1 /\ n \in 0..n
        BY <2>0
      <3> QED BY <3>1
    <2>2. Stays(c[i], c[n]) /\ \A m \in 1..n : m > i => Line(m)
      BY <1>5, <2>0, <2>1
    <2>3. Straight(c[i - 1], c[i], plan[i])
      <3>1. /\ IsDocument(c[0]) /\ IsDocument(c[i - 1]) /\ IsDocument(c[n])
            /\ Went(c[i - 1], c[i], plan[i])
        <4>1. 0 \in 0..n /\ i - 1 \in 0..n /\ n \in 0..n
          BY <2>1
        <4>2. IsDocument(c[0]) /\ IsDocument(c[i - 1]) /\ IsDocument(c[n])
          BY ONLY <1>2, <4>1, Zenon
        <4>3. Went(c[i - 1], c[i], plan[i])
          BY ONLY <1>2, i \in 1..n, Zenon
        <4> QED BY <4>2, <4>3, Zenon
      <3>2. \A r \in DOMAIN c[i] : c[i][r] = Array => c[n][r] = Array
        BY <2>2 DEF Stays, Containers
      <3>3. plan[i].key \in Seq(Spelled) /\ plan[i].key \in DOMAIN Flatten(c[n])
            /\ (plan[i].add => plan[i].key \notin DOMAIN Flatten(c[0]))
        OBVIOUS
      <3> QED BY <1>3, <3>1, <3>2, <3>3, OneStraight
    <2>4. Keeps(c[i - 1], c[i], plan[i])
      <3>1. Split(plan[i].key) \in Seq(Words)
        BY SplitIs
      <3>2. IsDocument(c[i - 1]) /\ Went(c[i - 1], c[i], plan[i])
        BY <1>2, <2>1
      <3> QED BY <2>3, <3>1, <3>2, StraightKeeps
    <2>5. Stays(c[i - 1], c[n])
      BY <2>2, <2>4 DEF Stays, Keeps
    <2>6. \A m \in 1..n : m > i - 1 => m = i \/ m > i
      BY <2>1
    <2>7. Line(i)
      BY <2>3 DEF Line
    <2>8. \A m \in 1..n : m > i - 1 => Line(m)
      BY <2>2, <2>6, <2>7
    <2> QED BY <2>1, <2>5, <2>8
  <1> HIDE DEF T
  <1>6. n \in T
    BY <1>4, <1>5, SetInduction
  <1>7. \A m \in 1..n : m > n - n => Line(m)
    <2> HIDE DEF Line
    <2> QED BY <1>6 DEF T
  <1> QED BY <1>7

(* What a plan leaves as it was.                                           *)
Remains(d, e, plan) ==
  \A o \in DOMAIN d :
    /\ o \in DOMAIN e
    /\ d[o] \in Containers => e[o] = d[o]
    /\ o \notin Seq(Words) => e[o] = d[o]
    /\ d[o] # Null /\ (o = <<>> \/ \A m \in 1..Len(plan) : plan[m].add \/ Split(plan[m].key) # o) => e[o] = d[o]

(* So all but the targets and nulls remain.                               *)
LEMMA PlanKeeps ==
  ASSUME NEW c, NEW S, NEW plan \in Seq(S), Chain(c, plan), NEW n \in Nat, n = Len(plan),
         \A m \in 1..n : Straight(c[m - 1], c[m], plan[m]) /\ plan[m].key \in Seq(Spelled)
  PROVE  Remains(c[0], c[n], plan)
  <1>1. /\ \A m \in 0..n : IsDocument(c[m])
        /\ \A m \in 1..n : Went(c[m - 1], c[m], plan[m])
    BY DEF Chain
  <1> DEFINE T == {m \in Nat : m <= n => Remains(c[0], c[m], plan)}
  <1>2. 0 \in T
    <2>1. Remains(c[0], c[0], plan)
      BY DEF Remains
    <2> QED BY <2>1
  <1>3. ASSUME NEW m \in Nat, m \in T PROVE m + 1 \in T
    <2>0. SUFFICES ASSUME m + 1 <= n PROVE Remains(c[0], c[m + 1], plan)
      OBVIOUS
    <2>1. PICK i \in 1..n : i = m + 1 /\ i - 1 = m /\ m \in 0..n /\ m <= n
      <3>1. m + 1 \in 1..n /\ (m + 1) - 1 = m /\ m \in 0..n /\ m <= n
        BY <2>0
      <3> QED BY <3>1
    <2>2. Keeps(c[m], c[i], plan[i])
      <3>1. Split(plan[i].key) \in Seq(Words)
        BY SplitIs
      <3>2. IsDocument(c[m]) /\ Went(c[m], c[i], plan[i]) /\ Straight(c[m], c[i], plan[i])
        BY <1>1, <2>1
      <3> QED BY <3>1, <3>2, StraightKeeps
    <2>3. Remains(c[0], c[m], plan)
      BY <1>3, <2>1
    <2>4. ASSUME NEW o \in DOMAIN c[0]
          PROVE  /\ o \in DOMAIN c[i]
                 /\ c[0][o] \in Containers => c[i][o] = c[0][o]
                 /\ o \notin Seq(Words) => c[i][o] = c[0][o]
                 /\ c[0][o] # Null /\ (o = <<>> \/ \A h \in 1..Len(plan) : plan[h].add \/ Split(plan[h].key) # o)
                      => c[i][o] = c[0][o]
      <3>1. /\ o \in DOMAIN c[m]
            /\ c[0][o] \in Containers => c[m][o] = c[0][o]
            /\ o \notin Seq(Words) => c[m][o] = c[0][o]
            /\ c[0][o] # Null /\ (o = <<>> \/ \A h \in 1..Len(plan) : plan[h].add \/ Split(plan[h].key) # o)
                      => c[m][o] = c[0][o]
        BY <2>3 DEF Remains
      <3>2. /\ o \in DOMAIN c[i]
            /\ c[m][o] \in Containers => c[i][o] = c[m][o]
            /\ o \notin Seq(Words) => c[i][o] = c[m][o]
            /\ (plan[i].add \/ o # Split(plan[i].key) \/ o = <<>>) /\ c[m][o] # Null => c[i][o] = c[m][o]
        BY <2>2, <3>1 DEF Keeps
      <3> QED BY <3>1, <3>2
    <2>5. Remains(c[0], c[i], plan)
      BY <2>4 DEF Remains
    <2> QED BY <2>1, <2>5
  <1> HIDE DEF T
  <1>4. n \in T
    BY <1>2, <1>3, SetInduction
  <1> QED BY <1>4 DEF T

-------------------------------------------------------------------------------
(* A repair that reached the desired document.                             *)

(* What is known of a repair that reached the desired document.            *)
Repaired(d, e, z, plan) ==
  /\ IsDocument(d) /\ IsDocument(e) /\ IsDocument(z)
  /\ DesiredReached(Flatten(z), Flatten(e))
  /\ Remains(d, z, plan)
  /\ \A o \in DOMAIN z : o \notin Seq(Words) => Old(d, z, o)
  /\ \A i \in 1..Len(plan) : Meant(plan[i], Flatten(d), Flatten(e)) /\ plan[i].key \in Seq(Spelled)

(* All of this is known of a repair that reached the desired document.    *)
LEMMA RepairedHolds ==
  ASSUME NEW d, IsDocument(d), NEW e, IsDocument(e),
         NEW plan, plan = CreatePlan(Drift(Flatten(d), Flatten(e))),
         Apply(d, plan).ok, NEW z, z = Apply(d, plan).doc,
         DesiredReached(Flatten(z), Flatten(e))
  PROVE  Repaired(d, e, z, plan)
  <1>1. PICK X : X = Values(d, e)
    OBVIOUS
  <1>2. d \in Docs(X) /\ {Null, Object, Array} \subseteq X
    BY <1>1, ValuesAre
  <1>3. plan \in Seq(Doable(X)) /\ \A i \in 1..Len(plan) : Meant(plan[i], Flatten(d), Flatten(e))
    BY <1>1, PlanFor
  <1>4. PICK n \in Nat : n = Len(plan)
    BY <1>3, LenProperties
  <1>5. \A i \in 1..n : plan[i].key \in Seq(Spelled)
    <2>1. \A i \in 1..n : plan[i] \in Doable(X)
      BY <1>3, <1>4, ElementOfSeq
    <2> QED BY <2>1 DEF Doable
  <1>6. \A i \in 1..Len(plan) : ~plan[i].add => plan[i].from \notin Containers
    <2> SUFFICES ASSUME NEW i \in 1..Len(plan), ~plan[i].add PROVE plan[i].from \notin Containers
      OBVIOUS
    <2>1. plan[i].key \in DOMAIN Flatten(d) /\ plan[i].from = Flatten(d)[plan[i].key]
      BY <1>3 DEF Meant
    <2> QED BY <2>1, FlatValue
  <1>7. PICK c : c[0] = d /\ c[n] = z /\ Chain(c, plan)
    <2>1. \E c : c[0] = d /\ c[Len(plan)] = Apply(d, plan).doc /\ Chain(c, plan)
      BY <1>2, <1>3, <1>6, ChainIs
    <2> QED BY <1>4, <2>1
  <1>8. IsDocument(z) /\ \A o \in DOMAIN z : o \notin Seq(Words) => Old(d, z, o)
    <2>1. n \in 0..Len(plan)
      BY <1>4
    <2>2. IsDocument(c[n])
      BY <1>7, <2>1 DEF Chain
    <2>3. \A o \in DOMAIN c[n] : o \notin Seq(Words) => Old(c[0], c[n], o)
      BY <1>3, <1>7, <2>1, ChainOld
    <2> QED BY <1>7, <2>2, <2>3
  <1>9. \A m \in 1..n : Straight(c[m - 1], c[m], plan[m])
    <2>1. \A m \in 1..n : plan[m].key \in Seq(Spelled) /\ plan[m].key \in DOMAIN Flatten(c[n])
      BY <1>3, <1>4, <1>5, <1>7 DEF Meant, DesiredReached
    <2>2. \A m \in 1..n : plan[m].add => plan[m].key \notin DOMAIN Flatten(c[0])
      BY <1>3, <1>4, <1>7 DEF Meant
    <2> QED BY <1>3, <1>4, <1>7, <2>1, <2>2, AllStraight
  <1>10. Remains(d, z, plan)
    <2>1. \A m \in 1..n : Straight(c[m - 1], c[m], plan[m]) /\ plan[m].key \in Seq(Spelled)
      BY <1>5, <1>9
    <2>2. Remains(c[0], c[n], plan)
      BY <1>3, <1>4, <1>7, <2>1, PlanKeeps
    <2> QED BY <1>7, <2>2
  <1> QED BY <1>3, <1>4, <1>5, <1>8, <1>10 DEF Repaired

(* Its paths begin as before.                                             *)
LEMMA SameLead ==
  ASSUME NEW d, NEW e, NEW z, NEW plan, Repaired(d, e, z, plan), NEW n \in DOMAIN d, n # <<>>
  PROVE  Lead(d) = Lead(z)
  <1>1. IsDocument(d) /\ n \in Seq(Strings) /\ <<>> \in Seq(Strings) /\ IsPrefix(<<>>, n)
    <2>1. IsDocument(d)
      BY DEF Repaired
    <2>2. n \in Seq(Strings)
      BY <2>1, NodeIs
    <2>3. <<>> \in Seq(Strings)
      OBVIOUS
    <2> QED BY <2>1, <2>2, <2>3, PrefixSelf
  <1>2. <<>> \in DOMAIN d /\ d[<<>>] \in Containers
    BY <1>1, AboveIsContainer
  <1>3. z[<<>>] = d[<<>>]
    BY <1>2 DEF Repaired, Remains
  <1> QED BY <1>3 DEF Lead

(* A leaf of both documents that is spelled the same in both.              *)
LEMMA UncleanShared ==
  ASSUME NEW d, NEW e, NEW z, NEW plan, Repaired(d, e, z, plan), NEW k, NEW f, f \notin Seq(Words)
  PROVE  /\ f \in Alike(d, k) <=> f \in Alike(z, k)
         /\ f \in Alike(d, k) => Old(d, z, f)
  <1>0. IsDocument(d) /\ IsDocument(z)
    BY DEF Repaired
  <1>1. ASSUME f \in Alike(d, k) PROVE f \in Alike(z, k) /\ Old(d, z, f)
    <2>1. f \in DOMAIN d /\ f # <<>> /\ d[f] \notin Containers /\ PathOf(d, f) = k
      BY <1>1 DEF Alike, Leaves
    <2>2. f \in DOMAIN z /\ z[f] = d[f]
      BY <2>1 DEF Repaired, Remains
    <2>3. Old(d, z, f)
      BY <2>2 DEF Repaired
    <2>4. f \in Leaves(z)
      BY <2>1, <2>2 DEF Leaves
    <2>5. PathOf(z, f) = k
      BY <1>0, <2>1, <2>3, <2>4, OldLeaf
    <2> QED BY <2>3, <2>4, <2>5 DEF Alike
  <1>2. ASSUME f \in Alike(z, k) PROVE f \in Alike(d, k)
    <2>1. f \in DOMAIN z /\ f \in Leaves(z) /\ PathOf(z, f) = k
      BY <1>2 DEF Alike, Leaves
    <2>2. Old(d, z, f)
      BY <2>1 DEF Repaired
    <2>3. f \in Leaves(d) /\ PathOf(d, f) = k
      BY <1>0, <2>1, <2>2, OldLeaf
    <2> QED BY <2>3 DEF Alike
  <1> QED BY <1>1, <1>2

(* A leaf made of words is where its path leads.                          *)
LEMMA CleanLeaf ==
  ASSUME NEW d, IsDocument(d), NEW k \in Seq(Spelled), NEW f \in Alike(d, k), f \in Seq(Words)
  PROVE  Split(k) = f /\ k = Lead(d) \o f
  <1>1. f # <<>> /\ PathOf(d, f) = k
    BY DEF Alike, Leaves
  <1> QED BY <1>1, CleanSpells

(* Every node that is not spelled like a desired key is left as it was: a  *)
(* change that hit it would have been for another leaf of the same         *)
(* spelling, and that leaf would still have its old value.                 *)
LEMMA NodeKept ==
  ASSUME NEW d, NEW e, NEW z, NEW plan, Repaired(d, e, z, plan),
         NEW n \in DOMAIN d, d[n] # Null, PathOf(d, n) \notin DOMAIN Flatten(e)
  PROVE  n \in DOMAIN z /\ z[n] = d[n]
  <1>0. IsDocument(d) /\ IsDocument(e) /\ IsDocument(z)
    BY DEF Repaired
  <1>1. n \in DOMAIN z
    BY DEF Repaired, Remains
  <1> SUFFICES ASSUME z[n] # d[n] PROVE FALSE
    BY <1>1
  <1>2. PICK m \in 1..Len(plan) : n # <<>> /\ ~plan[m].add /\ Split(plan[m].key) = n
    <2>1. ~(n = <<>> \/ \A m \in 1..Len(plan) : plan[m].add \/ Split(plan[m].key) # n)
      BY <1>1 DEF Repaired, Remains
    <2> QED BY <2>1
  <1>3. PICK k \in Seq(Spelled) : k = plan[m].key
    BY DEF Repaired
  <1>4. n \in Seq(Words) /\ Lead(d) = Lead(z) /\ PathOf(d, n) = Lead(d) \o n
    <2>1. n \in Seq(Words)
      BY <1>2, <1>3, SplitIs
    <2> QED BY <1>2, <2>1, SameLead, PathClean
  <1>5. k \in DOMAIN Flatten(e) /\ k \in DOMAIN Flatten(d) /\ Flatten(d)[k] # Flatten(e)[k]
    BY <1>2, <1>3 DEF Repaired, Meant
  <1>6. k \in DOMAIN Flatten(z) /\ Flatten(z)[k] = Flatten(e)[k]
    BY <1>5 DEF Repaired, DesiredReached
  <1>7. k # Lead(d) \o n
    BY <1>4, <1>5
  <1>8. \A f \in Alike(d, k) \cup Alike(z, k) : f \notin Seq(Words)
    <2> SUFFICES ASSUME NEW f \in Alike(d, k) \cup Alike(z, k), f \in Seq(Words) PROVE FALSE
      OBVIOUS
    <2>1. CASE f \in Alike(d, k)
      <3>1. Split(k) = f /\ k = Lead(d) \o f
        BY <1>0, <2>1, CleanLeaf
      <3> QED BY <1>2, <1>3, <1>7, <3>1
    <2>2. CASE f \in Alike(z, k)
      <3>1. Split(k) = f /\ k = Lead(z) \o f
        BY <1>0, <2>2, CleanLeaf
      <3> QED BY <1>2, <1>3, <1>4, <1>7, <3>1
    <2> QED BY <2>1, <2>2
  <1>9. Alike(d, k) = Alike(z, k) /\ \A f \in Alike(d, k) : Old(d, z, f)
    <2>1. ASSUME NEW f PROVE (f \in Alike(d, k) <=> f \in Alike(z, k)) /\ (f \in Alike(d, k) => Old(d, z, f))
      <3>1. CASE f \in Seq(Words)
        BY <1>8, <3>1
      <3>2. CASE f \notin Seq(Words)
        BY <3>2, UncleanShared
      <3> QED BY <3>1, <3>2
    <2> QED BY <2>1
  <1>10. PICK f : FlatBy(d, k, f)
    BY <1>0, <1>5, FlatHas
  <1>11. f \in Alike(d, k) /\ Flatten(d)[k] = d[f] /\ \A g \in Alike(d, k) \ {f} : VisitedBefore(d, g, f)
    BY <1>10 DEF FlatBy, LastIn
  <1>12. \A g \in Alike(z, k) \ {f} : VisitedBefore(z, g, f)
    <2> SUFFICES ASSUME NEW g \in Alike(d, k), g # f PROVE VisitedBefore(z, g, f)
      BY <1>9
    <2>1. g \in Leaves(d) /\ f \in Leaves(d) /\ Ups(d, z, g) /\ VisitedBefore(d, g, f)
      BY <1>9, <1>11 DEF Alike, Old
    <2> QED BY <1>0, <2>1, SameVisits
  <1>13. f \in Leaves(z) /\ LastIn(z, Alike(z, k), f) /\ z[f] = d[f]
    <2>1. f \in Alike(z, k) /\ z[f] = d[f]
      BY <1>9, <1>11 DEF Old
    <2>2. f \in Leaves(z)
      BY <2>1 DEF Alike
    <2> QED BY <1>12, <2>1, <2>2 DEF LastIn
  <1>14. Flatten(z)[k] = d[f]
    BY <1>0, <1>13, FlatFrom DEF FlatBy
  <1> QED BY <1>5, <1>6, <1>11, <1>14

(* A path l o g, and a beginning of it that is spelled otherwise.         *)
Spells(l, o, w, g, b, u, k) ==
  /\ l \in Seq(Strings) /\ o \in Seq(Strings) /\ w \in Seq(Strings) /\ w # <<>> /\ g \in Seq(Strings)
  /\ b = l \o o /\ u = b \o w /\ k = l \o g /\ IsPrefix(u, k)
(* The beginning again, in the terms of g.                                *)
Agrees(g, w, o) ==
  Len(o) + 1 \in 1..Len(g) /\ g[Len(o) + 1] = w[1] /\ \A j \in 1..Len(o) : g[j] = o[j]

(* What a path spells begins with what a beginning of it spells.           *)
LEMMA SpelledAlike ==
  ASSUME NEW l, NEW o, NEW w, NEW g, NEW b, NEW u, NEW k, Spells(l, o, w, g, b, u, k)
  PROVE  Agrees(g, w, o)
  <1> l \in Seq(Strings) /\ o \in Seq(Strings) /\ w \in Seq(Strings) /\ w # <<>> /\ g \in Seq(Strings)
      /\ b = l \o o /\ u = b \o w /\ k = l \o g /\ IsPrefix(u, k)
    BY DEF Spells
  <1>0. PICK i \in Nat : i = Len(o) + 1
    BY LenProperties
  <1>1. PICK n \in Nat : n = Len(l)
    BY LenProperties
  <1>2. PICK m \in Nat : m = Len(g)
    BY LenProperties
  <1>3. PICK h \in Nat : h = Len(w) /\ h >= 1
    <2>1. Len(w) \in Nat /\ Len(w) # 0
      BY LenProperties, EmptySeq
    <2> QED BY <2>1
  <1>4. /\ b \in Seq(Strings) /\ Len(b) = n + Len(o)
        /\ \A j \in 1..Len(o) : b[n + j] = o[j]
    BY <1>1, Joined
  <1>5. PICK p \in Nat : p = Len(o) /\ i = p + 1
    BY <1>0, LenProperties
  <1>6. Len(b) = n + p /\ \A j \in 1..p : b[n + j] = o[j]
    BY <1>4, <1>5
  <1>7. /\ u \in Seq(Strings) /\ Len(u) = Len(b) + Len(w)
        /\ \A j \in 1..Len(b) : u[j] = b[j]
        /\ \A j \in 1..Len(w) : u[Len(b) + j] = w[j]
    <2>1. b \in Seq(Strings)
      BY <1>4
    <2>2. /\ b \o w \in Seq(Strings) /\ Len(b \o w) = Len(b) + Len(w)
          /\ \A j \in 1..Len(b) : (b \o w)[j] = b[j]
          /\ \A j \in 1..Len(w) : (b \o w)[Len(b) + j] = w[j]
      BY <2>1, Joined
    <2> QED BY <2>2
  <1>8. /\ Len(u) = n + p + h
        /\ \A j \in 1..p : u[n + j] = o[j]
        /\ u[n + i] = w[1]
    <2>1. Len(u) = n + p + h
      BY <1>3, <1>6, <1>7
    <2>2. \A j \in 1..p : u[n + j] = o[j]
      <3> TAKE j \in 1..p
      <3>1. n + j \in 1..Len(b)
        BY <1>6
      <3> QED BY <1>6, <1>7, <3>1
    <2>3. u[n + i] = w[1]
      <3>1. 1 \in 1..Len(w) /\ Len(b) + 1 = n + i
        BY <1>3, <1>5, <1>6
      <3>2. u[Len(b) + 1] = w[1]
        BY <1>7, <3>1
      <3> QED BY <3>1, <3>2
    <2> QED BY <2>1, <2>2, <2>3
  <1>9. /\ k \in Seq(Strings) /\ Len(k) = Len(l) + Len(g)
        /\ \A j \in 1..Len(g) : k[Len(l) + j] = g[j]
    BY Joined
  <1>91. /\ k \in Seq(Strings) /\ Len(k) = n + m
         /\ \A j \in 1..m : k[n + j] = g[j]
    BY <1>1, <1>2, <1>9
  <1>10. Len(u) <= Len(k) /\ \A j \in 1..Len(u) : u[j] = k[j]
    <2>1. u \in Seq(Strings) /\ k \in Seq(Strings) /\ IsPrefix(u, k)
      BY <1>7, <1>91
    <2> QED BY ONLY <2>1, PrefixByElements
  <1>11. i \in 1..m
    BY <1>3, <1>5, <1>8, <1>91, <1>10
  <1>12. g[i] = w[1]
    <2>1. n + i \in 1..Len(u)
      BY <1>3, <1>5, <1>8
    <2>2. u[n + i] = k[n + i]
      BY <1>10, <2>1
    <2>3. k[n + i] = g[i]
      BY <1>91, <1>11
    <2> QED BY <1>8, <2>2, <2>3
  <1>13. ASSUME NEW j \in 1..(i - 1) PROVE g[j] = o[j]
    <2>1. j \in 1..p /\ j \in 1..m /\ n + j \in 1..Len(u)
      <3>1. j \in Nat /\ j >= 1 /\ j <= p /\ j <= m
        BY <1>5, <1>11
      <3>2. Len(u) = n + p + h /\ h \in Nat
        BY <1>3, <1>8
      <3> QED BY <3>1, <3>2
    <2>2. u[n + j] = k[n + j]
      BY <1>10, <2>1
    <2>3. k[n + j] = g[j]
      BY <1>91, <2>1
    <2> QED BY <1>8, <2>1, <2>2, <2>3
  <1>14. i - 1 = Len(o)
    BY <1>0, <1>5
  <1> QED BY <1>0, <1>2, <1>11, <1>12, <1>13, <1>14 DEF Agrees

(* A name with a dot in it is visited after the names it is spelled with.  *)
LEMMA UncleanLater ==
  ASSUME NEW z, IsDocument(z), NEW f \in Leaves(z), f \notin Seq(Words), f[1] # NoName,
         NEW g \in Leaves(z), g \in Seq(Words), PathOf(z, f) = PathOf(z, g)
  PROVE  VisitedBefore(z, g, f)
  <1>1. f \in Seq(Strings) /\ f \in DOMAIN z /\ g \in Seq(Strings) /\ g # <<>>
    BY NodeIs DEF Leaves
  <1>2. PICK i \in Nat : i \in 1..Len(f) /\ f[i] \notin Words /\ \A j \in 1..(i - 1) : f[j] \in Words
    <2> DEFINE B == {j \in 1..Len(f) : f[j] \notin Words}
    <2>1. Len(f) \in Nat
      BY <1>1, LenProperties
    <2>2. B # {}
      <3> SUFFICES ASSUME \A j \in 1..Len(f) : f[j] \in Words PROVE f \in Seq(Words)
        OBVIOUS
      <3>1. f = [j \in 1..Len(f) |-> f[j]]
        BY <1>1, LenProperties
      <3> QED BY <2>1, <3>1
    <2>3. B \in SUBSET Nat
      BY <2>1
    <2>4. PICK i \in B : \A j \in B : i <= j
      BY <2>2, <2>3, LeastNatural
    <2>5. i \in Nat /\ i \in 1..Len(f) /\ f[i] \notin Words
      BY <2>3, <2>4
    <2>6. \A j \in 1..(i - 1) : f[j] \in Words
      <3> TAKE j \in 1..(i - 1)
      <3>1. j \in 1..Len(f) /\ ~(i <= j)
        BY <2>1, <2>5
      <3> QED BY <2>4, <3>1
    <2> QED BY <2>5, <2>6
  <1> DEFINE o == SubSeq(f, 1, i - 1)
             u == SubSeq(f, 1, i)
             x == f[i]
  <1>3. /\ o \in DOMAIN z /\ o \in Seq(Strings) /\ x \in Strings /\ Len(o) = i - 1
        /\ z[o] = Array => IsIndex(x)
        /\ u = Append(o, x) /\ u \in DOMAIN z
    BY <1>1, <1>2, UpTo
  <1>4. \A j \in 1..(i - 1) : o[j] = f[j]
    <2>1. PICK h \in Nat : h = i - 1 /\ h <= Len(f) /\ \A j \in 1..h : f[j] \in Strings
      <3>1. i - 1 \in Nat /\ i - 1 <= Len(f) /\ Len(f) \in Nat /\ \A j \in 1..(i - 1) : j \in 1..Len(f)
        BY <1>1, <1>2, LenProperties
      <3> QED BY <1>1, <3>1, ElementOfSeq
    <2>2. \A j \in 1..h : SubSeq(f, 1, h)[j] = f[j]
      BY <1>1, <2>1, SubSeqProperties
    <2> QED BY <2>1, <2>2
  <1>5. IsPrefix(u, f)
    <2>1. u \in Seq(Strings) /\ Len(u) = i /\ \A j \in 1..i : u[j] = f[j]
      <3>1. Len(f) \in Nat /\ i <= Len(f) /\ \A j \in 1..i : f[j] \in Strings
        BY <1>1, <1>2, LenProperties, ElementOfSeq
      <3> QED BY <1>1, <3>1, SubSeqProperties
    <2>2. i <= Len(f)
      BY <1>1, <1>2, LenProperties
    <2> HIDE DEF u
    <2> QED BY <1>1, <2>1, <2>2, PrefixByElements
  <1>51. u \in Seq(Strings)
    BY <1>3, NodeIs
  <1> HIDE DEF o, u
  <1>6. x \notin Words /\ (x = NoName \/ x \in DOMAIN Dotted) /\ z[o] # Array
    <2>1. x \notin Words
      BY <1>2
    <2>2. x = NoName \/ x \in DOMAIN Dotted
      BY <1>3, <2>1 DEF Words, NoName
    <2>3. z[o] # Array
      BY <1>3, <2>1, IndexIs
    <2> QED BY <2>1, <2>2, <2>3
  <1>7. o \in Seq(Words)
    <2>1. \A j \in 1..Len(o) : o[j] \in Words
      BY <1>2, <1>3, <1>4
    <2>2. o = [j \in 1..Len(o) |-> o[j]] /\ Len(o) \in Nat
      BY <1>3, LenProperties
    <2> QED BY <2>1, <2>2
  <1>8. PICK b : b = PathOf(z, o)
    OBVIOUS
  <1>9. PICK l : l = Lead(z)
    OBVIOUS
  <1>10. b = l \o o /\ (o = <<>> => b = <<>> /\ l = <<>>) /\ b \in Seq(Spelled) /\ l \in Seq(Strings)
    <2>1. b \in Seq(Spelled) /\ l \in Seq(Strings)
      BY <1>3, <1>8, <1>9, PathGrows, LeadIs
    <2>2. CASE o = <<>>
      <3>1. b = <<>>
        BY <1>3, <1>8, <2>2, PathGrows
      <3>2. l = <<>>
        BY <1>6, <1>9, <2>2 DEF Lead
      <3> QED BY <2>1, <2>2, <3>1, <3>2
    <2>3. CASE o # <<>>
      BY <1>7, <1>8, <1>9, <2>1, <2>3, PathClean
    <2> QED BY <2>2, <2>3
  <1>11. x = NoName => o # <<>>
    <2> SUFFICES ASSUME x = NoName, o = <<>> PROVE FALSE
      OBVIOUS
    <2>1. i = 1
      BY <1>3
    <2> QED BY <2>1
  <1>12. PICK w : w = Parts(x)
    OBVIOUS
  <1>13. /\ w \in Seq(Strings) /\ w # <<>>
         /\ x = NoName => w[1] = NoName
         /\ x \in DOMAIN Dotted => w[1] = Head(Dotted[x]) /\ x # NoName
    <2>1. CASE x = NoName
      <3>1. w = <<NoName>> /\ x \notin DOMAIN Dotted
        BY <1>12, <2>1, PartsIs, DottedAssumption DEF NoName
      <3>2. NoName \in Strings
        BY <1>3, <2>1
      <3> QED BY <2>1, <3>1, <3>2
    <2>2. CASE x \in DOMAIN Dotted
      <3>1. w = Dotted[x] /\ Len(w) > 1 /\ w \in Seq(Spelled) /\ x # NoName
        BY <1>12, <2>2, PartsIs, DottedAssumption DEF NoName
      <3>2. w \in Seq(Strings)
        BY <3>1, SeqMonotonic DEF Spelled
      <3>3. w # <<>> /\ Head(w) = w[1]
        BY <3>1, <3>2, EmptySeq
      <3> QED BY <3>1, <3>2, <3>3
    <2> QED BY <1>6, <2>1, <2>2
  <1>14. PathOf(z, u) = b \o w
    <2>1. PathOf(z, u) = Stepped(z, o, b, x)
      BY <1>3, <1>8, PathGrows
    <2>2. CASE b # <<>>
      BY <1>12, <2>1, <2>2 DEF Stepped
    <2>3. CASE b = <<>>
      <3>1. x # NoName
        <4>1. CASE o = <<>>
          BY <1>11, <4>1
        <4>2. CASE o # <<>>
          <5>1. l \o o # <<>>
            BY <1>3, <1>10, <4>2, FrontOfJoined
          <5> QED BY <1>10, <2>3, <5>1
        <4> QED BY <4>1, <4>2
      <3>2. PathOf(z, u) = w
        BY <1>6, <1>12, <2>1, <2>3, <3>1 DEF Stepped
      <3>3. <<>> \o w = w
        BY <1>13
      <3> QED BY <2>3, <3>2, <3>3
    <2> QED BY <2>2, <2>3
  <1>15. PICK k : k = PathOf(z, f) /\ k = l \o g
    <2>1. PathOf(z, g) = l \o g
      BY <1>1, <1>9, PathClean
    <2> QED BY <2>1
  <1>16. IsPrefix(PathOf(z, u), k)
    BY <1>1, <1>5, <1>51, <1>15, PathPrefix
  <1>17. i = Len(o) + 1
    BY <1>3
  <1>18. PICK v : v = b \o w /\ v = PathOf(z, u)
    BY <1>14
  <1>19. i \in 1..Len(g) /\ g[i] = w[1] /\ \A j \in 1..(i - 1) : g[j] = o[j]
    <2>1. Spells(l, o, w, g, b, v, k)
      BY <1>1, <1>3, <1>10, <1>13, <1>15, <1>16, <1>18 DEF Spells
    <2>2. Agrees(g, w, o)
      BY <2>1, SpelledAlike
    <2>3. i - 1 = Len(o)
      BY <1>3
    <2> QED BY <1>17, <2>2, <2>3 DEF Agrees
  <1>20. g[i] \in Words
    BY <1>19, ElementOfSeq
  <1>21. x \in DOMAIN Dotted
    <2>1. NoName \notin Words
      BY DEF Words, NoName
    <2> QED BY <1>6, <1>13, <1>19, <1>20, <2>1
  <1>22. Rank(g[i]) < Rank(f[i])
    <2>1. Rank(Head(Dotted[x])) < Rank(x)
      BY <1>21, DottedAssumption
    <2> QED BY <1>13, <1>19, <1>21, <2>1
  <1>23. DifferAt(g, f, i)
    BY <1>2, <1>4, <1>19, <1>20 DEF DifferAt
  <1>24. g # f
    BY <1>2, <1>20
  <1>25. PICK h \in Nat : Part(z, g, f, h)
    BY <1>24, VisitIs
  <1>26. h = i
    <2>1. DifferAt(g, f, h)
      BY <1>25 DEF Part
    <2> QED BY <1>1, <1>23, <2>1, DifferHas
  <1>27. SubSeq(g, 1, i - 1) = o
    <2>1. SubSeq(g, 1, i - 1) = SubSeq(f, 1, i - 1)
      BY <1>25, <1>26 DEF Part
    <2> QED BY <2>1 DEF o
  <1>28. VisitedBefore(z, g, f) <=> Place(z, o, g[i]) < Place(z, o, f[i])
    BY <1>25, <1>26, <1>27 DEF Part
  <1> QED BY <1>6, <1>22, <1>28 DEF Place

(* What leads to a node of the repaired document is of the kind it was.    *)
LEMMA UpsRemain ==
  ASSUME NEW d, IsDocument(d), NEW z, NEW plan, Remains(d, z, plan), NEW n \in DOMAIN d
  PROVE  Ups(d, z, n)
  <1> SUFFICES ASSUME NEW m \in Seq(Strings), IsPrefix(m, n), m # n PROVE d[m] = Array <=> z[m] = Array
    BY DEF Ups
  <1>1. m \in DOMAIN d /\ d[m] \in Containers
    BY AboveIsContainer
  <1> QED BY <1>1 DEF Remains

(* Of two leaves one is visited first.                                    *)
LEMMA NotBoth ==
  ASSUME NEW doc, IsDocument(doc), NEW f \in Leaves(doc), NEW g \in Leaves(doc), f # g
  PROVE  ~(VisitedBefore(doc, f, g) /\ VisitedBefore(doc, g, f))
  <1>1. /\ IsOrder(Visits(doc), Leaves(doc))
        /\ \A m, n \in Leaves(doc) : m # n => (<<m, n>> \in Visits(doc) <=> VisitedBefore(doc, m, n))
    BY VisitsOrder
  <1> QED BY <1>1 DEF IsOrder

(* Without an unnamed member no node begins with the empty name.          *)
LEMMA FirstName ==
  ASSUME NEW d, IsDocument(d), NEW f \in DOMAIN d, f # <<>>, <<NoName>> \notin DOMAIN d
  PROVE  f[1] # NoName
  <1>1. 1 \in 1..Len(f)
    <2>1. f \in Seq(Strings)
      BY NodeIs
    <2> QED BY <2>1, LenProperties, EmptySeq
  <1>2. /\ SubSeq(f, 1, 1 - 1) \in Seq(Strings) /\ Len(SubSeq(f, 1, 1 - 1)) = 1 - 1
        /\ SubSeq(f, 1, 1) = Append(SubSeq(f, 1, 1 - 1), f[1])
        /\ SubSeq(f, 1, 1) \in DOMAIN d
    BY <1>1, UpTo
  <1>3. SubSeq(f, 1, 1 - 1) = <<>>
    BY <1>2, EmptySeq
  <1>4. <<f[1]>> \in DOMAIN d
    <2>1. PICK x : x = f[1]
      OBVIOUS
    <2>2. Append(<<>>, x) = <<x>>
      OBVIOUS
    <2>3. Append(<<>>, x) \in DOMAIN d
      BY <1>2, <1>3, <2>1
    <2> QED BY <2>1, <2>2, <2>3
  <1> QED BY <1>4

(* Every key of the flattened form that is not desired keeps its value: of *)
(* the leaves that are spelled like it the same one is visited last.       *)
LEMMA FlatKept ==
  ASSUME NEW d, NEW e, NEW z, NEW plan, Repaired(d, e, z, plan), <<NoName>> \notin DOMAIN d,
         NEW k \in DOMAIN Flatten(d), k \notin DOMAIN Flatten(e), Flatten(d)[k] # Null
  PROVE  k \in DOMAIN Flatten(z) /\ Flatten(z)[k] = Flatten(d)[k]
  <1>0. IsDocument(d) /\ IsDocument(z) /\ Remains(d, z, plan)
    BY DEF Repaired
  <1>1. PICK f : FlatBy(d, k, f)
    BY <1>0, FlatHas
  <1>2. /\ f \in Leaves(d) /\ f \in Alike(d, k) /\ f \in DOMAIN d /\ f # <<>> /\ PathOf(d, f) = k
        /\ \A m \in Alike(d, k) \ {f} : VisitedBefore(d, m, f)
        /\ Flatten(d)[k] = d[f]
    BY <1>1 DEF FlatBy, LastIn, Alike, Leaves
  <1>3. f \in DOMAIN z /\ z[f] = d[f]
    BY <1>2, NodeKept
  <1>4. Old(d, z, f)
    BY <1>0, <1>2, <1>3, UpsRemain DEF Old
  <1>5. f \in Leaves(z) /\ PathOf(z, f) = k /\ f \in Alike(z, k)
    <2>1. f \in Leaves(z)
      BY <1>2, <1>3 DEF Leaves
    <2>2. PathOf(z, f) = k
      BY <1>0, <1>2, <1>4, <2>1, OldLeaf
    <2> QED BY <2>1, <2>2 DEF Alike
  <1>6. k \in DOMAIN Flatten(z) /\ k \in Seq(Spelled)
    BY <1>0, <1>5, FlatKey
  <1>7. PICK g : FlatBy(z, k, g)
    BY <1>0, <1>6, FlatHas
  <1>8. /\ g \in Leaves(z) /\ g \in Alike(z, k) /\ PathOf(z, g) = k /\ Flatten(z)[k] = z[g]
        /\ f # g => VisitedBefore(z, f, g)
    BY <1>5, <1>7 DEF FlatBy, LastIn, Alike
  <1>9. ASSUME f # g PROVE VisitedBefore(z, g, f)
    <2>1. CASE g \in Alike(d, k)
      <3>1. g \in Leaves(d) /\ g \in DOMAIN d
        BY <2>1 DEF Alike, Leaves
      <3>2. VisitedBefore(d, g, f)
        BY <1>2, <1>9, <2>1
      <3>3. Ups(d, z, g)
        BY <1>0, <3>1, UpsRemain
      <3> QED BY <1>0, <1>2, <1>9, <3>1, <3>2, <3>3, SameVisits
    <2>2. CASE g \notin Alike(d, k)
      <3>1. g \in Seq(Words)
        BY <1>8, <2>2, UncleanShared
      <3>2. Split(k) = g
        BY <1>0, <1>6, <1>8, <3>1, CleanLeaf
      <3>3. f \notin Seq(Words)
        BY <1>0, <1>5, <1>6, <1>9, <3>2, CleanLeaf
      <3>4. f[1] # NoName
        BY <1>0, <1>2, FirstName
      <3> QED BY <1>0, <1>5, <1>8, <3>1, <3>3, <3>4, UncleanLater
    <2> QED BY <2>1, <2>2
  <1>10. f = g
    BY <1>0, <1>5, <1>8, <1>9, NotBoth
  <1> QED BY <1>2, <1>3, <1>6, <1>8, <1>10

-------------------------------------------------------------------------------
(* The clients.                                                            *)

Lease(c) == [fs |-> Fs(c), key |-> scenario.key[c], owner |-> c]

Copied   == {"apply", "open", "write", "verify", "rollback", "restore", "confirm"}
Active   == {"observe", "backup", "store", "check"} \cup Copied
AtWrite  == {"write", "restore"}
Original == Whole(scenario.document)

(* The violations the policy finds, and whether it finds r.                *)
Expected(c) == {r \in scenario.rules : ~EvaluateExpression(r.expression, Desired(c))}

Fields == {"observed", "plan", "violations", "attempts", "backup", "preimage", "output",
           "trail", "outcome"}

Shape ==
  /\ DOMAIN pc = Clients /\ DOMAIN mem = Clients
  /\ \A c \in Clients : DOMAIN mem[c] = Fields
  /\ backups \in Seq(Range(backups))

Exclusive ==
  /\ \A l, m \in held : l = m
  /\ held # {} => opened = {}
  /\ \A l \in held : /\ l.owner \in Clients /\ l = Lease(l.owner) /\ Leases(l.owner)
                     /\ pc[l.owner] \in Active \cup {"release"}
  /\ \A c \in Clients : Leases(c) /\ pc[c] \in Active => Lease(c) \in held
  /\ \A c \in Clients : pc[c] \in AtWrite => c \in opened \/ Lease(c) \in held
  /\ \A c \in opened : c \in Clients /\ pc[c] \in AtWrite

(* What a client relies on at each of its points.                          *)
Local(c) ==
  /\ pc[c] \in {"check"} \cup Copied => mem[c].backup \in 1..Len(backups)
  /\ pc[c] \in Copied => Original \in Range(backups)
  /\ Leases(c) /\ pc[c] \in TryingTo => file = mem[c].observed
  /\ Leases(c) /\ pc[c] \in Copied => backups[mem[c].backup] = mem[c].observed
  /\ pc[c] \in Active \cup {"start"} => mem[c].outcome = "none"
  /\ Leases(c) /\ pc[c] = "release" /\ mem[c].outcome = "restored" =>
       Lease(c) \in held /\ file = mem[c].observed
  /\ Leases(c) /\ pc[c] = "release" /\ mem[c].outcome = "repaired" =>
       Lease(c) \in held /\ file.whole /\ Verified(Flatten(file.doc), Desired(c), scenario.rules)
  /\ pc[c] \in Active \ {"observe"} => mem[c].violations = Expected(c)
  /\ mem[c].outcome = "repaired" =>
       \A r \in mem[c].violations : ParseExpression(r.expression).key \notin DOMAIN Desired(c)

IInv == Shape /\ Exclusive /\ OriginalKept /\ \A c \in Clients : Local(c)

LEMMA InitInv == Init => IInv
  <1> SUFFICES ASSUME Init PROVE IInv
    OBVIOUS
  <1>0. pc \in [Clients -> {"start", "record", "done"}]
    BY PlacesAssumption DEF Init
  <1>1. Shape
    BY <1>0 DEF Init, Shape, Fresh, Fields
  <1>2. Exclusive
    BY <1>0 DEF Init, Exclusive, Active, Copied, AtWrite
  <1>3. OriginalKept
    BY DEF Init, OriginalKept
  <1>4. ASSUME NEW c \in Clients PROVE Local(c)
    BY <1>0 DEF Init, Local, Fresh, Active, Copied, TryingTo
  <1> QED BY <1>1, <1>2, <1>3, <1>4 DEF IInv

-------------------------------------------------------------------------------
(* The repair of one document.                                             *)

(* An analysis finds no drift exactly when the quick check says so.        *)
THEOREM DriftIsDetected ==
  ASSUME NEW observed, NEW desired,
         IsFiniteSet(DOMAIN observed), IsFiniteSet(DOMAIN desired)
  PROVE  HasDrift(observed, desired) <=> Drift(observed, desired) # {}
  <1>1. ASSUME Drift(observed, desired) # {}
        PROVE  HasDrift(observed, desired)
    <2>1. CASE \E k \in DOMAIN desired : k \notin DOMAIN observed \/ observed[k] # desired[k]
      BY <2>1 DEF HasDrift
    <2>2. CASE \A k \in DOMAIN desired : k \in DOMAIN observed /\ observed[k] = desired[k]
      <3>1. PICK k \in DOMAIN observed : k \notin DOMAIN desired
        BY <1>1, <2>2 DEF Drift
      <3>2. DOMAIN desired \in SUBSET DOMAIN observed /\ DOMAIN desired # DOMAIN observed
        BY <2>2, <3>1
      <3>3. Cardinality(DOMAIN desired) # Cardinality(DOMAIN observed)
        BY <3>2, FS_Subset
      <3> QED BY <3>3 DEF HasDrift
    <2> QED BY <2>1, <2>2
  <1>2. ASSUME Drift(observed, desired) = {}
        PROVE  ~HasDrift(observed, desired)
    <2>1. /\ DOMAIN desired \ DOMAIN observed = {} /\ DOMAIN observed \ DOMAIN desired = {}
          /\ \A k \in DOMAIN desired \cap DOMAIN observed : observed[k] = desired[k]
      BY <1>2 DEF Drift
    <2>2. DOMAIN observed = DOMAIN desired
      BY <2>1
    <2> QED BY <2>1, <2>2 DEF HasDrift
  <1> QED BY <1>1, <1>2

(* Where the desired values are reached, a rule about a desired key holds  *)
(* of the file exactly when it holds of the desired document.              *)
LEMMA SameVerdict ==
  ASSUME NEW flat, NEW desired, NEW expression, DesiredReached(flat, desired),
         ParseExpression(expression).key \in DOMAIN desired
  PROVE  EvaluateExpression(expression, flat) <=> EvaluateExpression(expression, desired)
  <1> DEFINE key == ParseExpression(expression).key
  <1>1. key \in DOMAIN flat /\ flat[key] = desired[key]
    BY DEF DesiredReached
  <1> QED BY <1>1 DEF EvaluateExpression

(* A desired document that keeps the rules is verified once it is reached. *)
LEMMA ReachedIsVerified ==
  ASSUME NEW flat, NEW desired, NEW rules, DesiredReached(flat, desired),
         \A r \in rules : EvaluateExpression(r.expression, desired)
  PROVE  Verified(flat, desired, rules)
  <1>1. ASSUME NEW r \in rules
        PROVE  EvaluateExpression(r.expression, flat)
    <2>1. ParseExpression(r.expression).key \in DOMAIN desired
      BY DEF EvaluateExpression
    <2> QED BY <2>1, SameVerdict
  <1> QED BY <1>1 DEF Verified

-------------------------------------------------------------------------------
(* The files.                                                              *)

(* Backups are only ever added.                                            *)
Grown ==
  /\ backups' \in Seq(Range(backups'))
  /\ Len(backups) \in Nat /\ Len(backups') \in Nat /\ Len(backups) <= Len(backups')
  /\ \A i \in 1..Len(backups) : backups'[i] = backups[i]
  /\ Range(backups) \subseteq Range(backups')

LEMMA Unadded ==
  ASSUME Shape, backups' = backups
  PROVE  Grown
  BY DEF Shape, Grown

LEMMA Added ==
  ASSUME Shape, NEW x, backups' = Append(backups, x)
  PROVE  Grown /\ Len(backups') = Len(backups) + 1 /\ backups'[Len(backups')] = x
  <1> DEFINE S == Range(backups) \cup {x}
  <1>1. backups \in Seq(S)
    BY DEF Shape
  <1>2. /\ backups' \in Seq(S)
        /\ Len(backups') = Len(backups) + 1 /\ Len(backups) \in Nat
        /\ DOMAIN backups' = 1..(Len(backups) + 1) /\ DOMAIN backups = 1..Len(backups)
        /\ \A i \in 1..Len(backups) : backups'[i] = backups[i]
        /\ backups'[Len(backups) + 1] = x
    BY <1>1
  <1>3. Range(backups) \subseteq Range(backups')
    <2>1. ASSUME NEW y \in Range(backups) PROVE y \in Range(backups')
      <3>1. PICK i \in DOMAIN backups : backups[i] = y
        BY DEF Range
      <3>2. i \in DOMAIN backups' /\ backups'[i] = y
        BY <1>2, <3>1
      <3> QED BY <3>2 DEF Range
    <2> QED BY <2>1
  <1>4. backups' \in Seq(Range(backups'))
    <2>1. \A i \in 1..Len(backups') : backups'[i] \in Range(backups')
      BY <1>2 DEF Range
    <2>2. backups' \in [1..Len(backups') -> S]
      <3> HIDE DEF S
      <3> QED BY <1>2, LenProperties
    <2>3. backups' \in [1..Len(backups') -> Range(backups')]
      <3> HIDE DEF S
      <3> QED BY <2>1, <2>2
    <2>4. Len(backups') \in Nat
      <3> HIDE DEF S
      <3> QED BY <1>2
    <2> QED BY ONLY <2>3, <2>4, SeqDef
  <1> QED BY <1>2, <1>3, <1>4 DEF Grown

(* While one client holds the lease nobody else is in a write, or begins   *)
(* one.                                                                    *)
LEMMA Sole ==
  ASSUME IInv, NEW c \in Clients, NEW d \in Clients, Lease(d) \in held,
         pc[c] \in AtWrite \/ MayWrite(c)
  PROVE  c = d
  <1>1. Lease(d).owner = d /\ Lease(c).owner = c
    BY DEF Lease
  <1>2. CASE pc[c] \in AtWrite
    BY <1>1, <1>2 DEF IInv, Exclusive
  <1>3. CASE MayWrite(c)
    <2>1. PICK l \in LeaseOf(c) : l.owner = c
      BY <1>3 DEF MayWrite, CanOpen
    <2>2. l \in held
      BY DEF LeaseOf
    <2> QED BY <1>1, <2>1, <2>2 DEF IInv, Exclusive
  <1> QED BY <1>2, <1>3

-------------------------------------------------------------------------------
(* The steps.                                                              *)

(* A step of c concerns another client only by the file, which has to stay *)
(* when that client holds the lease.                                       *)
LEMMA OthersInv ==
  ASSUME IInv, NEW c \in Clients, NEW d \in Clients \ {c}, Grown,
         UNCHANGED scenario, pc'[d] = pc[d], mem'[d] = mem[d],
         Lease(d) \in held => file' = file /\ Lease(d) \in held'
  PROVE  Local(d)'
  <1>1. /\ Local(d)
        /\ Leases(d) /\ pc[d] \in Active => Lease(d) \in held
    BY DEF IInv, Exclusive
  <1>2. /\ Leases(d)' = Leases(d) /\ Expected(d)' = Expected(d) /\ Original' = Original
        /\ Lease(d)' = Lease(d) /\ Desired(d)' = Desired(d)
    BY DEF Leases, Expected, Desired, Original, Lease, Fs
  <1>3. TryingTo \subseteq Active /\ Copied \subseteq Active
    BY DEF TryingTo, Active, Copied
  <1>4. mem[d].backup \in 1..Len(backups) =>
          mem[d].backup \in 1..Len(backups') /\ backups'[mem[d].backup] = backups[mem[d].backup]
    BY DEF Grown
  <1> QED BY <1>1, <1>2, <1>3, <1>4 DEF Local, Grown

(* A step of c by which only its memory and its point change.              *)
Own(c, label) ==
  /\ DOMAIN pc' = Clients /\ DOMAIN mem' = Clients /\ DOMAIN mem'[c] = Fields
  /\ pc'[c] = label
  /\ \A d \in Clients \ {c} : pc'[d] = pc[d] /\ mem'[d] = mem[d]

LEMMA OwnShape ==
  ASSUME IInv, NEW c \in Clients, NEW label, Own(c, label), Grown
  PROVE  /\ Shape'
         /\ pc'[c] = label
         /\ \A d \in Clients \ {c} : pc'[d] = pc[d]
  <1>1. DOMAIN pc' = Clients /\ pc'[c] = label /\ \A d \in Clients \ {c} : pc'[d] = pc[d]
    BY DEF IInv, Shape, Own
  <1>2. \A d \in Clients : DOMAIN mem'[d] = Fields
    BY DEF IInv, Shape, Own
  <1> QED BY <1>1, <1>2 DEF Shape, Own, Grown

LEMMA EndsOwn ==
  ASSUME IInv, NEW c \in Clients, NEW outcome, Ends(c, outcome)
  PROVE  /\ Own(c, "release")
         /\ mem'[c].outcome = outcome /\ mem'[c].observed = mem[c].observed
         /\ mem'[c].violations = mem[c].violations /\ mem'[c].backup = mem[c].backup
  BY DEF IInv, Shape, Ends, Goto, Own, Fields

LEMMA GoesOwn ==
  ASSUME IInv, NEW c \in Clients, NEW label, Goto(c, label), UNCHANGED mem
  PROVE  Own(c, label)
  BY DEF IInv, Shape, Goto, Own

(* A step of c outside of its writes, with its lease or without.           *)
LEMMA OwnInv ==
  ASSUME IInv, NEW c \in Clients, NEW label, Own(c, label), Grown,
         UNCHANGED <<scenario, file, held, opened>>,
         label \in Active => pc[c] \in Active \/ ~Leases(c),
         pc[c] \in Active \cup {"release"} => label \in Active \cup {"release"},
         pc[c] \notin AtWrite, label \notin AtWrite,
         Local(c)'
  PROVE  IInv'
  <1>1. /\ Shape' /\ pc'[c] = label
        /\ \A d \in Clients \ {c} : pc'[d] = pc[d] /\ mem'[d] = mem[d]
    BY OwnShape DEF Own
  <1>2. \A d \in Clients : Leases(d)' = Leases(d) /\ Lease(d)' = Lease(d)
    BY DEF Leases, Lease, Fs
  <1>3. Exclusive'
    <2>1. \A l \in held : pc'[l.owner] \in Active \cup {"release"}
      BY <1>1 DEF IInv, Exclusive
    <2>2. \A d \in Clients : Leases(d) /\ pc'[d] \in Active => Lease(d) \in held
      BY <1>1 DEF IInv, Exclusive
    <2>3. \A d \in Clients : pc'[d] \in AtWrite => d \in opened \/ Lease(d) \in held
      BY <1>1 DEF IInv, Exclusive
    <2>4. \A d \in opened : d \in Clients /\ pc'[d] \in AtWrite
      BY <1>1 DEF IInv, Exclusive
    <2> QED BY <1>2, <2>1, <2>2, <2>3, <2>4 DEF IInv, Exclusive
  <1>4. \A d \in Clients \ {c} : Local(d)'
    BY <1>1, OthersInv
  <1>5. OriginalKept'
    BY DEF IInv, OriginalKept, Grown
  <1> QED BY <1>1, <1>3, <1>4, <1>5 DEF IInv

LEMMA EndInv ==
  ASSUME IInv, NEW c \in Clients, NEW outcome, Ends(c, outcome), Grown,
         UNCHANGED <<scenario, file, held, opened>>,
         pc[c] \in {"start"} \cup (Active \ AtWrite),
         outcome = "restored" => pc[c] \in Active /\ (Leases(c) => file = mem[c].observed),
         outcome = "repaired" =>
           /\ \A r \in mem[c].violations : ParseExpression(r.expression).key \notin DOMAIN Desired(c)
           /\ pc[c] \in Active /\ file.whole
           /\ Verified(Flatten(file.doc), Desired(c), scenario.rules)
  PROVE  IInv'
  <1>1. Local(c)'
    <2>1. Leases(c)' = Leases(c) /\ Lease(c)' = Lease(c) /\ Desired(c)' = Desired(c)
      BY DEF Leases, Lease, Fs, Desired
    <2>2. pc'[c] = "release"
      BY EndsOwn, OwnShape
    <2>3. Leases(c) /\ pc[c] \in Active => Lease(c) \in held
      BY DEF IInv, Exclusive
    <2> QED BY <2>1, <2>2, <2>3, EndsOwn DEF Local, Active, Copied, TryingTo
  <1> QED BY <1>1, EndsOwn, OwnInv DEF Active, AtWrite, Copied

(* A step of a repair that changes nothing its client relies on.           *)
LEMMA KeepInv ==
  ASSUME IInv, NEW c \in Clients, NEW label \in Active \ {"observe", "check"}, Own(c, label), Grown,
         UNCHANGED <<scenario, file, held, opened>>,
         pc[c] \in Active \ {"observe"}, pc[c] \notin AtWrite, label \notin AtWrite,
         label \in TryingTo => pc[c] \in TryingTo,
         label \in Copied => pc[c] \in Copied,
         /\ mem'[c].observed = mem[c].observed /\ mem'[c].violations = mem[c].violations
         /\ mem'[c].backup = mem[c].backup /\ mem'[c].outcome = mem[c].outcome
  PROVE  IInv'
  <1>1. pc'[c] = label
    BY OwnShape
  <1>2. /\ Leases(c)' = Leases(c) /\ Expected(c)' = Expected(c) /\ Original' = Original
        /\ Desired(c)' = Desired(c)
    BY DEF Leases, Expected, Desired, Original, Fs
  <1>3. mem[c].backup \in 1..Len(backups) =>
          mem[c].backup \in 1..Len(backups') /\ backups'[mem[c].backup] = backups[mem[c].backup]
    BY DEF Grown
  <1>4. label # "release"
    BY DEF Active, Copied
  <1>5. Local(c) /\ mem[c].outcome = "none"
    BY DEF IInv, Local
  <1>6. Local(c)'
    <2>1. label \in {"check"} \cup Copied => pc[c] \in {"check"} \cup Copied
      OBVIOUS
    <2> QED BY <1>1, <1>2, <1>3, <1>4, <1>5, <2>1 DEF Local, Grown
  <1> QED BY <1>6, OwnInv

LEMMA ObserveInv == ASSUME IInv, NEW c \in Clients, Observe(c) PROVE IInv'
  <1>1. /\ pc[c] = "observe" /\ UNCHANGED <<scenario, file, backups, held, opened>> /\ Grown
    BY Unadded DEF Observe, IInv
  <1>2. ASSUME NEW outcome \in {"failed", "clean", "blocked"}, Ends(c, outcome)
        PROVE  IInv'
    BY <1>1, <1>2, EndInv DEF Active, AtWrite, Copied
  <1>3. ASSUME NEW plan, NEW violations, violations = Expected(c), Planned(c, plan, violations)
        PROVE  IInv'
    <2>1. CASE Ends(c, "clean") \/ Ends(c, "blocked")
      BY <1>2, <2>1
    <2>2. CASE /\ Goto(c, "backup")
               /\ mem' = [mem EXCEPT ![c].observed = file, ![c].plan = plan,
                                     ![c].violations = violations]
      <3>1. Own(c, "backup") /\ mem'[c].observed = file /\ mem'[c].violations = violations
            /\ mem'[c].outcome = mem[c].outcome
        BY <2>2 DEF IInv, Shape, Own, Goto, Fields
      <3>2. pc'[c] = "backup" /\ mem[c].outcome = "none"
        BY <1>1, <3>1, OwnShape DEF IInv, Local, Active
      <3>3. Expected(c)' = Expected(c)
        BY <1>1 DEF Expected, Desired
      <3>4. Local(c)'
        BY <1>1, <1>3, <3>1, <3>2, <3>3 DEF Local, Active, Copied, TryingTo
      <3> QED BY <1>1, <3>1, <3>4, OwnInv DEF Active, AtWrite, Copied
    <2> QED BY <1>3, <2>1, <2>2 DEF Planned
  <1>4. CASE Ends(c, "failed")
    BY <1>2, <1>4
  <1>5. CASE \E observed \in {Flatten(file.doc)}, desired \in {Desired(c)} :
               \E plan \in {CreatePlan(Drift(observed, desired))},
                  violations \in {Violations(scenario.rules, observed, desired)} :
                 Planned(c, plan, violations)
    <2>1. PICK plan, violations :
            violations = Violations(scenario.rules, Flatten(file.doc), Desired(c))
            /\ Planned(c, plan, violations)
      BY <1>5
    <2>2. violations = Expected(c)
      BY <2>1 DEF Violations, Expected
    <2> QED BY <1>3, <2>1, <2>2
  <1> QED BY <1>4, <1>5 DEF Observe

LEMMA BackupInv ==
  ASSUME IInv, NEW c \in Clients, ReadPreimage(c) \/ StoreBackup(c) \/ CheckBackup(c)
  PROVE  IInv'
  <1>1. CASE ReadPreimage(c)
    <2>1. /\ pc[c] = "backup" /\ UNCHANGED <<scenario, file, held, opened>> /\ Grown
      BY <1>1, Unadded DEF ReadPreimage, IInv
    <2>2. /\ Own(c, "store") /\ mem'[c].observed = mem[c].observed
          /\ mem'[c].violations = mem[c].violations
          /\ mem'[c].backup = mem[c].backup /\ mem'[c].outcome = mem[c].outcome
      BY <1>1 DEF ReadPreimage, IInv, Shape, Own, Goto, Fields
    <2> QED BY <2>1, <2>2, KeepInv DEF Active, Copied, AtWrite, TryingTo
  <1>2. CASE StoreBackup(c)
    <2>1. /\ pc[c] = "store" /\ UNCHANGED <<scenario, file, held, opened>> /\ Shape
      BY <1>2 DEF StoreBackup, IInv
    <2>2. CASE Ends(c, "failed") /\ UNCHANGED backups
      BY <2>1, <2>2, Unadded, EndInv DEF Active, AtWrite, Copied
    <2>3. CASE /\ \E stored \in Stored(mem[c].preimage) : backups' = Append(backups, stored)
               /\ mem' = [mem EXCEPT ![c].attempts = @ + 1, ![c].backup = Len(backups')]
               /\ Goto(c, "check")
      <3>1. Grown /\ Len(backups') = Len(backups) + 1
        BY <2>1, <2>3, Added
      <3>2. /\ Own(c, "check") /\ mem'[c].observed = mem[c].observed
            /\ mem'[c].violations = mem[c].violations
            /\ mem'[c].backup = Len(backups') /\ mem'[c].outcome = mem[c].outcome
        BY <2>3 DEF IInv, Shape, Own, Goto, Fields
      <3>3. pc'[c] = "check"
        BY <3>1, <3>2, OwnShape
      <3>4. Leases(c)' = Leases(c) /\ Expected(c)' = Expected(c)
        BY <2>1 DEF Leases, Expected, Desired
      <3>5. Len(backups') \in 1..Len(backups')
        BY <3>1 DEF Grown
      <3>6. Local(c)'
        BY <2>1, <3>2, <3>3, <3>4, <3>5 DEF IInv, Local, Active, Copied, TryingTo
      <3> QED BY <2>1, <3>1, <3>2, <3>6, OwnInv DEF Active, AtWrite, Copied
    <2>4. CASE /\ backups' \in {backups, Append(backups, Torn)}
               /\ mem' = [mem EXCEPT ![c].attempts = @ + 1] /\ UNCHANGED pc
      <3>1. Grown
        BY <2>1, <2>4, Added, Unadded
      <3>2. /\ Own(c, "store") /\ mem'[c].observed = mem[c].observed
            /\ mem'[c].violations = mem[c].violations
            /\ mem'[c].backup = mem[c].backup /\ mem'[c].outcome = mem[c].outcome
        BY <2>1, <2>4 DEF IInv, Shape, Own, Fields
      <3> QED BY <2>1, <3>1, <3>2, KeepInv DEF Active, Copied, AtWrite, TryingTo
    <2>5. CASE backups' = Append(backups, Torn) /\ Ends(c, "failed")
      BY <2>1, <2>5, Added, EndInv DEF Active, AtWrite, Copied
    <2> QED BY <1>2, <2>2, <2>3, <2>4, <2>5 DEF StoreBackup
  <1>3. CASE CheckBackup(c)
    <2>1. /\ pc[c] = "check" /\ UNCHANGED <<scenario, file, backups, held, opened>> /\ Grown
      BY <1>3, Unadded DEF CheckBackup, IInv
    <2>2. CASE Ends(c, "failed")
      BY <2>1, <2>2, EndInv DEF Active, AtWrite, Copied
    <2>3. CASE /\ backups[mem[c].backup] = mem[c].preimage /\ file = mem[c].preimage
               /\ Goto(c, "apply") /\ UNCHANGED mem
      <3>1. Own(c, "apply") /\ pc'[c] = "apply"
        BY <2>1, <2>3, GoesOwn, OwnShape
      <3>2. mem[c].backup \in 1..Len(backups) /\ backups[mem[c].backup] = file
        BY <2>1, <2>3 DEF IInv, Local
      <3>3. file \in Range(backups)
        BY <3>2 DEF Range, IInv, Shape
      <3>4. Original \in Range(backups)
        BY <3>3 DEF IInv, OriginalKept, Original
      <3>5. Leases(c)' = Leases(c) /\ Expected(c)' = Expected(c) /\ Original' = Original
        BY <2>1 DEF Leases, Expected, Desired, Original
      <3>6. Local(c)'
        BY <2>1, <2>3, <3>1, <3>2, <3>4, <3>5 DEF IInv, Local, Active, Copied, TryingTo
      <3> QED BY <2>1, <3>1, <3>6, OwnInv DEF Active, AtWrite, Copied
    <2> QED BY <1>3, <2>2, <2>3 DEF CheckBackup
  <1> QED BY <1>1, <1>2, <1>3

LEMMA ApplyInv == ASSUME IInv, NEW c \in Clients, ReadAndApply(c) PROVE IInv'
  <1>1. /\ pc[c] = "apply" /\ UNCHANGED <<scenario, file, backups, held, opened>> /\ Grown
    BY Unadded DEF ReadAndApply, IInv
  <1>2. CASE Ends(c, "failed")
    BY <1>1, <1>2, EndInv DEF Active, AtWrite, Copied
  <1>3. CASE \E applied \in {Apply(file.doc, mem[c].plan)} :
               /\ mem' = [mem EXCEPT ![c].output = Dumped(applied.doc)]
               /\ Goto(c, "open")
    <2>1. /\ Own(c, "open") /\ mem'[c].observed = mem[c].observed
          /\ mem'[c].violations = mem[c].violations
          /\ mem'[c].backup = mem[c].backup /\ mem'[c].outcome = mem[c].outcome
      BY <1>3 DEF IInv, Shape, Own, Goto, Fields
    <2> QED BY <1>1, <2>1, KeepInv DEF Active, Copied, AtWrite, TryingTo
  <1> QED BY <1>2, <1>3 DEF ReadAndApply

(* A step that changes the file, by the only client that may.              *)
LEMMA FileInv ==
  ASSUME IInv, NEW c \in Clients, NEW label, Own(c, label),
         label \in (Copied \ TryingTo) \cup {"release"},
         pc[c] \in Copied, pc[c] \in AtWrite \/ MayWrite(c),
         UNCHANGED <<scenario, backups, held>>, Exclusive',
         /\ mem'[c].observed = mem[c].observed /\ mem'[c].violations = mem[c].violations
         /\ mem'[c].backup = mem[c].backup
         /\ mem'[c].outcome = IF label = "release" THEN "stuck" ELSE mem[c].outcome
  PROVE  IInv'
  <1>1. Grown
    BY Unadded DEF IInv
  <1>2. /\ Shape' /\ pc'[c] = label
        /\ \A d \in Clients \ {c} : pc'[d] = pc[d] /\ mem'[d] = mem[d]
    BY <1>1, OwnShape DEF Own
  <1>3. \A d \in Clients \ {c} : Local(d)'
    BY <1>1, <1>2, Sole, OthersInv
  <1>4. Original \in Range(backups)
    BY DEF IInv, Local
  <1>5. OriginalKept'
    BY <1>4 DEF OriginalKept, Original
  <1>6. Local(c)'
    <2>1. /\ Leases(c)' = Leases(c) /\ Expected(c)' = Expected(c) /\ Original' = Original
      BY DEF Leases, Expected, Desired, Original
    <2>2. label # "check" /\ label # "start" /\ label \notin TryingTo /\ "release" \notin Active
      BY DEF Copied, TryingTo, Active
    <2>3. Local(c) /\ mem[c].outcome = "none" /\ pc[c] \in Active \ {"observe"}
      BY DEF IInv, Local, Active, Copied
    <2> QED BY <1>2, <1>4, <2>1, <2>2, <2>3 DEF Local
  <1> QED BY <1>2, <1>3, <1>5, <1>6 DEF IInv

LEMMA BeginInv ==
  ASSUME IInv, NEW c \in Clients, NEW label \in AtWrite, BeginWrite(c, label),
         pc[c] \in {"open", "rollback"}, MayWrite(c), UNCHANGED <<scenario, backups, held, mem>>
  PROVE  IInv'
  <1>1. Own(c, label)
    BY GoesOwn DEF BeginWrite
  <1>2. pc'[c] = label /\ \A d \in Clients \ {c} : pc'[d] = pc[d]
    BY <1>1 DEF Own
  <1>3. \A d \in Clients : Leases(d)' = Leases(d) /\ Lease(d)' = Lease(d)
    BY DEF Leases, Lease, Fs
  <1>4. \/ LeaseOf(c) = {} /\ held = {} /\ opened' = opened \cup {c}
        \/ Lease(c) \in held /\ opened' = opened
    <2>1. CASE LeaseOf(c) = {}
      BY <2>1 DEF BeginWrite, MayWrite, CanOpen
    <2>2. CASE LeaseOf(c) # {}
      <3>1. PICK l \in LeaseOf(c) : l.owner = c
        BY <2>2 DEF MayWrite
      <3>2. l \in held /\ l = Lease(c)
        BY <3>1 DEF LeaseOf, IInv, Exclusive
      <3> QED BY <2>2, <3>2 DEF BeginWrite
    <2> QED BY <2>1, <2>2
  <1>5. Exclusive'
    <2>1. \A l \in held : pc'[l.owner] \in Active \cup {"release"}
      BY <1>2 DEF IInv, Exclusive, Active, Copied, AtWrite
    <2>2. \A d \in Clients : Leases(d) /\ pc'[d] \in Active => Lease(d) \in held
      BY <1>2 DEF IInv, Exclusive, Active, Copied
    <2>3. \A d \in Clients : pc'[d] \in AtWrite => d \in opened' \/ Lease(d) \in held
      BY <1>2, <1>4 DEF IInv, Exclusive
    <2>4. \A d \in opened' : d \in Clients /\ pc'[d] \in AtWrite
      BY <1>2, <1>4 DEF IInv, Exclusive
    <2>5. held # {} => opened' = {}
      BY <1>4 DEF IInv, Exclusive
    <2> QED BY <1>3, <2>1, <2>2, <2>3, <2>4, <2>5 DEF IInv, Exclusive
  <1>6. mem'[c] = mem[c] /\ label # "release" /\ label \in Copied \ TryingTo /\ pc[c] \in Copied
    BY DEF AtWrite, Copied, TryingTo
  <1> QED BY <1>1, <1>5, <1>6, FileInv

LEMMA EndWriteInv ==
  ASSUME IInv, NEW c \in Clients, WriteTarget(c) \/ RestoreBackup(c)
  PROVE  IInv'
  <1>1. /\ pc[c] \in AtWrite /\ pc[c] \in Copied /\ opened' = opened \ {c}
        /\ UNCHANGED <<scenario, backups, held>>
    BY DEF WriteTarget, RestoreBackup, EndWrite, AtWrite, Copied
  <1>2. \/ \E label \in {"verify", "rollback", "confirm"} : Goto(c, label) /\ UNCHANGED mem
        \/ Ends(c, "stuck")
    BY DEF WriteTarget, RestoreBackup
  <1>3. PICK label \in {"verify", "rollback", "confirm", "release"} :
          /\ Own(c, label)
          /\ mem'[c].observed = mem[c].observed /\ mem'[c].violations = mem[c].violations
          /\ mem'[c].backup = mem[c].backup
          /\ mem'[c].outcome = IF label = "release" THEN "stuck" ELSE mem[c].outcome
    BY <1>2, GoesOwn, EndsOwn
  <1>4. pc'[c] = label /\ \A d \in Clients \ {c} : pc'[d] = pc[d]
    BY <1>3 DEF Own
  <1>5. \A d \in Clients : Leases(d)' = Leases(d) /\ Lease(d)' = Lease(d)
    BY <1>1 DEF Leases, Lease, Fs
  <1>6. Exclusive'
    <2>1. \A l \in held : pc'[l.owner] \in Active \cup {"release"}
      BY <1>4 DEF IInv, Exclusive, Active, Copied
    <2>2. \A d \in Clients : Leases(d) /\ pc'[d] \in Active => Lease(d) \in held
      BY <1>1, <1>4 DEF IInv, Exclusive, Active
    <2>3. \A d \in Clients : pc'[d] \in AtWrite => d \in opened' \/ Lease(d) \in held
      BY <1>1, <1>4 DEF IInv, Exclusive, AtWrite
    <2>4. \A d \in opened' : d \in Clients /\ pc'[d] \in AtWrite
      BY <1>1, <1>4 DEF IInv, Exclusive
    <2> QED BY <1>1, <1>5, <2>1, <2>2, <2>3, <2>4 DEF IInv, Exclusive
  <1>7. label \in (Copied \ TryingTo) \cup {"release"}
    BY DEF Copied, TryingTo
  <1> QED BY <1>1, <1>3, <1>6, <1>7, FileInv

LEMMA OpenInv == ASSUME IInv, NEW c \in Clients, OpenTarget(c) \/ OpenForRollback(c) PROVE IInv'
  <1>1. pc[c] \in {"open", "rollback"} /\ UNCHANGED <<scenario, backups, held>> /\ Grown
    BY Unadded DEF OpenTarget, OpenForRollback, IInv
  <1>2. ASSUME NEW outcome \in {"failed", "stuck"}, Ends(c, outcome), UNCHANGED <<busy, opened, file>>
        PROVE  IInv'
    BY <1>1, <1>2, EndInv DEF Active, AtWrite, Copied
  <1>3. ASSUME NEW label \in AtWrite, MayWrite(c), BeginWrite(c, label), UNCHANGED mem
        PROVE  IInv'
    BY <1>1, <1>3, BeginInv
  <1> QED BY <1>2, <1>3 DEF OpenTarget, OpenForRollback, AtWrite

LEMMA JudgeInv == ASSUME IInv, NEW c \in Clients, Verify(c) \/ ConfirmRollback(c) PROVE IInv'
  <1>0. UNCHANGED <<scenario, file, backups, held, opened>> /\ Grown
    BY Unadded DEF Verify, ConfirmRollback, IInv
  <1>1. CASE Verify(c)
    <2>0. pc[c] = "verify"
      BY <1>1 DEF Verify
    <2>1. CASE /\ file.whole /\ Verified(Flatten(file.doc), Desired(c), scenario.rules)
               /\ Ends(c, "repaired")
      <3>1. ASSUME NEW r \in mem[c].violations,
                   ParseExpression(r.expression).key \in DOMAIN Desired(c)
            PROVE  FALSE
        <4>1. mem[c].violations = Expected(c)
          BY <2>0 DEF IInv, Local, Active, Copied
        <4>2. r \in scenario.rules /\ ~EvaluateExpression(r.expression, Desired(c))
          BY <3>1, <4>1 DEF Expected
        <4>3. /\ DesiredReached(Flatten(file.doc), Desired(c))
              /\ EvaluateExpression(r.expression, Flatten(file.doc))
          BY <2>1, <4>2 DEF Verified
        <4> QED BY <3>1, <4>2, <4>3, SameVerdict
      <3> QED BY <1>0, <2>0, <2>1, <3>1, EndInv DEF Active, AtWrite, Copied
    <2>2. CASE Goto(c, "rollback") /\ UNCHANGED mem
      BY <1>0, <2>0, <2>2, GoesOwn, KeepInv DEF Active, Copied, AtWrite, TryingTo
    <2> QED BY <1>1, <2>1, <2>2 DEF Verify
  <1>2. CASE ConfirmRollback(c)
    <2>1. pc[c] = "confirm" /\ Leases(c) => backups[mem[c].backup] = mem[c].observed
      BY DEF IInv, Local, Copied
    <2>2. CASE file = backups[mem[c].backup] /\ Ends(c, "restored")
      BY <1>0, <1>2, <2>1, <2>2, EndInv DEF ConfirmRollback, Active, AtWrite, Copied
    <2>3. CASE Ends(c, "stuck")
      BY <1>0, <1>2, <2>3, EndInv DEF ConfirmRollback, Active, AtWrite, Copied
    <2> QED BY <1>2, <2>2, <2>3 DEF ConfirmRollback
  <1> QED BY <1>1, <1>2

(* The audit trail is a file of its own.                                   *)
LEMMA TrailInv ==
  ASSUME IInv, NEW c \in Clients,
         ReadTrail(c) \/ OpenTrail(c) \/ WriteTrail(c) \/ CheckTrail(c)
  PROVE  IInv'
  <1>1. /\ pc[c] \in {"record", "record open", "record write", "record check"}
        /\ UNCHANGED <<scenario, file, backups, held, opened>> /\ Grown
    BY Unadded DEF ReadTrail, MayRecord, OpenTrail, WriteTrail, CheckTrail, EndRecord, IInv
  <1>2. PICK label \in {"record open", "record write", "record check", "done"} :
          Goto(c, label) /\ (UNCHANGED mem
                              \/ mem' = [mem EXCEPT ![c].trail = Append(trail.events, c)])
    BY DEF ReadTrail, OpenTrail, WriteTrail, CheckTrail, EndRecord
  <1>3. /\ Own(c, label) /\ mem'[c].observed = mem[c].observed
        /\ mem'[c].violations = mem[c].violations
        /\ mem'[c].backup = mem[c].backup /\ mem'[c].outcome = mem[c].outcome
    BY <1>2 DEF IInv, Shape, Own, Goto, Fields
  <1>4. pc'[c] = label
    BY <1>3 DEF Own
  <1>5. Desired(c)' = Desired(c)
    BY <1>1 DEF Desired
  <1>6. Local(c)'
    BY <1>1, <1>3, <1>4, <1>5 DEF IInv, Local, Active, Copied, TryingTo
  <1> QED BY <1>1, <1>3, <1>6, OwnInv DEF Active, AtWrite, Copied

LEMMA LeaseInv ==
  ASSUME IInv, NEW c \in Clients, AcquireWriteLease(c) \/ StartUnleased(c) \/ Release(c)
  PROVE  IInv'
  <1>0. UNCHANGED <<scenario, file, backups, opened>> /\ Grown
    BY Unadded DEF AcquireWriteLease, StartUnleased, Release, IInv
  <1>1. \A d \in Clients : /\ Leases(d)' = Leases(d) /\ Lease(d)' = Lease(d)
                           /\ Desired(d)' = Desired(d) /\ Lease(d).owner = d
    BY <1>0 DEF Leases, Lease, Fs, Desired
  <1>2. CASE AcquireWriteLease(c)
    <2>1. CASE CanOpen(c) /\ held' = held \cup {Lease(c)} /\ Goto(c, "observe") /\ UNCHANGED mem
      <3>1. held = {} /\ opened = {} /\ held' = {Lease(c)} /\ pc[c] = "start" /\ Leases(c)
        BY <1>2, <2>1 DEF CanOpen, AcquireWriteLease
      <3>2. Own(c, "observe")
        BY <2>1, GoesOwn
      <3>3. /\ Shape' /\ pc'[c] = "observe"
            /\ \A d \in Clients \ {c} : pc'[d] = pc[d] /\ mem'[d] = mem[d]
        BY <1>0, <3>2, OwnShape DEF Own
      <3>4. \A d \in Clients \ {c} : Local(d)'
        BY <1>0, <3>1, <3>3, OthersInv
      <3>5. Local(c)'
        BY <1>1, <2>1, <3>1, <3>3 DEF IInv, Local, Active, Copied, TryingTo
      <3>6. Exclusive'
        <4>1. \A d \in Clients \ {c} : ~(Leases(d) /\ pc[d] \in Active) /\ pc[d] \notin AtWrite
          BY <3>1 DEF IInv, Exclusive
        <4> QED BY <1>0, <1>1, <3>1, <3>3, <4>1 DEF Exclusive, Active, AtWrite, Copied
      <3>7. OriginalKept'
        BY <1>0 DEF IInv, OriginalKept
      <3> QED BY <3>3, <3>4, <3>5, <3>6, <3>7 DEF IInv
    <2>2. CASE Ends(c, "refused") /\ UNCHANGED held
      BY <1>0, <1>2, <2>2, EndInv DEF AcquireWriteLease
    <2> QED BY <1>2, <2>1, <2>2 DEF AcquireWriteLease, Lease
  <1>3. CASE StartUnleased(c)
    <2>1. Own(c, "observe") /\ mem'[c] = mem[c] /\ pc[c] = "start" /\ ~Leases(c) /\ held' = held
      BY <1>3, GoesOwn DEF StartUnleased
    <2>2. pc'[c] = "observe"
      BY <2>1 DEF Own
    <2>3. Local(c)'
      BY <1>0, <1>1, <2>1, <2>2 DEF IInv, Local, Active, Copied, TryingTo
    <2> QED BY <1>0, <2>1, <2>3, OwnInv DEF Active, AtWrite, Copied
  <1>4. CASE Release(c)
    <2>1. /\ pc[c] = "release" /\ held' = {l \in held : l.owner # c} /\ mem' = mem
      BY <1>4 DEF Release
    <2>2. PICK label \in {"record", "done"} : Goto(c, label)
      BY <1>4 DEF Release
    <2>3. Own(c, label)
      BY <2>1, <2>2, GoesOwn
    <2>4. /\ Shape' /\ pc'[c] = label
          /\ \A d \in Clients \ {c} : pc'[d] = pc[d] /\ mem'[d] = mem[d]
      BY <1>0, <2>3, OwnShape DEF Own
    <2>5. \A d \in Clients \ {c} : Lease(d) \in held => Lease(d) \in held'
      BY <1>1, <2>1
    <2>6. \A d \in Clients \ {c} : Local(d)'
      BY <1>0, <2>4, <2>5, OthersInv
    <2>7. Local(c)'
      BY <1>1, <2>1, <2>4 DEF IInv, Local, Active, Copied, TryingTo
    <2>8. Exclusive'
      <3>1. \A l \in held' : l \in held /\ l.owner # c
        BY <2>1
      <3>2. \A d \in Clients : Leases(d) /\ pc'[d] \in Active => Lease(d) \in held'
        BY <2>4, <2>5 DEF IInv, Exclusive, Active, Copied
      <3>3. \A d \in Clients : pc'[d] \in AtWrite => d \in opened \/ Lease(d) \in held'
        BY <2>4, <2>5 DEF IInv, Exclusive, AtWrite
      <3>4. \A d \in opened : d \in Clients /\ pc'[d] \in AtWrite
        BY <2>1, <2>4 DEF IInv, Exclusive, AtWrite
      <3>5. \A l \in held' : pc'[l.owner] \in Active \cup {"release"}
        BY <2>4, <3>1 DEF IInv, Exclusive
      <3> QED BY <1>0, <1>1, <3>1, <3>2, <3>3, <3>4, <3>5 DEF IInv, Exclusive
    <2>9. OriginalKept'
      BY <1>0 DEF IInv, OriginalKept
    <2> QED BY <2>4, <2>6, <2>7, <2>8, <2>9 DEF IInv
  <1> QED BY <1>2, <1>3, <1>4

(* The leases and handles of a process go with it.                         *)
LEMMA CrashInv == ASSUME IInv, NEW p, Crash(p) PROVE IInv'
  <1>1. /\ UNCHANGED <<scenario, file, backups, mem>>
        /\ pc' = [c \in Clients |-> IF Fs(c) = p THEN "dead" ELSE pc[c]]
        /\ held' = {l \in held : l.fs # p}
        /\ opened' = {c \in opened : Fs(c) # p}
    BY DEF Crash
  <1>2. \A d \in Clients : /\ Leases(d)' = Leases(d) /\ Lease(d)' = Lease(d)
                           /\ Desired(d)' = Desired(d) /\ Expected(d)' = Expected(d)
                           /\ Lease(d).fs = Fs(d) /\ Lease(d).owner = d
    BY <1>1 DEF Leases, Lease, Fs, Desired, Expected
  <1>3. \A d \in Clients : pc'[d] = "dead" \/ (pc'[d] = pc[d] /\ Fs(d) # p)
    BY <1>1
  <1>4. Shape'
    BY <1>1 DEF IInv, Shape
  <1>5. \A l \in held' : l \in held /\ l.fs # p /\ l.owner \in Clients /\ pc'[l.owner] = pc[l.owner]
    BY <1>1, <1>2 DEF IInv, Exclusive
  <1>6. \A d \in Clients : pc'[d] # "dead" /\ Lease(d) \in held => Lease(d) \in held'
    BY <1>1, <1>2, <1>3
  <1>7. Exclusive'
    <2>1. \A d \in Clients : Leases(d) /\ pc'[d] \in Active => Lease(d) \in held'
      BY <1>3, <1>6 DEF IInv, Exclusive, Active, Copied
    <2>2. \A d \in Clients : pc'[d] \in AtWrite => d \in opened' \/ Lease(d) \in held'
      BY <1>1, <1>3, <1>6 DEF IInv, Exclusive, AtWrite
    <2>3. \A d \in opened' : d \in Clients /\ pc'[d] \in AtWrite
      BY <1>1 DEF IInv, Exclusive
    <2>4. held' # {} => opened' = {}
      BY <1>1 DEF IInv, Exclusive
    <2> QED BY <1>2, <1>5, <2>1, <2>2, <2>3, <2>4 DEF IInv, Exclusive
  <1>8. ASSUME NEW d \in Clients PROVE Local(d)'
    <2>1. CASE pc'[d] = "dead"
      BY <1>1, <1>2, <2>1 DEF IInv, Local, Active, Copied, TryingTo
    <2>2. CASE pc'[d] = pc[d] /\ Fs(d) # p
      <3>1. Lease(d) \in held => Lease(d) \in held'
        BY <1>1, <1>2, <2>2
      <3>2. Original' = Original
        BY <1>1 DEF Original
      <3> QED BY <1>1, <1>2, <2>2, <3>1, <3>2 DEF IInv, Local
    <2> QED BY <1>3, <2>1, <2>2
  <1>9. OriginalKept'
    BY <1>1 DEF IInv, OriginalKept
  <1> QED BY <1>4, <1>7, <1>8, <1>9 DEF IInv

-------------------------------------------------------------------------------
LEMMA NextInv == IInv /\ [Next]_vars => IInv'
  <1> SUFFICES ASSUME IInv, [Next]_vars PROVE IInv'
    OBVIOUS
  <1>1. CASE UNCHANGED vars
    <2>1. UNCHANGED <<scenario, file, backups, held, opened, pc, mem>>
      BY <1>1 DEF vars
    <2> QED BY <2>1 DEF IInv, Shape, Exclusive, Local, OriginalKept, Original, Expected, Lease,
                        Leases, Fs, Desired
  <1>2. CASE \E c \in Clients : ClientStep(c)
    BY <1>2, LeaseInv, ObserveInv, BackupInv, ApplyInv, OpenInv, EndWriteInv, JudgeInv, TrailInv
       DEF ClientStep
  <1>3. CASE \E p \in Range(scenario.fs) : Crash(p)
    BY <1>3, CrashInv
  <1> QED BY <1>1, <1>2, <1>3 DEF Next

LEMMA AlwaysInv == Spec => []IInv
  BY InitInv, NextInv, PTL DEF Spec

(* Whatever fails, dies or interferes, with or without leases, the         *)
(* original document is in its place or in a backup (createBackup before   *)
(* applyRepair).                                                           *)
THEOREM OriginalStays == Spec => []OriginalKept
  <1>1. IInv => OriginalKept
    BY DEF IInv
  <1> QED BY <1>1, AlwaysInv, PTL

(* Between the observation of a client with a lease and its first write    *)
(* nobody changes the file (acquireWriteLease, CreateFileW).               *)
THEOREM LeasesIsolate == Spec => []LeaseIsolates
  <1>1. IInv => LeaseIsolates
    BY DEF IInv, Local, LeaseIsolates
  <1> QED BY <1>1, AlwaysInv, PTL

(* A client with a lease that reports a restoration has put back what it   *)
(* observed (restoreBackup).                                               *)
THEOREM RestorationsExact == Spec => []RestoredIsObserved
  <1>1. IInv => RestoredIsObserved
    BY DEF IInv, Local, RestoredIsObserved
  <1> QED BY <1>1, AlwaysInv, PTL

(* The findings of the policy decide about the verification, for any       *)
(* documents and rules: without violations the desired values are enough,  *)
(* and a repair with a violation is confirmed only when the rule is about  *)
(* a key that is not desired (evaluate, verify).                           *)
THEOREM PolicyDecides == Spec => []PolicyPredicts
  <1>1. ASSUME IInv PROVE PolicyPredicts
    <2> SUFFICES ASSUME NEW c \in Clients
                 PROVE  /\ pc[c] = "verify" /\ mem[c].violations = {} =>
                              (DesiredReached(Flatten(file.doc), Desired(c)) =>
                                 Verified(Flatten(file.doc), Desired(c), scenario.rules))
                        /\ mem[c].outcome = "repaired" =>
                              \A r \in mem[c].violations :
                                ParseExpression(r.expression).key \notin DOMAIN Desired(c)
      BY DEF PolicyPredicts
    <2>1. Local(c)
      BY <1>1 DEF IInv
    <2>2. ASSUME pc[c] = "verify", mem[c].violations = {},
                 DesiredReached(Flatten(file.doc), Desired(c))
          PROVE  Verified(Flatten(file.doc), Desired(c), scenario.rules)
      <3>1. Expected(c) = {}
        BY <2>1, <2>2 DEF Local, Active, Copied
      <3>2. \A r \in scenario.rules : EvaluateExpression(r.expression, Desired(c))
        BY <3>1 DEF Expected
      <3> QED BY <2>2, <3>2, ReachedIsVerified
    <2> QED BY <2>1, <2>2 DEF Local
  <1> QED BY <1>1, AlwaysInv, PTL

(* A plan for a document that is as desired has no action.                 *)
LEMMA NothingToPlan ==
  ASSUME NEW flat, NEW desired, DesiredReached(flat, desired)
  PROVE  CreatePlan(Drift(flat, desired)) = <<>>
  <1>1. \A d \in Drift(flat, desired) : d.type = "KeyRemoved"
    BY DEF Drift, DriftEvent, DesiredReached
  <1>2. Actions(Drift(flat, desired)) = {}
    BY <1>1 DEF Actions
  <1>3. CreatePlan(Drift(flat, desired))
          = Ordered(Actions(Drift(flat, desired)), LAMBDA a, b : Precedes(a.key, b.key))
    BY DEF CreatePlan, Actions
  <1>4. Ordered({}, LAMBDA a, b : Precedes(a.key, b.key)) = <<>>
    BY FS_EmptySet DEF Ordered
  <1> QED BY <1>2, <1>3, <1>4

(* A repair that is confirmed under a lease is finished while the lease    *)
(* lasts: another plan for the file would be empty and the rules hold      *)
(* (RepairPlanner.cpp createPlan, Verification.cpp).                       *)
RepairFinished ==
  \A c \in Clients : Leases(c) /\ pc[c] = "release" /\ mem[c].outcome = "repaired" =>
    /\ file.whole
    /\ CreatePlan(Drift(Flatten(file.doc), Desired(c))) = <<>>
    /\ \A r \in scenario.rules : EvaluateExpression(r.expression, Flatten(file.doc))

(* This is what RepairedIsStable says of the plan and the rules, for any   *)
(* documents; RepairsStaySound adds that undesired keys stay.              *)
THEOREM RepairsAreFinished == Spec => []RepairFinished
  <1>1. ASSUME IInv PROVE RepairFinished
    <2> SUFFICES ASSUME NEW c \in Clients, Leases(c), pc[c] = "release",
                        mem[c].outcome = "repaired"
                 PROVE  /\ file.whole
                        /\ CreatePlan(Drift(Flatten(file.doc), Desired(c))) = <<>>
                        /\ \A r \in scenario.rules :
                             EvaluateExpression(r.expression, Flatten(file.doc))
      BY DEF RepairFinished
    <2>1. file.whole /\ Verified(Flatten(file.doc), Desired(c), scenario.rules)
      BY <1>1 DEF IInv, Local
    <2>2. DesiredReached(Flatten(file.doc), Desired(c))
      BY <2>1 DEF Verified
    <2> QED BY <2>1, <2>2, NothingToPlan DEF Verified
  <1> QED BY <1>1, AlwaysInv, PTL

(* Together: for any clients, placements, faults and crashes the files are *)
(* guarded.                                                                *)
THEOREM FilesStayGuarded == Spec => []FilesGuarded
  BY LeasesIsolate, OriginalStays, RestorationsExact, PTL DEF FilesGuarded

-------------------------------------------------------------------------------
(* The audit trail of one process.                                         *)

(* The clients share one file system object.                               *)
Together == \A c, d \in Clients : Fs(c) = Fs(d)

InRecord == {"record open", "record write", "record check"}

TrailShape ==
  /\ scenario \in Scenarios
  /\ DOMAIN recording = Range(scenario.fs)
  /\ trail.events \in Seq(Clients)
  /\ acked \subseteq Clients
  /\ \A c \in Clients : mem[c].trail \in Seq(Clients)

(* Only one client is in record(), and it holds the mutex.  What it is     *)
(* about to write holds its own event and all that were confirmed and not  *)
(* lost before, because nothing is confirmed between its reading of the    *)
(* trail and its write; the trail it is about to empty is whole.           *)
TrailHeld ==
  /\ \A c \in Clients : pc[c] \in InRecord => recording[Fs(c)] = c
  /\ \A c \in Clients : pc[c] \in InRecord => c \in Range(mem[c].trail)
  /\ \A c \in Clients : pc[c] \in {"record open", "record write"} =>
                          acked \subseteq Range(mem[c].trail) \cup lost
  /\ \A c \in Clients : pc[c] = "record open" => trail.whole
  /\ AtRest => acked \subseteq Range(trail.events) \cup lost

TrailGuard == TrailShape /\ (Together => TrailHeld)

LEMMA TrailGuardInit == Init => TrailGuard
  <1> SUFFICES ASSUME Init PROVE TrailGuard
    OBVIOUS
  <1>1. <<>> \in Seq(Clients) /\ Range(<<>>) = {}
    BY EmptySeq DEF Range
  <1>2. TrailShape
    BY <1>1 DEF Init, Fresh, TrailShape
  <1>3. \A c \in Clients : pc[c] \in {"start", "record", "done"}
    BY PlacesAssumption DEF Init
  <1>4. TrailHeld
    BY <1>3 DEF Init, TrailHeld, InRecord
  <1> QED BY <1>2, <1>4 DEF TrailGuard

(* A step that leaves the trail alone, of clients outside of record().     *)
LEMMA TrailAside ==
  ASSUME TrailGuard, UNCHANGED <<scenario, trail, recording, acked, lost>>,
         \A c \in Clients : /\ mem'[c].trail = mem[c].trail
                            /\ pc'[c] = pc[c] \/ (pc[c] \notin InRecord /\ pc'[c] \notin InRecord)
  PROVE  TrailGuard'
  <1>1. TrailShape'
    BY DEF TrailGuard, TrailShape
  <1>2. Together' = Together /\ \A c : Fs(c)' = Fs(c)
    BY DEF Together, Fs
  <1>3. ASSUME TrailHeld PROVE TrailHeld'
    <2>1. \A c \in Clients : pc'[c] \in InRecord => pc[c] \in InRecord /\ pc'[c] = pc[c]
      OBVIOUS
    <2>2. AtRest' => AtRest
      BY DEF InRecord, AtRest
    <2>3. {"record open", "record write"} \subseteq InRecord
      BY DEF InRecord
    <2> QED BY <1>2, <1>3, <2>1, <2>2, <2>3 DEF TrailHeld
  <1> QED BY <1>1, <1>2, <1>3 DEF TrailGuard

LEMMA OthersLeaveTrail ==
  ASSUME IInv, TrailGuard, NEW c \in Clients,
         \/ AcquireWriteLease(c) \/ StartUnleased(c) \/ Release(c) \/ Observe(c)
         \/ ReadPreimage(c) \/ StoreBackup(c) \/ CheckBackup(c)
         \/ ReadAndApply(c) \/ OpenTarget(c) \/ WriteTarget(c) \/ Verify(c)
         \/ OpenForRollback(c) \/ RestoreBackup(c) \/ ConfirmRollback(c)
  PROVE  TrailGuard'
  <1>1. DOMAIN pc = Clients /\ DOMAIN mem = Clients /\ \A d \in Clients : DOMAIN mem[d] = Fields
    BY DEF IInv, Shape
  <1> DEFINE Aside ==
        /\ UNCHANGED <<scenario, trail, recording, acked, lost>>
        /\ pc[c] \notin InRecord
        /\ pc' = pc \/ \E label : label \notin InRecord /\ pc' = [pc EXCEPT ![c] = label]
        /\ \A d \in Clients : mem'[d].trail = mem[d].trail
  <1>2. ASSUME NEW outcome, Ends(c, outcome)
        PROVE  /\ \E label : label \notin InRecord /\ pc' = [pc EXCEPT ![c] = label]
               /\ \A d \in Clients : mem'[d].trail = mem[d].trail
    BY <1>1, <1>2 DEF Ends, Goto, InRecord, Fields
  <1>3. ASSUME NEW label, Goto(c, label), label \notin InRecord, UNCHANGED mem
        PROVE  /\ \E l : l \notin InRecord /\ pc' = [pc EXCEPT ![c] = l]
               /\ \A d \in Clients : mem'[d].trail = mem[d].trail
    BY <1>3 DEF Goto
  <1>4. ASSUME AcquireWriteLease(c) \/ StartUnleased(c) \/ Release(c)
        PROVE  Aside
    BY <1>2, <1>3, <1>4 DEF AcquireWriteLease, StartUnleased, Release, audit, InRecord
  <1>5. ASSUME Observe(c) PROVE Aside
    <2>1. UNCHANGED <<scenario, trail, recording, acked, lost>> /\ pc[c] \notin InRecord
      BY <1>5 DEF Observe, audit, InRecord
    <2>2. ASSUME NEW plan, NEW violations, Planned(c, plan, violations)
          PROVE  Aside
      <3>1. CASE Ends(c, "clean") \/ Ends(c, "blocked")
        BY <1>2, <2>1, <3>1
      <3>2. CASE /\ Goto(c, "backup")
                 /\ mem' = [mem EXCEPT ![c].observed = file, ![c].plan = plan,
                                       ![c].violations = violations]
        BY <1>1, <2>1, <3>2 DEF Goto, InRecord, Fields
      <3> QED BY <2>2, <3>1, <3>2 DEF Planned
    <2>3. CASE Ends(c, "failed")
      BY <1>2, <2>1, <2>3
    <2> HIDE DEF Aside
    <2> QED BY <1>5, <2>2, <2>3 DEF Observe
  <1>6. ASSUME ReadPreimage(c) PROVE Aside
    BY <1>1, <1>6 DEF ReadPreimage, Goto, audit, InRecord, Fields
  <1>7. ASSUME StoreBackup(c) PROVE Aside
    <2>1. UNCHANGED <<scenario, trail, recording, acked, lost>> /\ pc[c] \notin InRecord
      BY <1>7 DEF StoreBackup, audit, InRecord
    <2>2. CASE Ends(c, "failed")
      BY <1>2, <2>1, <2>2
    <2>3. CASE /\ mem' = [mem EXCEPT ![c].attempts = @ + 1, ![c].backup = Len(backups')]
               /\ Goto(c, "check")
      BY <1>1, <2>1, <2>3 DEF Goto, InRecord, Fields
    <2>4. CASE mem' = [mem EXCEPT ![c].attempts = @ + 1] /\ UNCHANGED pc
      BY <1>1, <2>1, <2>4 DEF Fields
    <2> HIDE DEF Aside
    <2> QED BY <1>7, <2>2, <2>3, <2>4 DEF StoreBackup
  <1>8. ASSUME CheckBackup(c) \/ Verify(c) \/ ConfirmRollback(c) PROVE Aside
    <2>1. UNCHANGED <<scenario, trail, recording, acked, lost>> /\ pc[c] \notin InRecord
      BY <1>8 DEF CheckBackup, Verify, ConfirmRollback, audit, InRecord
    <2>2. \/ \E outcome : Ends(c, outcome)
          \/ \E label \in {"apply", "rollback"} : Goto(c, label) /\ UNCHANGED mem
      BY <1>8 DEF CheckBackup, Verify, ConfirmRollback
    <2> QED BY <1>2, <1>3, <2>1, <2>2 DEF InRecord
  <1>9. ASSUME ReadAndApply(c) PROVE Aside
    <2>1. UNCHANGED <<scenario, trail, recording, acked, lost>> /\ pc[c] \notin InRecord
      BY <1>9 DEF ReadAndApply, audit, InRecord
    <2>2. CASE Ends(c, "failed")
      BY <1>2, <2>1, <2>2
    <2>3. ASSUME NEW x, mem' = [mem EXCEPT ![c].output = x], Goto(c, "open")
          PROVE  Aside
      BY <1>1, <2>1, <2>3 DEF Goto, InRecord, Fields
    <2> HIDE DEF Aside
    <2> QED BY <1>9, <2>2, <2>3 DEF ReadAndApply
  <1>10. ASSUME OpenTarget(c) \/ OpenForRollback(c) \/ WriteTarget(c) \/ RestoreBackup(c)
         PROVE  Aside
    <2>1. UNCHANGED <<scenario, trail, recording, acked, lost>> /\ pc[c] \notin InRecord
      BY <1>10 DEF OpenTarget, OpenForRollback, WriteTarget, RestoreBackup, audit, InRecord
    <2>2. \/ \E outcome : Ends(c, outcome)
          \/ \E label \in {"write", "restore", "verify", "rollback", "confirm"} :
               Goto(c, label) /\ UNCHANGED mem
      BY <1>10 DEF OpenTarget, OpenForRollback, WriteTarget, RestoreBackup, BeginWrite
    <2> QED BY <1>2, <1>3, <2>1, <2>2 DEF InRecord
  <1>11. Aside
    BY <1>4, <1>5, <1>6, <1>7, <1>8, <1>9, <1>10
  <1>12. \A d \in Clients : pc'[d] = pc[d] \/ (pc[d] \notin InRecord /\ pc'[d] \notin InRecord)
    BY <1>1, <1>11
  <1> QED BY <1>11, <1>12, TrailAside

(* In one process nobody else is in record() beside the holder of the      *)
(* mutex.                                                                  *)
LEMMA AloneInRecord ==
  ASSUME Together, TrailHeld, NEW c \in Clients,
         pc[c] \in InRecord \/ recording[Fs(c)] = "none"
  PROVE  \A d \in Clients \ {c} : pc[d] \notin InRecord
  BY ClientsAssumption DEF Together, TrailHeld

(* What a write leaves is a first part of the new trail.                   *)
LEMMA CutShape ==
  ASSUME NEW c \in Clients, mem[c].trail \in Seq(Clients), NEW cut \in TrailCut(c)
  PROVE  cut.events \in Seq(Clients)
  <1>1. CASE TrailFits(c)
    <2>1. cut.events \in Prefixes(mem[c].trail)
      BY <1>1 DEF TrailCut
    <2>2. PICK k \in 0..Len(mem[c].trail) : cut.events = SubSeq(mem[c].trail, 1, k)
      BY <2>1 DEF Prefixes
    <2> QED BY <2>2, SubSeqProperties
  <1>2. CASE ~TrailFits(c)
    <2>1. cut = [whole |-> TRUE, events |-> <<>>]
      BY <1>2 DEF TrailCut
    <2>2. cut.events = <<>>
      BY <2>1
    <2> QED BY <2>2, EmptySeq
  <1> QED BY <1>1, <1>2

LEMMA RecordStep ==
  ASSUME IInv, TrailGuard, NEW c \in Clients,
         ReadTrail(c) \/ OpenTrail(c) \/ WriteTrail(c) \/ CheckTrail(c)
  PROVE  TrailGuard'
  <1>1. DOMAIN pc = Clients /\ DOMAIN mem = Clients /\ \A d \in Clients : DOMAIN mem[d] = Fields
    BY DEF IInv, Shape
  <1>2. TrailShape
    BY DEF TrailGuard
  <1>3. /\ Append(trail.events, c) \in Seq(Clients)
        /\ Range(Append(trail.events, c)) = Range(trail.events) \cup {c}
    BY <1>2, AppendProperties, RangeOfAppend DEF TrailShape
  <1>4. UNCHANGED scenario /\ Together' = Together /\ \A d : Fs(d)' = Fs(d)
    BY DEF ReadTrail, OpenTrail, WriteTrail, CheckTrail, Together, Fs
  <1>5. Fs(c) \in DOMAIN recording
    BY <1>2, PlacesAssumption DEF TrailShape, Fs, Range
  <1>6. /\ DOMAIN recording' = DOMAIN recording
        /\ \A d \in Clients : mem'[d].trail \in {mem[d].trail, Append(trail.events, c)}
    <2>1. DOMAIN recording' = DOMAIN recording
      BY DEF ReadTrail, OpenTrail, WriteTrail, CheckTrail, EndRecord
    <2>2. UNCHANGED mem \/ mem' = [mem EXCEPT ![c].trail = Append(trail.events, c)]
      BY DEF ReadTrail, OpenTrail, WriteTrail, CheckTrail
    <2> QED BY <1>1, <2>1, <2>2 DEF Fields
  <1>7. TrailShape'
    <2>1. CASE ReadTrail(c)
      BY <1>2, <1>3, <1>4, <1>6, <2>1 DEF ReadTrail, TrailShape
    <2>2. CASE OpenTrail(c)
      <3>1. mem[c].trail \in Seq(Clients)
        BY <1>2 DEF TrailShape
      <3>2. trail'.events \in Seq(Clients)
        BY <1>2, <2>2, <3>1, CutShape DEF OpenTrail, TrailShape
      <3> QED BY <1>2, <1>4, <1>6, <2>2, <3>2 DEF OpenTrail, TrailShape
    <2>3. CASE WriteTrail(c)
      <3>1. trail' = [whole |-> TRUE, events |-> mem[c].trail] \/ UNCHANGED trail
        BY <2>3 DEF WriteTrail
      <3>2. trail'.events \in {trail.events, mem[c].trail}
        BY <3>1
      <3>3. UNCHANGED <<acked, mem>>
        BY <2>3 DEF WriteTrail
      <3> QED BY <1>2, <1>4, <1>6, <3>2, <3>3 DEF TrailShape
    <2>4. CASE CheckTrail(c)
      BY <1>2, <1>4, <1>6, <2>4 DEF CheckTrail, TrailShape
    <2> QED BY <2>1, <2>2, <2>3, <2>4
  <1>8. ASSUME Together, TrailHeld PROVE TrailHeld'
    <2>1. \A d \in Clients \ {c} : pc[d] \notin InRecord
      BY <1>8, AloneInRecord DEF ReadTrail, MayRecord, OpenTrail, WriteTrail, CheckTrail, InRecord
    <2>2. /\ pc' = [pc EXCEPT ![c] = pc'[c]]
          /\ \A d \in Clients \ {c} : pc'[d] \notin InRecord /\ pc'[d] # "record write"
      BY <1>1, <2>1 DEF ReadTrail, OpenTrail, WriteTrail, CheckTrail, EndRecord, Goto, InRecord
    <2>3. /\ AtRest <=> pc[c] # "record write"
          /\ AtRest' <=> pc'[c] # "record write"
      BY <2>1, <2>2 DEF AtRest, InRecord
    <2>4. ASSUME EndRecord(c), acked' \subseteq Range(trail'.events) \cup lost' PROVE TrailHeld'
      <3>1. pc'[c] = "done"
        BY <1>1, <2>4 DEF EndRecord, Goto
      <3> QED BY <2>2, <2>4, <3>1 DEF TrailHeld, InRecord
    <2>5. CASE ReadTrail(c)
      <3>1. /\ pc[c] = "record" /\ UNCHANGED <<trail, acked, lost>>
            /\ acked \subseteq Range(trail.events) \cup lost
        BY <1>8, <2>3, <2>5 DEF ReadTrail, MayRecord, TrailHeld
      <3>2. CASE EndRecord(c)
        BY <2>4, <3>1, <3>2
      <3>3. CASE /\ trail.whole /\ recording' = [recording EXCEPT ![Fs(c)] = c]
                 /\ mem' = [mem EXCEPT ![c].trail = Append(trail.events, c)]
                 /\ Goto(c, "record open")
        <4>1. mem'[c].trail = Append(trail.events, c) /\ pc'[c] = "record open"
          BY <1>1, <3>3 DEF Fields, Goto
        <4>2. recording'[Fs(c)] = c
          BY <1>5, <3>3
        <4> QED BY <1>3, <1>4, <2>2, <2>3, <3>1, <3>3, <4>1, <4>2 DEF TrailHeld, InRecord
      <3> QED BY <2>5, <3>2, <3>3 DEF ReadTrail
    <2>6. CASE OpenTrail(c)
      <3>1. pc[c] = "record open" /\ UNCHANGED <<acked, lost, mem>>
        BY <2>6 DEF OpenTrail
      <3>2. acked \subseteq Range(trail.events) \cup lost
        BY <1>8, <2>3, <3>1 DEF TrailHeld
      <3>3. CASE EndRecord(c) /\ UNCHANGED trail
        BY <2>4, <3>1, <3>2, <3>3
      <3>4. CASE Goto(c, "record write") /\ UNCHANGED recording
        <4>1. pc'[c] = "record write"
          BY <1>1, <3>4 DEF Goto
        <4> QED BY <1>4, <1>8, <2>2, <2>3, <3>1, <3>4, <4>1 DEF TrailHeld, InRecord
      <3> QED BY <2>6, <3>3, <3>4 DEF OpenTrail
    <2>7. CASE WriteTrail(c)
      <3>1. /\ pc[c] = "record write" /\ UNCHANGED <<acked, mem>>
            /\ acked \subseteq Range(mem[c].trail) \cup lost
            /\ recording[Fs(c)] = c /\ c \in Range(mem[c].trail)
        BY <1>8, <2>7 DEF WriteTrail, TrailHeld, InRecord
      <3>2. CASE Loses /\ UNCHANGED trail /\ EndRecord(c)
        BY <2>4, <3>1, <3>2 DEF Loses
      <3>3. CASE Goto(c, "record check") /\ UNCHANGED recording
        <4>1. pc'[c] = "record check"
          BY <1>1, <3>3 DEF Goto
        <4>2. acked' \subseteq Range(trail'.events) \cup lost'
          <5>1. CASE trail' = [whole |-> TRUE, events |-> mem[c].trail] /\ UNCHANGED lost
            BY <3>1, <5>1
          <5>2. CASE Loses /\ UNCHANGED trail
            BY <3>1, <5>2 DEF Loses
          <5> QED BY <2>7, <3>3, <4>1, <5>1, <5>2, <1>1 DEF WriteTrail, EndRecord, Goto
        <4> QED BY <1>4, <2>2, <2>3, <3>1, <3>3, <4>1, <4>2 DEF TrailHeld, InRecord
      <3> QED BY <2>7, <3>2, <3>3 DEF WriteTrail
    <2>8. CASE CheckTrail(c)
      <3>1. /\ pc[c] = "record check" /\ EndRecord(c) /\ UNCHANGED <<trail, lost, mem>>
            /\ \/ acked' = acked
               \/ acked' = acked \cup {c} /\ trail = [whole |-> TRUE, events |-> mem[c].trail]
        BY <2>8 DEF CheckTrail
      <3>2. acked \subseteq Range(trail.events) \cup lost /\ c \in Range(mem[c].trail)
        BY <1>8, <2>3, <3>1 DEF TrailHeld, InRecord
      <3>3. acked' \subseteq Range(trail'.events) \cup lost'
        <4>1. CASE acked' = acked
          BY <3>1, <3>2, <4>1
        <4>2. CASE acked' = acked \cup {c} /\ trail.events = mem[c].trail
          BY <3>1, <3>2, <4>2
        <4>3. trail = [whole |-> TRUE, events |-> mem[c].trail] => trail.events = mem[c].trail
          OBVIOUS
        <4> QED BY <3>1, <4>1, <4>2, <4>3
      <3> QED BY <2>4, <3>1, <3>3
    <2> QED BY <2>5, <2>6, <2>7, <2>8
  <1> QED BY <1>4, <1>7, <1>8 DEF TrailGuard

(* When the process dies, what its write had removed is lost.              *)
LEMMA DeathStep ==
  ASSUME TrailGuard, NEW p, Crash(p), IInv
  PROVE  TrailGuard'
  <1>1. /\ UNCHANGED <<scenario, trail, acked, mem>> /\ DOMAIN recording' = DOMAIN recording
        /\ pc' = [c \in Clients |-> IF Fs(c) = p THEN "dead" ELSE pc[c]]
    BY DEF Crash
  <1>2. TrailShape' /\ Together' = Together
    BY <1>1 DEF TrailGuard, TrailShape, Together, Fs
  <1>3. ASSUME Together, TrailHeld PROVE TrailHeld'
    <2>1. \A c \in Clients : Fs(c) = p
      BY <1>3 DEF Crash, Together
    <2>2. \A c \in Clients : pc'[c] = "dead"
      BY <1>1, <2>1
    <2>3. acked \subseteq Range(trail.events) \cup lost'
      <3>1. CASE AtRest
        BY <1>3, <3>1 DEF TrailHeld, Crash, AtRest
      <3>2. CASE ~AtRest
        BY <2>1, <3>2 DEF Crash, AtRest, Loses
      <3> QED BY <3>1, <3>2
    <2> QED BY <1>1, <2>2, <2>3 DEF TrailHeld, InRecord
  <1> QED BY <1>2, <1>3 DEF TrailGuard

LEMMA TrailGuardStep == IInv /\ TrailGuard /\ [Next]_vars => TrailGuard'
  <1> SUFFICES ASSUME IInv, TrailGuard, [Next]_vars PROVE TrailGuard'
    OBVIOUS
  <1>1. CASE UNCHANGED vars
    BY <1>1, TrailAside DEF vars
  <1>2. CASE \E c \in Clients : ClientStep(c)
    BY <1>2, OthersLeaveTrail, RecordStep DEF ClientStep
  <1>3. CASE \E p \in Range(scenario.fs) : Crash(p)
    BY <1>3, DeathStep
  <1> QED BY <1>1, <1>2, <1>3 DEF Next

LEMMA OneIsTogether == TrailGuard /\ OneProcess => Together
  <1> SUFFICES ASSUME TrailGuard, OneProcess PROVE Together
    OBVIOUS
  <1>1. DOMAIN scenario.fs = Clients
    BY PlacesAssumption DEF TrailGuard, TrailShape
  <1>2. Range(scenario.fs) = {scenario.fs[c] : c \in Clients}
    BY <1>1 DEF Range
  <1>3. IsFiniteSet({scenario.fs[c] : c \in Clients})
    <2> DEFINE Places == {scenario.fs[c] : c \in Clients}
               place  == [c \in Clients |-> scenario.fs[c]]
    <2>1. place \in Surjection(Clients, Places)
      BY DEF Surjection
    <2> QED BY <2>1, ClientsAssumption, FS_Surjection
  <1>4. \E p : Range(scenario.fs) = {p}
    BY <1>2, <1>3, FS_Singleton DEF OneProcess
  <1> QED BY <1>2, <1>4 DEF Together, Fs

(* Any number of clients of one process lose no event that record()        *)
(* confirmed, but by a write that failed, was refused for its size or died *)
(* with the process (AuditTrail.cpp auditMutex, FileSystem.cpp             *)
(* writeFile, writeHandle).                                                *)
THEOREM TrailStays == Spec => []TrailKept
  <1>1. TrailGuard => TrailKept
    BY OneIsTogether DEF TrailGuard, TrailHeld, TrailKept
  <1> QED BY <1>1, AlwaysInv, TrailGuardInit, TrailGuardStep, PTL DEF Spec

(* No client of one process writes over a trail that is cut off within a   *)
(* record or confirms an event in it (AuditTrail.cpp parseEvents).         *)
THEOREM DamageIsLeft == Spec => DamageStays
  <1>1. ASSUME TrailGuard, [Next]_vars, OneProcess, AtRest, ~trail.whole
        PROVE  UNCHANGED <<trail, acked>>
    <2>1. TrailHeld
      BY <1>1, OneIsTogether DEF TrailGuard
    <2>2. CASE \E c \in Clients : ClientStep(c)
      <3>1. PICK c \in Clients : ClientStep(c)
        BY <2>2
      <3>2. CASE ReadTrail(c)
        BY <3>2 DEF ReadTrail
      <3>3. CASE OpenTrail(c)
        <4>1. pc[c] = "record open"
          BY <3>3 DEF OpenTrail
        <4> QED BY <1>1, <2>1, <4>1 DEF TrailHeld
      <3>4. CASE WriteTrail(c)
        BY <1>1, <3>4 DEF WriteTrail, AtRest
      <3>5. CASE CheckTrail(c)
        <4>1. trail # [whole |-> TRUE, events |-> mem[c].trail]
          BY <1>1
        <4> QED BY <3>5, <4>1 DEF CheckTrail
      <3>6. CASE \/ AcquireWriteLease(c) \/ StartUnleased(c) \/ Release(c) \/ Observe(c)
                 \/ ReadPreimage(c) \/ StoreBackup(c) \/ CheckBackup(c)
                 \/ ReadAndApply(c) \/ OpenTarget(c) \/ WriteTarget(c) \/ Verify(c)
                 \/ OpenForRollback(c) \/ RestoreBackup(c) \/ ConfirmRollback(c)
        BY <3>6 DEF AcquireWriteLease, StartUnleased, Release, Observe, ReadPreimage, StoreBackup,
                    CheckBackup, ReadAndApply, OpenTarget, WriteTarget, Verify, OpenForRollback,
                    RestoreBackup, ConfirmRollback, audit
      <3> QED BY <3>1, <3>2, <3>3, <3>4, <3>5, <3>6 DEF ClientStep
    <2>3. CASE \E p \in Range(scenario.fs) : Crash(p)
      BY <2>3 DEF Crash
    <2>4. CASE UNCHANGED vars
      BY <2>4 DEF vars
    <2> QED BY <1>1, <2>2, <2>3, <2>4 DEF Next
  <1>2. TrailGuard /\ [Next]_vars =>
          [OneProcess /\ AtRest /\ ~trail.whole => UNCHANGED <<trail, acked>>]_vars
    BY <1>1
  <1> QED BY <1>2, AlwaysInv, TrailGuardInit, TrailGuardStep, PTL DEF Spec, DamageStays

(* Together: the trail keeps what was confirmed, and damage stays visible  *)
(* (AuditTrail.cpp).                                                       *)
THEOREM TrailStaysSound == Spec => TrailSound
  BY TrailStays, DamageIsLeft DEF TrailSound

-------------------------------------------------------------------------------
(* The documents of the clients.                                           *)

(* What an applied plan makes of a document is a document, whatever the    *)
(* documents it was made for.                                              *)
LEMMA AppliedIsDocument ==
  ASSUME NEW d, IsDocument(d), NEW o, IsDocument(o), NEW e, IsDocument(e)
  PROVE  IsDocument(Apply(d, CreatePlan(Drift(Flatten(o), Flatten(e)))).doc)
  <1>1. PICK plan : plan = CreatePlan(Drift(Flatten(o), Flatten(e)))
    OBVIOUS
  <1>2. PICK V : V = Values(o, e)
    OBVIOUS
  <1> DEFINE X == V \cup Range(d)
  <1>3. plan \in Seq(Doable(V)) /\ {Null, Object, Array} \subseteq V
    BY <1>1, <1>2, PlanFor, ValuesAre
  <1>4. d \in Docs(X) /\ {Null, Object, Array} \subseteq X
    <2>1. d \in [DOMAIN d -> Range(d)]
      BY DEF IsDocument
    <2>2. d \in [DOMAIN d -> X]
      BY <2>1
    <2> HIDE DEF X
    <2> QED BY <1>3, <2>2, DocsAre DEF X
  <1>5. plan \in Seq(Doable(X))
    <2>1. Doable(V) \subseteq Doable(X)
      BY DEF Doable
    <2> HIDE DEF X
    <2> QED BY <1>3, <2>1, SeqMonotonic
  <1> HIDE DEF X
  <1>6. PICK it : AppliedBy(it, X, d, plan)
    BY <1>4, <1>5, ApplyFolds
  <1>7. Len(plan) \in 0..Len(plan)
    BY <1>5, LenProperties
  <1>8. Apply(d, plan) \in Accs(X)
    BY <1>6, <1>7 DEF AppliedBy
  <1> QED BY <1>1, <1>8, DocsAre DEF Accs

(* Files that parse hold documents.                                        *)
Sound(content) == content.whole => IsDocument(content.doc)

(* A repair that c reports.                                               *)
Confirmed(c) == pc[c] = "release" /\ mem[c].outcome = "repaired"

(* The plan of c is the one for what it observed.                          *)
PlannedFor(c) ==
  /\ IsDocument(mem[c].observed.doc)
  /\ mem[c].plan = CreatePlan(Drift(Flatten(mem[c].observed.doc), Desired(c)))

(* This is what the plan of c makes of what it observed.                   *)
ResultOf(c, doc) ==
  /\ Apply(mem[c].observed.doc, mem[c].plan).ok
  /\ doc = Apply(mem[c].observed.doc, mem[c].plan).doc

(* The points at which a client has a plan.                               *)
Planning == (Active \ {"observe"})

(* What the steps of c follow from.                                       *)
Follows(c) ==
  /\ Sound(mem[c].preimage) /\ Sound(mem[c].output)
  /\ pc[c] \in Planning \/ Confirmed(c) => PlannedFor(c)
  /\ Leases(c) /\ pc[c] \in {"open", "write"} => ResultOf(c, mem[c].output.doc)
  /\ Leases(c) /\ pc[c] = "verify" /\ file.whole => ResultOf(c, file.doc)
  /\ Leases(c) /\ Confirmed(c) => ResultOf(c, file.doc)

(* The invariant of the repairs: files that parse hold documents, and what*)
(* a client does follows from what it observed.                           *)
RepairInv ==
  /\ scenario \in Scenarios /\ Sound(file)
  /\ \A content \in Range(backups) : Sound(content)
  /\ \A c \in Clients : Follows(c)

(* It holds in the beginning.                                             *)
LEMMA RepairInit == Init => RepairInv
  <1> SUFFICES ASSUME Init PROVE RepairInv
    OBVIOUS
  <1>1. scenario \in Scenarios /\ Sound(file)
    BY DocumentsAssumption DEF Init, Sound, Whole
  <1>2. \A content \in Range(backups) : Sound(content)
    BY DEF Init, Range
  <1>3. ASSUME NEW c \in Clients PROVE Follows(c)
    <2>1. pc[c] \in {"start", "record", "done"} /\ mem[c] = Fresh
      BY PlacesAssumption DEF Init
    <2>2. Fresh.preimage = Torn /\ Fresh.output = Torn
      BY DEF Fresh
    <2>3. Sound(Torn)
      BY DEF Sound, Torn
    <2> QED BY <2>1, <2>2, <2>3 DEF Follows, Confirmed, Planning, Active, Copied
  <1> QED BY <1>1, <1>2, <1>3 DEF RepairInv

(* A step of c concerns another client only by the file.                   *)
LEMMA OthersFollow ==
  ASSUME IInv, RepairInv, NEW c \in Clients, UNCHANGED scenario,
         \A d \in Clients \ {c} : pc'[d] = pc[d] /\ mem'[d] = mem[d],
         \A d \in Clients \ {c} : Lease(d) \in held => file' = file,
         Sound(file)', \A content \in Range(backups') : Sound(content),
         Follows(c)'
  PROVE  RepairInv'
  <1>1. ASSUME NEW d \in Clients \ {c} PROVE Follows(d)'
    <2>1. Follows(d) /\ Local(d)
      BY DEF RepairInv, IInv
    <2>2. Leases(d)' = Leases(d) /\ Desired(d)' = Desired(d) /\ pc'[d] = pc[d] /\ mem'[d] = mem[d]
      BY DEF Leases, Desired
    <2>3. /\ Confirmed(d)' = Confirmed(d) /\ PlannedFor(d)' = PlannedFor(d)
          /\ ResultOf(d, mem[d].output.doc)' = ResultOf(d, mem[d].output.doc)
      BY <2>2 DEF Confirmed, PlannedFor, ResultOf
    <2>4. ASSUME Leases(d), (pc[d] = "verify" /\ file'.whole) \/ Confirmed(d) PROVE ResultOf(d, file.doc)'
      <3>1. Lease(d) \in held
        BY <2>1, <2>4 DEF IInv, Exclusive, Local, Confirmed, Active, Copied
      <3>2. file' = file
        BY <3>1
      <3>3. ResultOf(d, file.doc)
        BY <2>1, <2>4, <3>2 DEF Follows
      <3> QED BY <2>2, <3>2, <3>3 DEF ResultOf
    <2>5. Sound(mem[d].preimage)' /\ Sound(mem[d].output)'
      BY <2>1, <2>2 DEF Follows, Sound
    <2>6. ASSUME Leases(d), pc[d] \in {"open", "write"} PROVE ResultOf(d, mem[d].output.doc)'
      BY <2>1, <2>2, <2>6 DEF Follows, ResultOf
    <2>7. Planning' = Planning
      BY DEF Planning
    <2> QED BY <2>1, <2>2, <2>3, <2>4, <2>5, <2>6, <2>7 DEF Follows
  <1>2. (\A content \in Range(backups) : Sound(content))'
    BY DEF Sound
  <1> QED BY <1>1, <1>2 DEF RepairInv

(* A step that leaves the file alone.                                      *)
LEMMA FollowsOn ==
  ASSUME IInv, RepairInv, NEW c \in Clients, NEW label, Own(c, label), UNCHANGED <<scenario, file>>,
         \A content \in Range(backups') : Sound(content),
         mem'[c].observed = mem[c].observed, mem'[c].plan = mem[c].plan, mem'[c].output = mem[c].output,
         mem'[c].preimage \in {mem[c].preimage, file},
         label \notin {"open", "write", "verify"}, label \in Planning => pc[c] \in Planning,
         label = "release" => mem'[c].outcome # "repaired"
  PROVE  RepairInv'
  <1>1. /\ pc'[c] = label /\ \A d \in Clients \ {c} : pc'[d] = pc[d] /\ mem'[d] = mem[d]
    BY DEF Own
  <1>2. Follows(c) /\ Sound(file)
    BY DEF RepairInv
  <1>3. Sound(file)' /\ Sound(mem[c].preimage)' /\ Sound(mem[c].output)'
    BY <1>2 DEF Follows, Sound
  <1>4. ~Confirmed(c)' /\ Planning' = Planning
    BY <1>1 DEF Confirmed, Planning
  <1>5. label \in Planning => PlannedFor(c)'
    BY <1>2 DEF Follows, PlannedFor, Desired
  <1>6. Follows(c)'
    BY <1>1, <1>3, <1>4, <1>5 DEF Follows
  <1> QED BY <1>1, <1>3, <1>6, OthersFollow

(* A backup that is added is a copy of something sound, or cut off.       *)
LEMMA SoundBackups ==
  ASSUME IInv, RepairInv, NEW x, Sound(x), backups' \in {backups, Append(backups, x)}
  PROVE  \A content \in Range(backups') : Sound(content)
  <1>1. \A content \in Range(backups) : Sound(content)
    BY DEF RepairInv
  <1>2. CASE backups' = Append(backups, x)
    <2>1. DOMAIN backups' = 1..(Len(backups) + 1) /\ DOMAIN backups = 1..Len(backups) /\ Len(backups) \in Nat
          /\ backups'[Len(backups) + 1] = x /\ \A i \in 1..Len(backups) : backups'[i] = backups[i]
      <3> DEFINE S == Range(backups) \cup {x}
      <3>1. backups \in Seq(S)
        BY DEF IInv, Shape
      <3> QED BY <1>2, <3>1
    <2>2. ASSUME NEW i \in DOMAIN backups' PROVE Sound(backups'[i])
      <3>1. CASE i = Len(backups) + 1
        BY <2>1, <3>1
      <3>2. CASE i # Len(backups) + 1
        <4>1. i \in DOMAIN backups /\ backups'[i] = backups[i]
          BY <2>1, <3>2
        <4> QED BY <1>1, <4>1 DEF Range
      <3> QED BY <3>1, <3>2
    <2> QED BY <2>2 DEF Range
  <1> QED BY <1>1, <1>2

(* Steps that end a repair without confirming it.                         *)
LEMMA EndsFollow ==
  ASSUME IInv, RepairInv, NEW c \in Clients, NEW outcome, outcome # "repaired", Ends(c, outcome),
         UNCHANGED <<scenario, file>>, \A content \in Range(backups') : Sound(content)
  PROVE  RepairInv'
  <1>1. /\ Own(c, "release") /\ mem'[c].outcome = outcome
        /\ mem'[c].observed = mem[c].observed
    BY EndsOwn
  <1>2. /\ mem'[c].plan = mem[c].plan /\ mem'[c].output = mem[c].output
        /\ mem'[c].preimage = mem[c].preimage
    BY DEF IInv, Shape, Ends, Goto, Fields
  <1> QED BY <1>1, <1>2, FollowsOn DEF Planning, Active, Copied

(* Steps that only go on.                                                 *)
LEMMA GoesFollow ==
  ASSUME IInv, RepairInv, NEW c \in Clients, NEW label, Goto(c, label), UNCHANGED <<scenario, file, backups, mem>>,
         label \notin {"open", "write", "verify", "release"}, label \in Planning => pc[c] \in Planning
  PROVE  RepairInv'
  <1>1. Own(c, label)
    BY GoesOwn
  <1>2. \A content \in Range(backups') : Sound(content)
    BY DEF RepairInv
  <1> QED BY <1>1, <1>2, FollowsOn

(* The steps of a client, one by one.                                     *)
LEMMA ObserveFollows == ASSUME IInv, RepairInv, NEW c \in Clients, Observe(c) PROVE RepairInv'
  <1>1. /\ pc[c] = "observe" /\ UNCHANGED <<scenario, file, backups>>
        /\ \A content \in Range(backups') : Sound(content)
    BY DEF Observe, RepairInv
  <1>2. ASSUME NEW outcome \in {"failed", "clean", "blocked"}, Ends(c, outcome)
        PROVE  RepairInv'
    BY <1>1, <1>2, EndsFollow
  <1>3. ASSUME file.whole, NEW plan, plan = CreatePlan(Drift(Flatten(file.doc), Desired(c))),
               NEW violations, Goto(c, "backup"),
               mem' = [mem EXCEPT ![c].observed = file, ![c].plan = plan, ![c].violations = violations]
        PROVE  RepairInv'
    <2>1. /\ Own(c, "backup") /\ mem'[c].observed = file /\ mem'[c].plan = plan
          /\ mem'[c].preimage = mem[c].preimage /\ mem'[c].output = mem[c].output
      BY <1>3 DEF IInv, Shape, Goto, Own, Fields
    <2>2. pc'[c] = "backup" /\ \A d \in Clients \ {c} : pc'[d] = pc[d] /\ mem'[d] = mem[d]
      BY <2>1 DEF Own
    <2>3. IsDocument(file.doc) /\ Sound(file) /\ Follows(c)
      BY <1>3 DEF RepairInv, Sound
    <2>4. PlannedFor(c)'
      BY <1>1, <1>3, <2>1, <2>3 DEF PlannedFor, Desired
    <2>5. Follows(c)'
      BY <2>1, <2>2, <2>3, <2>4 DEF Follows, Sound, Confirmed
    <2>6. Sound(file)'
      BY <1>1, <2>3 DEF Sound
    <2> QED BY <1>1, <2>2, <2>5, <2>6, OthersFollow
  <1>4. CASE ~file.whole \/ ~Evaluable(scenario.rules)
    BY <1>2, <1>4 DEF Observe
  <1>5. CASE ~(~file.whole \/ ~Evaluable(scenario.rules))
    <2>1. PICK plan \in {CreatePlan(Drift(Flatten(file.doc), Desired(c)))},
               violations \in {Violations(scenario.rules, Flatten(file.doc), Desired(c))} :
            Planned(c, plan, violations)
      BY <1>5 DEF Observe
    <2> QED BY <1>2, <1>3, <1>5, <2>1 DEF Planned
  <1> QED BY <1>4, <1>5

(* Backing up.                                                            *)
LEMMA BackupFollows ==
  ASSUME IInv, RepairInv, NEW c \in Clients, ReadPreimage(c) \/ StoreBackup(c) \/ CheckBackup(c)
  PROVE  RepairInv'
  <1>0. \A content \in Range(backups) : Sound(content)
    BY DEF RepairInv
  <1>1. CASE ReadPreimage(c)
    <2>1. pc[c] = "backup" /\ UNCHANGED <<scenario, file, backups>>
      BY <1>1 DEF ReadPreimage
    <2>2. /\ Own(c, "store") /\ mem'[c].observed = mem[c].observed /\ mem'[c].plan = mem[c].plan
          /\ mem'[c].output = mem[c].output /\ mem'[c].preimage = file
      BY <1>1 DEF ReadPreimage, IInv, Shape, Own, Goto, Fields
    <2> QED BY <1>0, <2>1, <2>2, FollowsOn DEF Planning, Active, Copied
  <1>2. CASE StoreBackup(c)
    <2>1. pc[c] = "store" /\ UNCHANGED <<scenario, file>>
      BY <1>2 DEF StoreBackup
    <2>2. Sound(mem[c].preimage) /\ Sound(Torn)
      BY DEF RepairInv, Follows, Sound, Torn
    <2>3. CASE Ends(c, "failed") /\ backups' \in {backups, Append(backups, Torn)}
      <3>1. \A content \in Range(backups') : Sound(content)
        BY <2>2, <2>3, SoundBackups
      <3> QED BY <2>1, <2>3, <3>1, EndsFollow
    <2>4. CASE /\ \E stored \in Stored(mem[c].preimage) : backups' = Append(backups, stored)
               /\ mem' = [mem EXCEPT ![c].attempts = @ + 1, ![c].backup = Len(backups')]
               /\ Goto(c, "check")
      <3>1. \A content \in Range(backups') : Sound(content)
        BY <2>2, <2>4, SoundBackups DEF Stored
      <3>2. /\ Own(c, "check") /\ mem'[c].observed = mem[c].observed /\ mem'[c].plan = mem[c].plan
            /\ mem'[c].output = mem[c].output /\ mem'[c].preimage = mem[c].preimage
        BY <2>4 DEF IInv, Shape, Own, Goto, Fields
      <3> QED BY <2>1, <3>1, <3>2, FollowsOn DEF Planning, Active, Copied
    <2>5. CASE /\ backups' \in {backups, Append(backups, Torn)}
               /\ mem' = [mem EXCEPT ![c].attempts = @ + 1] /\ UNCHANGED pc
      <3>1. \A content \in Range(backups') : Sound(content)
        BY <2>2, <2>5, SoundBackups
      <3>2. /\ Own(c, "store") /\ mem'[c].observed = mem[c].observed /\ mem'[c].plan = mem[c].plan
            /\ mem'[c].output = mem[c].output /\ mem'[c].preimage = mem[c].preimage
        BY <2>1, <2>5 DEF IInv, Shape, Own, Fields
      <3> QED BY <2>1, <3>1, <3>2, FollowsOn DEF Planning, Active, Copied
    <2> QED BY <1>2, <2>3, <2>4, <2>5 DEF StoreBackup
  <1>3. CASE CheckBackup(c)
    <2>1. pc[c] = "check" /\ UNCHANGED <<scenario, file, backups>>
      BY <1>3 DEF CheckBackup
    <2>2. CASE Goto(c, "apply") /\ UNCHANGED mem
      BY <2>1, <2>2, GoesFollow DEF Planning, Active, Copied
    <2>3. CASE Ends(c, "failed")
      BY <1>0, <2>1, <2>3, EndsFollow
    <2> QED BY <1>3, <2>2, <2>3 DEF CheckBackup
  <1> QED BY <1>1, <1>2, <1>3

(* A client with a lease applies its plan to what it observed.             *)
LEMMA ApplyFollows == ASSUME IInv, RepairInv, NEW c \in Clients, ReadAndApply(c) PROVE RepairInv'
  <1>1. /\ pc[c] = "apply" /\ UNCHANGED <<scenario, file, backups>>
        /\ \A content \in Range(backups') : Sound(content)
    BY DEF ReadAndApply, RepairInv
  <1>2. CASE Ends(c, "failed")
    BY <1>1, <1>2, EndsFollow
  <1>3. CASE ~Ends(c, "failed")
    <2>1. PICK applied : applied = Apply(file.doc, mem[c].plan)
      OBVIOUS
    <2>2. /\ file.whole /\ applied.ok /\ Goto(c, "open")
          /\ mem' = [mem EXCEPT ![c].output = Dumped(applied.doc)]
      BY <1>3, <2>1 DEF ReadAndApply
    <2>3. /\ Own(c, "open") /\ mem'[c].observed = mem[c].observed /\ mem'[c].plan = mem[c].plan
          /\ mem'[c].output = Dumped(applied.doc) /\ mem'[c].preimage = mem[c].preimage
      BY <2>2 DEF IInv, Shape, Own, Goto, Fields
    <2>4. pc'[c] = "open" /\ \A d \in Clients \ {c} : pc'[d] = pc[d] /\ mem'[d] = mem[d]
      BY <2>3 DEF Own
    <2>5. Follows(c) /\ PlannedFor(c) /\ Sound(file) /\ Sound(file)'
      BY <1>1 DEF RepairInv, Follows, Planning, Active, Copied, Sound
    <2>6. mem'[c].output.doc = applied.doc
      BY <2>3 DEF Dumped
    <2>7. Sound(mem[c].output)'
      <3>1. IsDocument(file.doc) /\ IsDocument(scenario.desired[c])
        BY <2>2, <2>5, DocumentsAssumption DEF Sound, RepairInv
      <3>2. IsDocument(applied.doc)
        BY <2>1, <2>5, <3>1, AppliedIsDocument DEF PlannedFor, Desired
      <3> QED BY <2>6, <3>2 DEF Sound
    <2>8. Leases(c) => ResultOf(c, mem[c].output.doc)'
      <3> SUFFICES ASSUME Leases(c) PROVE ResultOf(c, mem[c].output.doc)'
        OBVIOUS
      <3>1. file = mem[c].observed
        BY <1>1 DEF IInv, Local, TryingTo
      <3> QED BY <2>1, <2>2, <2>3, <2>6, <3>1 DEF ResultOf
    <2>9. PlannedFor(c)' /\ Leases(c)' = Leases(c)
      BY <1>1, <2>3, <2>5 DEF PlannedFor, Desired, Leases
    <2>10. Sound(mem[c].preimage)'
      BY <2>3, <2>5 DEF Follows, Sound
    <2>11. Follows(c)'
      BY <2>4, <2>7, <2>8, <2>9, <2>10 DEF Follows, Confirmed
    <2> QED BY <1>1, <2>4, <2>5, <2>11, OthersFollow
  <1> QED BY <1>2, <1>3

(* A step that writes the file, by the only client that may.               *)
LEMMA WriterFollows ==
  ASSUME IInv, RepairInv, NEW c \in Clients, NEW label, Own(c, label), UNCHANGED <<scenario, backups>>,
         pc[c] \in AtWrite \/ MayWrite(c), Sound(file)',
         /\ mem'[c].observed = mem[c].observed /\ mem'[c].plan = mem[c].plan
         /\ mem'[c].output = mem[c].output /\ mem'[c].preimage = mem[c].preimage,
         pc[c] \in Planning, label # "open", label = "write" => pc[c] = "open",
         label = "verify" => pc[c] = "write" /\ file' \in {mem[c].output, Torn},
         label = "release" => mem'[c].outcome # "repaired"
  PROVE  RepairInv'
  <1>1. pc'[c] = label /\ \A d \in Clients \ {c} : pc'[d] = pc[d] /\ mem'[d] = mem[d]
    BY DEF Own
  <1>2. \A d \in Clients \ {c} : Lease(d) \notin held
    BY Sole
  <1>3. Follows(c) /\ \A content \in Range(backups') : Sound(content)
    BY DEF RepairInv
  <1>4. /\ Sound(mem[c].preimage)' /\ Sound(mem[c].output)' /\ PlannedFor(c)' /\ Leases(c)' = Leases(c)
        /\ ~Confirmed(c)'
    BY <1>1, <1>3 DEF Follows, Sound, PlannedFor, Desired, Leases, Confirmed
  <1>5. ASSUME Leases(c), label = "write" PROVE ResultOf(c, mem[c].output.doc)'
    BY <1>3, <1>5 DEF Follows, ResultOf
  <1>6. ASSUME Leases(c), label = "verify", file'.whole PROVE ResultOf(c, file.doc)'
    <2>1. file' = mem[c].output
      BY <1>6 DEF Torn
    <2> QED BY <1>3, <1>6, <2>1 DEF Follows, ResultOf
  <1>7. Follows(c)'
    BY <1>1, <1>4, <1>5, <1>6 DEF Follows
  <1> QED BY <1>1, <1>2, <1>3, <1>7, OthersFollow

(* Writing.                                                               *)
LEMMA TargetFollows ==
  ASSUME IInv, RepairInv, NEW c \in Clients, OpenTarget(c) \/ WriteTarget(c) PROVE RepairInv'
  <1>0. Sound(Torn) /\ Sound(mem[c].output) /\ \A content \in Range(backups) : Sound(content)
    BY DEF Sound, Torn, RepairInv, Follows
  <1>1. CASE OpenTarget(c)
    <2>1. pc[c] = "open" /\ UNCHANGED <<scenario, backups>>
      BY <1>1 DEF OpenTarget
    <2>2. CASE MayWrite(c)
      <3>1. file' = Torn /\ Goto(c, "write") /\ UNCHANGED mem
        BY <1>1, <2>2 DEF OpenTarget, BeginWrite
      <3>2. Own(c, "write") /\ Sound(file)'
        BY <1>0, <3>1, GoesOwn DEF Sound
      <3> QED BY <2>1, <2>2, <3>1, <3>2, WriterFollows DEF Planning, Active, Copied
    <2>3. CASE ~MayWrite(c)
      BY <1>0, <1>1, <2>1, <2>3, EndsFollow DEF OpenTarget
    <2> QED BY <2>2, <2>3
  <1>2. CASE WriteTarget(c)
    <2>1. pc[c] = "write" /\ UNCHANGED <<scenario, backups, mem>>
      BY <1>2 DEF WriteTarget
    <2>2. CASE file' \in Stored(mem[c].output) /\ Goto(c, "verify")
      <3>1. file' \in {mem[c].output, Torn}
        BY <2>2 DEF Stored
      <3>2. Own(c, "verify") /\ Sound(file)'
        BY <1>0, <2>1, <2>2, <3>1, GoesOwn DEF Sound
      <3> QED BY <2>1, <3>1, <3>2, WriterFollows DEF Planning, Active, Copied, AtWrite
    <2>3. CASE UNCHANGED file /\ Goto(c, "rollback")
      BY <2>1, <2>3, GoesFollow DEF Planning, Active, Copied
    <2> QED BY <1>2, <2>2, <2>3 DEF WriteTarget
  <1> QED BY <1>1, <1>2

(* Rolling back.                                                          *)
LEMMA RollbackFollows ==
  ASSUME IInv, RepairInv, NEW c \in Clients,
         OpenForRollback(c) \/ RestoreBackup(c) \/ ConfirmRollback(c)
  PROVE  RepairInv'
  <1>0. Sound(Torn) /\ \A content \in Range(backups) : Sound(content)
    BY DEF Sound, Torn, RepairInv
  <1>1. CASE OpenForRollback(c)
    <2>1. pc[c] = "rollback" /\ UNCHANGED <<scenario, backups>>
      BY <1>1 DEF OpenForRollback
    <2>2. CASE MayWrite(c)
      <3>1. file' = Torn /\ Goto(c, "restore") /\ UNCHANGED mem
        BY <1>1, <2>2 DEF OpenForRollback, BeginWrite
      <3>2. Own(c, "restore") /\ Sound(file)'
        BY <1>0, <3>1, GoesOwn DEF Sound
      <3> QED BY <2>1, <2>2, <3>1, <3>2, WriterFollows DEF Planning, Active, Copied
    <2>3. CASE ~MayWrite(c)
      BY <1>0, <1>1, <2>1, <2>3, EndsFollow DEF OpenForRollback
    <2> QED BY <2>2, <2>3
  <1>2. CASE RestoreBackup(c)
    <2>1. pc[c] = "restore" /\ UNCHANGED <<scenario, backups>>
      BY <1>2 DEF RestoreBackup
    <2>2. CASE file' \in Stored(backups[mem[c].backup]) /\ Goto(c, "confirm") /\ UNCHANGED mem
      <3>1. backups[mem[c].backup] \in Range(backups)
        BY <2>1 DEF IInv, Shape, Local, Copied, Range
      <3>2. Own(c, "confirm") /\ Sound(file)'
        BY <1>0, <2>1, <2>2, <3>1, GoesOwn DEF Sound, Stored
      <3> QED BY <2>1, <2>2, <3>2, WriterFollows DEF Planning, Active, Copied, AtWrite
    <2>3. CASE UNCHANGED file /\ Ends(c, "stuck")
      BY <1>0, <2>1, <2>3, EndsFollow
    <2> QED BY <1>2, <2>2, <2>3 DEF RestoreBackup
  <1>3. CASE ConfirmRollback(c)
    <2>1. \E outcome \in {"restored", "stuck"} : Ends(c, outcome)
      BY <1>3 DEF ConfirmRollback
    <2>2. UNCHANGED <<scenario, file, backups>>
      BY <1>3 DEF ConfirmRollback
    <2> QED BY <1>0, <2>1, <2>2, EndsFollow
  <1> QED BY <1>1, <1>2, <1>3

(* Verifying.                                                             *)
LEMMA VerifyFollows == ASSUME IInv, RepairInv, NEW c \in Clients, Verify(c) PROVE RepairInv'
  <1>1. pc[c] = "verify" /\ UNCHANGED <<scenario, file, backups>>
    BY DEF Verify
  <1>2. CASE Goto(c, "rollback") /\ UNCHANGED mem
    BY <1>1, <1>2, GoesFollow DEF Planning, Active, Copied
  <1>3. CASE file.whole /\ Ends(c, "repaired")
    <2>1. /\ Own(c, "release") /\ mem'[c].outcome = "repaired" /\ mem'[c].observed = mem[c].observed
      BY <1>3, EndsOwn
    <2>2. mem'[c].plan = mem[c].plan /\ mem'[c].output = mem[c].output /\ mem'[c].preimage = mem[c].preimage
      BY <1>3 DEF IInv, Shape, Ends, Goto, Fields
    <2>3. pc'[c] = "release" /\ \A d \in Clients \ {c} : pc'[d] = pc[d] /\ mem'[d] = mem[d]
      BY <2>1 DEF Own
    <2>4. Follows(c) /\ PlannedFor(c) /\ Sound(file)' /\ (Leases(c) => ResultOf(c, file.doc))
      BY <1>1, <1>3 DEF RepairInv, Follows, Sound, Planning, Active, Copied
    <2>5. PlannedFor(c)' /\ Leases(c)' = Leases(c) /\ (Leases(c) => ResultOf(c, file.doc)')
      BY <1>1, <2>1, <2>2, <2>4 DEF PlannedFor, Desired, Leases, ResultOf
    <2>6. Sound(mem[c].preimage)' /\ Sound(mem[c].output)'
      BY <2>2, <2>4 DEF Follows, Sound
    <2>7. Follows(c)'
      BY <2>3, <2>5, <2>6 DEF Follows
    <2>8. \A content \in Range(backups') : Sound(content)
      BY <1>1 DEF RepairInv
    <2> QED BY <1>1, <2>3, <2>4, <2>7, <2>8, OthersFollow
  <1> QED BY <1>2, <1>3 DEF Verify

(* Leasing.                                                               *)
LEMMA LeaseFollows ==
  ASSUME IInv, RepairInv, NEW c \in Clients, AcquireWriteLease(c) \/ StartUnleased(c) \/ Release(c)
  PROVE  RepairInv'
  <1>0. \A content \in Range(backups) : Sound(content)
    BY DEF RepairInv
  <1>1. UNCHANGED <<scenario, file, backups>>
    BY DEF AcquireWriteLease, StartUnleased, Release
  <1>2. ASSUME NEW label \in {"observe", "record", "done"}, Goto(c, label), UNCHANGED mem PROVE RepairInv'
    BY <1>1, <1>2, GoesFollow DEF Planning, Active, Copied
  <1>3. ASSUME Ends(c, "refused") PROVE RepairInv'
    BY <1>0, <1>1, <1>3, EndsFollow
  <1> QED BY <1>2, <1>3 DEF AcquireWriteLease, StartUnleased, Release

(* Recording.                                                             *)
LEMMA TrailFollows ==
  ASSUME IInv, RepairInv, NEW c \in Clients,
         ReadTrail(c) \/ OpenTrail(c) \/ WriteTrail(c) \/ CheckTrail(c)
  PROVE  RepairInv'
  <1>1. UNCHANGED <<scenario, file, backups>> /\ \A content \in Range(backups') : Sound(content)
    BY DEF ReadTrail, OpenTrail, WriteTrail, CheckTrail, RepairInv
  <1>2. ASSUME NEW label \in {"done", "record write", "record check"}, Goto(c, label), UNCHANGED mem
        PROVE  RepairInv'
    BY <1>1, <1>2, GoesFollow DEF Planning, Active, Copied
  <1>3. ASSUME Goto(c, "record open"), mem' = [mem EXCEPT ![c].trail = Append(trail.events, c)]
        PROVE  RepairInv'
    <2>1. /\ Own(c, "record open") /\ mem'[c].observed = mem[c].observed /\ mem'[c].plan = mem[c].plan
          /\ mem'[c].output = mem[c].output /\ mem'[c].preimage = mem[c].preimage
      BY <1>3 DEF IInv, Shape, Own, Goto, Fields
    <2> QED BY <1>1, <2>1, FollowsOn DEF Planning, Active, Copied
  <1> QED BY <1>2, <1>3 DEF ReadTrail, OpenTrail, WriteTrail, CheckTrail, EndRecord

(* Dying.                                                                 *)
LEMMA CrashFollows == ASSUME RepairInv, NEW p, Crash(p) PROVE RepairInv'
  <1>1. /\ UNCHANGED <<scenario, file, backups, mem>>
        /\ \A c \in Clients : pc'[c] \in {pc[c], "dead"}
    BY DEF Crash
  <1>2. ASSUME NEW c \in Clients PROVE Follows(c)'
    <2>1. Follows(c)
      BY DEF RepairInv
    <2>2. /\ Sound(mem[c].preimage)' /\ Sound(mem[c].output)' /\ Leases(c)' = Leases(c)
          /\ PlannedFor(c)' = PlannedFor(c) /\ ResultOf(c, file.doc)' = ResultOf(c, file.doc)
          /\ ResultOf(c, mem[c].output.doc)' = ResultOf(c, mem[c].output.doc)
      BY <1>1, <2>1 DEF Follows, Sound, Leases, PlannedFor, Desired, ResultOf
    <2>3. Confirmed(c)' => Confirmed(c)
      BY <1>1 DEF Confirmed
    <2>4. (pc[c] \in Planning)' => pc[c] \in Planning
      BY <1>1 DEF Planning, Active, Copied
    <2> QED BY <1>1, <2>1, <2>2, <2>3, <2>4 DEF Follows
  <1>3. Sound(file)' /\ (\A content \in Range(backups) : Sound(content))'
    BY <1>1 DEF RepairInv, Sound
  <1> QED BY <1>1, <1>2, <1>3 DEF RepairInv

(* It is kept.                                                            *)
LEMMA RepairStep == IInv /\ RepairInv /\ [Next]_vars => RepairInv'
  <1> SUFFICES ASSUME IInv, RepairInv, [Next]_vars PROVE RepairInv'
    OBVIOUS
  <1>1. ASSUME NEW c \in Clients, ClientStep(c) PROVE RepairInv'
    BY <1>1, LeaseFollows, ObserveFollows, BackupFollows, ApplyFollows, TargetFollows, VerifyFollows,
       RollbackFollows, TrailFollows DEF ClientStep
  <1>2. ASSUME NEW p, Crash(p) PROVE RepairInv'
    BY <1>2, CrashFollows
  <1>3. CASE UNCHANGED vars
    BY <1>3 DEF vars, RepairInv, Sound, Follows, Confirmed, PlannedFor, ResultOf, Leases, Desired, Planning
  <1> QED BY <1>1, <1>2, <1>3 DEF Next

(* It always holds.                                                       *)
LEMMA AlwaysRepairInv == Spec => []RepairInv
  <1>1. Spec => []IInv
    BY AlwaysInv
  <1>2. Init => RepairInv
    BY RepairInit
  <1>3. IInv /\ RepairInv /\ [Next]_vars => RepairInv'
    BY RepairStep
  <1> QED BY <1>1, <1>2, <1>3, PTL DEF Spec

-------------------------------------------------------------------------------
(* The repairs.                                                            *)

(* What a confirmed repair under a lease leaves of what it observed.       *)
LEMMA ConfirmedIsStable ==
  ASSUME IInv, RepairInv, NEW c \in Clients, Leases(c), Confirmed(c),
         NEW observed, observed = mem[c].observed.doc
  PROVE  /\ CreatePlan(Drift(Flatten(file.doc), Desired(c))) = <<>>
         /\ \A r \in scenario.rules : EvaluateExpression(r.expression, Flatten(file.doc))
         /\ \A n \in DOMAIN observed :
              observed[n] # Null /\ PathOf(observed, n) \notin DOMAIN Desired(c) =>
                n \in DOMAIN file.doc /\ file.doc[n] = observed[n]
         /\ <<NoName>> \notin DOMAIN observed =>
              \A k \in DOMAIN Flatten(observed) \ DOMAIN Desired(c) :
                Flatten(observed)[k] # Null =>
                  k \in DOMAIN Flatten(file.doc) /\ Flatten(file.doc)[k] = Flatten(observed)[k]
  <1>1. Verified(Flatten(file.doc), Desired(c), scenario.rules)
    BY DEF IInv, Local, Confirmed
  <1>2. DesiredReached(Flatten(file.doc), Desired(c))
    BY <1>1 DEF Verified
  <1>3. PlannedFor(c) /\ ResultOf(c, file.doc) /\ scenario \in Scenarios
    BY DEF RepairInv, Follows
  <1>4. PICK e : e = scenario.desired[c]
    OBVIOUS
  <1>5. PICK plan : plan = mem[c].plan
    OBVIOUS
  <1>6. /\ IsDocument(observed) /\ IsDocument(e) /\ plan = CreatePlan(Drift(Flatten(observed), Flatten(e)))
        /\ Apply(observed, plan).ok /\ file.doc = Apply(observed, plan).doc /\ Desired(c) = Flatten(e)
    BY <1>3, <1>4, <1>5, DocumentsAssumption DEF PlannedFor, ResultOf, Desired
  <1>7. Repaired(observed, e, file.doc, plan)
    BY <1>2, <1>6, RepairedHolds
  <1>8. ASSUME NEW n \in DOMAIN observed, observed[n] # Null, PathOf(observed, n) \notin DOMAIN Desired(c)
        PROVE  n \in DOMAIN file.doc /\ file.doc[n] = observed[n]
    BY <1>6, <1>7, <1>8, NodeKept
  <1>9. ASSUME <<NoName>> \notin DOMAIN observed, NEW k \in DOMAIN Flatten(observed) \ DOMAIN Desired(c),
               Flatten(observed)[k] # Null
        PROVE  k \in DOMAIN Flatten(file.doc) /\ Flatten(file.doc)[k] = Flatten(observed)[k]
    BY <1>6, <1>7, <1>9, FlatKept
  <1>10. CreatePlan(Drift(Flatten(file.doc), Desired(c))) = <<>>
    BY <1>2, NothingToPlan
  <1> QED BY <1>1, <1>8, <1>9, <1>10 DEF Verified

(* So confirmed repairs are stable.                                       *)
LEMMA StableNow == IInv /\ RepairInv => RepairedIsStable
  <1> SUFFICES ASSUME IInv, RepairInv, NEW c \in Clients,
                      Leases(c) /\ pc[c] = "release" /\ mem[c].outcome = "repaired",
                      NEW observed \in {mem[c].observed.doc}
               PROVE  \E before \in {Flatten(observed)}, after \in {Flatten(file.doc)} :
                        /\ CreatePlan(Drift(after, Desired(c))) = <<>>
                        /\ \A r \in scenario.rules : EvaluateExpression(r.expression, after)
                        /\ \A n \in DOMAIN observed :
                             observed[n] # Null /\ PathOf(observed, n) \notin DOMAIN Desired(c) =>
                               n \in DOMAIN file.doc /\ file.doc[n] = observed[n]
                        /\ <<"">> \notin DOMAIN observed =>
                             \A k \in DOMAIN before \ DOMAIN Desired(c) :
                               before[k] # Null => k \in DOMAIN after /\ after[k] = before[k]
    BY DEF RepairedIsStable
  <1>1. Confirmed(c)
    BY DEF Confirmed
  <1>2. <<"">> \notin DOMAIN observed => <<NoName>> \notin DOMAIN observed
    BY DEF NoName
  <1> WITNESS Flatten(observed) \in {Flatten(observed)}, Flatten(file.doc) \in {Flatten(file.doc)}
  <1>3. observed = mem[c].observed.doc
    OBVIOUS
  <1>4. /\ CreatePlan(Drift(Flatten(file.doc), Desired(c))) = <<>>
        /\ \A r \in scenario.rules : EvaluateExpression(r.expression, Flatten(file.doc))
        /\ \A n \in DOMAIN observed :
             observed[n] # Null /\ PathOf(observed, n) \notin DOMAIN Desired(c) =>
               n \in DOMAIN file.doc /\ file.doc[n] = observed[n]
    BY <1>1, <1>3, ConfirmedIsStable
  <1>5. <<NoName>> \notin DOMAIN observed =>
          \A k \in DOMAIN Flatten(observed) \ DOMAIN Desired(c) :
            Flatten(observed)[k] # Null =>
              k \in DOMAIN Flatten(file.doc) /\ Flatten(file.doc)[k] = Flatten(observed)[k]
    BY <1>1, <1>3, ConfirmedIsStable
  <1> QED BY <1>2, <1>4, <1>5, Zenon

(* The quick check for drift says what the analysis says.                  *)
LEMMA AgreesNow == RepairInv => DriftAgrees
  <1> SUFFICES ASSUME RepairInv, NEW c \in Clients, file.whole
               PROVE  HasDrift(Flatten(file.doc), Desired(c)) <=> Drift(Flatten(file.doc), Desired(c)) # {}
    BY DEF DriftAgrees
  <1>1. IsDocument(file.doc) /\ IsDocument(scenario.desired[c])
    BY DocumentsAssumption DEF RepairInv, Sound
  <1>2. IsFiniteSet(DOMAIN Flatten(file.doc)) /\ IsFiniteSet(DOMAIN Desired(c))
    BY <1>1, FlattenIs DEF Desired
  <1> QED BY <1>2, DriftIsDetected

(* A confirmed repair is finished and conservative, the policy predicts   *)
(* what verification finds, and the quick check for drift agrees with the *)
(* analysis, for any documents, rules, clients, faults and crashes        *)
(* (RepairPlanner.cpp, JsonConfigAdapter.cpp, PolicyEvaluator.cpp,        *)
(* DriftAnalyzer.cpp).                                                    *)
THEOREM RepairsStaySound == Spec => []RepairSound
  <1>1. IInv /\ RepairInv => RepairedIsStable /\ DriftAgrees
    BY StableNow, AgreesNow
  <1> QED BY <1>1, AlwaysInv, AlwaysRepairInv, PolicyDecides, PTL DEF RepairSound

-------------------------------------------------------------------------------
(* A regular document is got back from its flattened form.  The paths come *)
(* in some order, each of them.                                            *)
LEMMA PathsInOrder ==
  ASSUME NEW T, IsFiniteSet(T), T \subseteq Seq(Strings)
  PROVE  /\ Ordered(T, Precedes) \in Seq(T)
         /\ \A x \in T : \E i \in 1..Len(Ordered(T, Precedes)) : Ordered(T, Precedes)[i] = x
  <1> DEFINE R == {p \in T \X T : Precedes(p[1], p[2])}
             n == Cardinality(T)
             Before(x) == {y \in T : Precedes(y, x)}
             e(i) == CHOOSE x \in T : Cardinality({y \in T : Precedes(y, x)}) = i - 1
             q == [i \in 1..n |-> e(i)]
  <1>1. Ordered(T, Precedes) = q
    <2>1. Ordered(T, Precedes) =
            CHOOSE s \in {[i \in 1..Cardinality(U) |->
                             CHOOSE x \in U : Cardinality({y \in U : Precedes(y, x)}) = i - 1] : U \in {T}} : TRUE
      BY DEF Ordered
    <2> DEFINE Listed(U) == [i \in 1..Cardinality(U) |->
                              CHOOSE x \in U : Cardinality({y \in U : Precedes(y, x)}) = i - 1]
    <2>2. Ordered(T, Precedes) = CHOOSE s \in {Listed(U) : U \in {T}} : TRUE
      BY <2>1
    <2>3. Listed(T) = q
      OBVIOUS
    <2> HIDE DEF Listed
    <2>4. {Listed(U) : U \in {T}} = {Listed(T)}
      OBVIOUS
    <2>5. (CHOOSE s \in {Listed(T)} : TRUE) = Listed(T)
      OBVIOUS
    <2> QED BY <2>2, <2>3, <2>4, <2>5
  <1>2. IsOrder(R, T)
    <2>1. \A x \in T : <<x, x>> \notin R
      BY PrecedesIs
    <2>2. \A x, y \in T : x # y => <<x, y>> \in R \/ <<y, x>> \in R
      BY PrecedesOne
    <2>3. \A x, y, z \in T : <<x, y>> \in R /\ <<y, z>> \in R => <<x, z>> \in R
      BY PrecedesOn
    <2> HIDE DEF R
    <2> QED BY <2>1, <2>2, <2>3 DEF IsOrder
  <1>3. \A x \in T : {y \in T : <<y, x>> \in R} = Before(x)
    OBVIOUS
  <1>4. Ranked(R, T) /\ Apart(R, T)
    <2> HIDE DEF R
    <2> QED BY <1>2, Enumerated
  <1>5. /\ n \in Nat
        /\ \A i \in 1..n : \E x \in T : Cardinality(Before(x)) = i - 1
        /\ \A x \in T : Cardinality(Before(x)) + 1 \in 1..n
        /\ \A x \in T : \A z \in T : Cardinality(Before(z)) = Cardinality(Before(x)) => z = x
    <2> HIDE DEF R, Before
    <2> QED BY <1>3, <1>4 DEF Ranked, Apart
  <1>6. \A i \in 1..n : e(i) \in T /\ Cardinality(Before(e(i))) = i - 1
    <2> TAKE i \in 1..n
    <2>1. \E x \in T : Cardinality({y \in T : Precedes(y, x)}) = i - 1
      BY <1>5
    <2> QED BY <2>1
  <1> HIDE DEF e
  <1>7. q \in Seq(T) /\ Len(q) = n
    <2>1. q \in [1..n -> T]
      <3> HIDE DEF n
      <3> QED BY <1>6
    <2> HIDE DEF q, n
    <2>2. q \in Seq(T)
      BY <1>5, <2>1, SeqDef
    <2> QED BY <1>5, <2>1, <2>2, LenProperties
  <1>8. ASSUME NEW x \in T PROVE \E i \in 1..n : q[i] = x
    <2> DEFINE i == Cardinality(Before(x)) + 1
    <2> HIDE DEF n, Before
    <2>1. i \in 1..n /\ q[i] = e(i)
      BY <1>5
    <2>2. Cardinality(Before(x)) \in Nat
      <3>1. IsFiniteSet(Before(x))
        BY FS_Subset DEF Before
      <3> QED BY <3>1, FS_CardinalityType
    <2>3. i - 1 = Cardinality(Before(x))
      BY <2>2
    <2>4. Cardinality(Before(e(i))) = Cardinality(Before(x)) /\ e(i) \in T
      BY <1>6, <2>1, <2>3
    <2>5. e(i) = x
      BY <1>5, <2>4
    <2> QED BY <2>1, <2>5
  <1> QED BY <1>1, <1>7, <1>8

(* The intermediate results of Unflatten.                                  *)
Wrote(acc, path, value) ==
  IF acc.ok THEN [Set(acc.doc, path, value) EXCEPT !.at = <<>>] ELSE acc
Root == [n \in {<<>>} |-> Object]
UnflatBy(it, X, flat, q) ==
  /\ it[0] = Start(Root) /\ Unflatten(flat) = it[Len(q)]
  /\ \A m \in 1..Len(q) : it[m] = Wrote(it[m - 1], q[m], flat[q[m]])
  /\ \A m \in 0..Len(q) : it[m] \in Accs(X)

(* It begins with an empty object.                                         *)
LEMMA RootIs ==
  ASSUME NEW X, Object \in X
  PROVE  Root \in Docs(X) /\ DOMAIN Root = {<<>>} /\ Root[<<>>] = Object
  <1>2. DOMAIN Root = {<<>>} /\ Root[<<>>] = Object
    BY DEF Root
  <1>3. Root \in [{<<>>} -> X]
    BY DEF Root
  <1>4. IsFiniteSet({<<>>}) /\ <<>> \in Seq(Strings)
    <2>1. IsFiniteSet({<<>>})
      BY FS_Singleton, Zenon
    <2> QED BY <2>1
  <1>5. Root[<<>>] # Array
    BY <1>2 DEF Object, Array
  <1>6. Root \in Docs(X)
    <2>1. \A n \in {<<>>} : n \in Seq(Strings) /\ Root[n] # Array
      BY <1>2, <1>4, <1>5
    <2> QED BY <1>3, <1>4, <2>1, DocsHave
  <1> QED BY <1>2, <1>6

(* A step keeps a document.                                                *)
LEMMA WroteIs ==
  ASSUME NEW X, {Null, Object, Array} \subseteq X, NEW acc \in Accs(X), NEW path \in Seq(Spelled),
         NEW v \in X, v \notin Containers
  PROVE  Wrote(acc, path, v) \in Accs(X)
  <1>1. CASE ~acc.ok
    BY <1>1 DEF Wrote
  <1>2. CASE acc.ok
    <2>1. PICK b : b = Set(acc.doc, path, v)
      OBVIOUS
    <2>2. acc.doc \in Docs(X)
      BY DEF Accs
    <2>3. b \in Accs(X)
      BY <2>1, <2>2, SetIs
    <2>4. <<>> \in DOMAIN b.doc /\ <<>> \in Seq(Words)
      <3>1. b.doc \in Docs(X)
        BY <2>3 DEF Accs
      <3>2. <<>> \in DOMAIN b.doc
        BY <3>1, DocsAre DEF IsDocument
      <3> QED BY <3>2
    <2>5. [b EXCEPT !.at = <<>>] \in Accs(X)
      BY <2>3, <2>4 DEF Accs
    <2> QED BY <1>2, <2>1, <2>5 DEF Wrote
  <1> QED BY <1>1, <1>2

(* There are such results.                                                 *)
LEMMA UnflattenFolds ==
  ASSUME NEW X, {Null, Object, Array} \subseteq X, NEW flat, IsFiniteSet(DOMAIN flat),
         \A k \in DOMAIN flat : k \in Seq(Spelled) /\ flat[k] \in X /\ flat[k] \notin Containers,
         NEW q, q = Ordered(DOMAIN flat, Precedes), q \in Seq(DOMAIN flat)
  PROVE  \E it : UnflatBy(it, X, flat, q)
  <1> DEFINE n == Len(q)
             V == Accs(X)
             op(acc, path) == Wrote(acc, path, flat[path])
             F == [p \in V \X (1..n) |-> op(p[1], q[p[2]])]
             Step(h) == [t \in SUBSET (1..n) |->
                           IF t = {} THEN Start(Root) ELSE op(h[t \ {Max(t)}], q[Max(t)])]
             iter == CHOOSE h : h = Step(h)
  <1>1. n \in Nat /\ DOMAIN q = 1..n /\ \A i \in 1..n : q[i] \in DOMAIN flat
    BY LenProperties, ElementOfSeq
  <1>2. F \in [V \X (1..n) -> V] /\ Start(Root) \in V
    <2>1. \A p \in V \X (1..n) : op(p[1], q[p[2]]) \in V
      <3> HIDE DEF n
      <3> QED BY <1>1, WroteIs
    <2> HIDE DEF V, n, op
    <2>2. F \in [V \X (1..n) -> V]
      BY <2>1
    <2> QED BY <2>2, StartIs, RootIs DEF V
  <1>3. Unflatten(flat) = iter[1..n]
    BY <1>1 DEF Unflatten, Wrote, Start, Root, FoldLeft, MapThenFoldSet
  <1> HIDE DEF op
  <1>4. PICK g \in [SUBSET (1..n) -> V] : IsFold(g, Start(Root), n, F)
    <2> HIDE DEF n, F, V
    <2> QED BY <1>1, <1>2, FoldExists
  <1>5. g = Step(g)
    <2>1. ASSUME NEW t \in SUBSET (1..n), t # {} PROVE g[t] = op(g[t \ {Max(t)}], q[Max(t)])
      <3>1. Max(t) \in 1..n /\ g[t \ {Max(t)}] \in V
        <4> HIDE DEF n, V
        <4> QED BY <1>1, <2>1, MaxInside
      <3> HIDE DEF V, n
      <3> QED BY <1>4, <2>1, <3>1 DEF IsFold
    <2> HIDE DEF V, n, F
    <2> QED BY <1>4, <2>1 DEF IsFold
  <1>6. iter = Step(iter)
    <2> HIDE DEF Step
    <2> QED BY <1>5
  <1> DEFINE it == [m \in 0..n |-> iter[1..m]]
  <1>7. it[0] = Start(Root) /\ it[n] = iter[1..n] /\ \A m \in 1..n : it[m] = op(it[m - 1], q[m])
    <2> HIDE DEF iter, n
    <2>1. \A t \in SUBSET (1..n) :
            iter[t] = IF t = {} THEN Start(Root) ELSE op(iter[t \ {Max(t)}], q[Max(t)])
      BY <1>6, Zenon
    <2> HIDE DEF V, F
    <2>2. 1..0 = {} /\ {} \in SUBSET (1..n) /\ \A m \in 1..n : 1..m \in SUBSET (1..n) /\ m \in Nat \ {0}
      BY <1>1
    <2>3. iter[1..0] = Start(Root) /\ \A m \in 1..n : iter[1..m] = op(iter[1..(m - 1)], q[m])
      BY <2>1, <2>2, IntervalStep
    <2>4. 0 \in 0..n /\ n \in 0..n /\ \A m \in 1..n : m \in 0..n /\ m - 1 \in 0..n
      BY <1>1
    <2> QED BY <2>3, <2>4
  <1> HIDE DEF it, iter
  <1>8. \A m \in 0..n : it[m] \in V
    <2> HIDE DEF n
    <2> DEFINE T == {m \in Nat : m <= n => it[m] \in V}
    <2>1. 0 \in T
      <3> HIDE DEF V
      <3>1. it[0] \in V
        BY <1>2, <1>7
      <3> QED BY <3>1
    <2>2. ASSUME NEW m \in Nat, m \in T PROVE m + 1 \in T
      <3> SUFFICES ASSUME m + 1 <= n PROVE it[m + 1] \in V
        OBVIOUS
      <3> HIDE DEF V
      <3>1. m + 1 \in 1..n /\ it[m] \in V /\ (m + 1) - 1 = m
        BY <1>1, <2>2
      <3>2. it[m + 1] = op(it[m], q[m + 1]) /\ q[m + 1] \in DOMAIN flat
        BY <1>1, <1>7, <3>1
      <3> QED BY <3>1, <3>2, WroteIs DEF op, V
    <2> HIDE DEF T
    <2>3. Nat \subseteq T
      BY <2>1, <2>2, SetInduction
    <2>4. ASSUME NEW m \in 0..n PROVE it[m] \in V
      <3>1. m \in Nat /\ m <= n /\ m \in T
        BY <1>1, <2>3
      <3> QED BY <3>1 DEF T
    <2> QED BY <2>4
  <1>9. UnflatBy(it, X, flat, q)
    <2>1. \A m \in 1..n : it[m] = Wrote(it[m - 1], q[m], flat[q[m]])
      BY <1>7 DEF op
    <2> QED BY <1>3, <1>7, <1>8, <2>1 DEF UnflatBy
  <1> QED BY <1>9

-------------------------------------------------------------------------------
(* A part of a document on the way back: values of the document, and nulls *)
(* that pad its arrays.                                                    *)
Partial(d, D) ==
  \A n \in DOMAIN d :
    /\ n \in DOMAIN D
    /\ d[n] = D[n] \/ (d[n] = Null /\ n # <<>> /\ D[Front(n)] = Array)

(* What a regular document is, a conjunct each.                            *)
LEMMA RegularIs ==
  ASSUME NEW D, IsDocument(D), Regular(D)
  PROVE  /\ D[<<>>] = Object /\ Lead(D) = <<>>
         /\ \A n \in DOMAIN D : n \in Seq(Words)
         /\ \A n \in DOMAIN D \ {<<>>} : D[n] \in Containers => Children(D, n) # {}
         /\ \A o : \A x : Append(o, x) \in DOMAIN D /\ o \in Seq(Strings) /\ x \in Strings /\ D[o] = Object => ~IsIndex(x)
         /\ \A n \in DOMAIN D \ {<<>>} : D[n] = Array => D[Front(n)] = Object
  <1>1. D[<<>>] = Object /\ Lead(D) = <<>>
    <2>1. D[<<>>] = Object
      BY DEF Regular
    <2>2. Object # Array
      BY DEF Object, Array
    <2> QED BY <2>1, <2>2 DEF Lead
  <1>2. ASSUME NEW n \in DOMAIN D PROVE n \in Seq(Words)
    <2>1. n \in Seq(Strings) /\ Range(n) \cap ({""} \cup DOMAIN Dotted) = {}
      BY NodeIs DEF Regular
    <2>2. Len(n) \in Nat /\ n \in [1..Len(n) -> Strings] /\ DOMAIN n = 1..Len(n)
      BY <2>1, LenProperties
    <2>3. \A i \in 1..Len(n) : n[i] \in Words
      BY <2>1, <2>2 DEF Words, Range
    <2>4. n \in [1..Len(n) -> Words]
      BY <2>2, <2>3
    <2> QED BY <2>2, <2>4, SeqDef
  <1>3. \A n \in DOMAIN D \ {<<>>} : D[n] \in Containers => Children(D, n) # {}
    BY DEF Regular
  <1>4. ASSUME NEW o \in Seq(Strings), NEW x \in Strings, Append(o, x) \in DOMAIN D, D[o] = Object
        PROVE  ~IsIndex(x)
    <2>1. Append(o, x) # <<>> /\ Front(Append(o, x)) = o /\ Last(Append(o, x)) = x
      BY <1>4, AppendIs
    <2>2. o \in DOMAIN D
      BY <2>1, <1>4, NodeIs
    <2>3. Append(o, x) \in Children(D, o)
      BY <1>4, <2>1, ChildrenAre, NodeIs
    <2> QED BY <1>4, <2>1, <2>2, <2>3 DEF Regular
  <1>5. \A n \in DOMAIN D \ {<<>>} : D[n] = Array => D[Front(n)] = Object
    BY DEF Regular
  <1> QED BY <1>1, <1>2, <1>3, <1>4, <1>5

(* Values of the document that are put in leave a part of it.              *)
LEMMA ReplaceRight ==
  ASSUME NEW D, NEW d, Partial(d, D), NEW c \in DOMAIN D
  PROVE  Partial(Replace(d, c, D[c]), D)
  <1> DEFINE e == Replace(d, c, D[c])
  <1>1. /\ DOMAIN e = {n \in DOMAIN d : ~IsPrefix(c, n)} \cup {c}
        /\ \A n \in DOMAIN e : e[n] = IF n = c THEN D[c] ELSE d[n]
    BY DEF Replace
  <1> HIDE DEF e
  <1>2. \A n \in DOMAIN e : n \in DOMAIN D /\ (e[n] = D[n] \/ (e[n] = Null /\ n # <<>> /\ D[Front(n)] = Array))
    BY <1>1 DEF Partial
  <1> QED BY <1>2 DEF Partial, e

LEMMA ExtendRight ==
  ASSUME NEW D, NEW d, Partial(d, D), NEW c \in DOMAIN D
  PROVE  Partial(Extended(d, {c}, D[c]), D)
  <1> DEFINE e == Extended(d, {c}, D[c])
  <1>1. /\ DOMAIN e = DOMAIN d \cup {c}
        /\ \A n \in DOMAIN e : e[n] = IF n \in DOMAIN d THEN d[n] ELSE D[c]
    BY DEF Extended
  <1> HIDE DEF e
  <1>2. \A n \in DOMAIN e : n \in DOMAIN D /\ (e[n] = D[n] \/ (e[n] = Null /\ n # <<>> /\ D[Front(n)] = Array))
    BY <1>1 DEF Partial
  <1> QED BY <1>2 DEF Partial, e

(* An array is padded with its own elements.                               *)
LEMMA PaddedRight ==
  ASSUME NEW D, IsDocument(D), NEW d, IsDocument(d), Partial(d, D), NEW o \in DOMAIN d,
         D[o] = Array, NEW part, IsIndex(part), Append(o, part) \in DOMAIN D
  PROVE  Partial(Padded(d, o, IndexOf(part)), D)
  <1> DEFINE k   == IndexOf(part)
             New == {Append(o, Numerals[i + 1]) : i \in Cardinality(Children(d, o))..k}
             e   == Padded(d, o, k)
  <1>1. k + 1 \in 1..Len(Numerals) /\ Numerals[k + 1] = part /\ k \in Nat /\ part \in Strings
    BY IndexIs DEF Words
  <1>2. o \in DOMAIN D /\ o \in Seq(Strings)
    BY NodeIs DEF Partial
  <1>3. PICK length \in 0..Len(Numerals) : Children(D, o) = {Append(o, Numerals[i]) : i \in 1..length}
    BY <1>2 DEF IsDocument
  <1>4. Len(Numerals) \in Nat /\ \A i \in 1..Len(Numerals) : Numerals[i] \in Strings
    <2>1. Len(Numerals) \in Nat
      BY NumeralsAssumption, LenProperties
    <2>2. ASSUME NEW i \in 1..Len(Numerals) PROVE Numerals[i] \in Strings
      BY NumeralIs
    <2> QED BY <2>1, <2>2
  <1>5. \A x, y \in Strings : Append(o, x) = Append(o, y) => x = y
    BY <1>2, AppendIs
  <1>6. k + 1 <= length
    <2>1. Append(o, part) # <<>> /\ Front(Append(o, part)) = o
      BY <1>1, <1>2, AppendIs
    <2>2. Append(o, part) \in Children(D, o)
      BY <1>2, <2>1, ChildrenAre, NodeIs
    <2>3. PICK i \in 1..length : Append(o, part) = Append(o, Numerals[i])
      BY <1>3, <2>2
    <2>4. i \in 1..Len(Numerals)
      BY <1>4, <2>3
    <2>5. Numerals[i] = part
      BY <1>1, <1>4, <1>5, <2>3, <2>4
    <2>6. i = k + 1
      BY <1>1, <2>4, <2>5, NumeralsAssumption
    <2> QED BY <2>3, <2>6
  <1>7. Cardinality(Children(d, o)) \in Nat
    <2>1. IsFiniteSet(Children(d, o))
      BY FS_Subset DEF Children, IsDocument
    <2> QED BY <2>1, FS_CardinalityType
  <1>8. ASSUME NEW n \in New PROVE n \in DOMAIN D /\ n # <<>> /\ Front(n) = o
    <2>1. PICK i \in Cardinality(Children(d, o))..k : n = Append(o, Numerals[i + 1])
      BY <1>8
    <2> HIDE DEF k
    <2>2. i + 1 \in 1..length
      BY <1>1, <1>6, <1>7, <2>1
    <2>3. n \in Children(D, o)
      BY <1>3, <2>1, <2>2
    <2> QED BY <1>2, <2>3, ChildrenAre, NodeIs
  <1>9. /\ DOMAIN e = DOMAIN d \cup New
        /\ \A n \in DOMAIN e : e[n] = IF n \in DOMAIN d THEN d[n] ELSE Null
    BY DEF Padded, Extended
  <1> HIDE DEF e, New
  <1>10. \A n \in DOMAIN e : n \in DOMAIN D /\ (e[n] = D[n] \/ (e[n] = Null /\ n # <<>> /\ D[Front(n)] = Array))
    BY <1>8, <1>9 DEF Partial
  <1> QED BY <1>10 DEF Partial, e

(* Above a node of the document there is a container of it, or a null that *)
(* stands for an object.                                                   *)
LEMMA AboveRight ==
  ASSUME NEW D, IsDocument(D), Regular(D), NEW d, Partial(d, D),
         NEW o \in DOMAIN d, NEW part \in Words, Append(o, part) \in DOMAIN D
  PROVE  /\ o \in DOMAIN D /\ o \in Seq(Words)
         /\ d[o] = Array => D[o] = Array /\ IsIndex(part)
         /\ d[o] # Array => D[o] = Object /\ d[o] \in {Object, Null}
  <1>1. o \in DOMAIN D /\ o \in Seq(Words)
    BY RegularIs DEF Partial
  <1>2. o \in Seq(Strings) /\ part \in Strings
    BY <1>1, NodeIs DEF Words
  <1>3. Append(o, part) # <<>> /\ Front(Append(o, part)) = o /\ Last(Append(o, part)) = part
    BY <1>2, AppendIs
  <1>4. D[o] \in Containers /\ (D[o] = Array => IsIndex(part))
    BY <1>3, NodeIs
  <1>5. d[o] = D[o] \/ (d[o] = Null /\ o # <<>> /\ D[Front(o)] = Array)
    BY DEF Partial
  <1>6. Null # Array /\ Object # Array /\ Null # Object
    BY DEF Null, Object, Array
  <1>7. d[o] = Null /\ o # <<>> /\ D[Front(o)] = Array => D[o] # Array
    BY <1>1, <1>6, RegularIs
  <1> QED BY <1>1, <1>4, <1>5, <1>6, <1>7 DEF Containers

(* It can be used as what it is.                                           *)
LEMMA NamedRight ==
  ASSUME NEW D, NEW d, Partial(d, D), NEW o \in DOMAIN d,
         D[o] = Object, d[o] \in {Object, Null}
  PROVE  \E e : Named(d, o) = {e} /\ Partial(e, D)
  <1>1. o \in DOMAIN D
    BY DEF Partial
  <1>2. CASE d[o] = Null
    <2>1. Partial(Replace(d, o, Object), D)
      BY <1>1, ReplaceRight
    <2>2. Named(d, o) = {Replace(d, o, Object)}
      BY <1>2 DEF Named
    <2> QED BY <2>1, <2>2
  <1>3. CASE d[o] = Object
    <2>1. Named(d, o) = {d}
      BY <1>3 DEF Named, Null, Object
    <2> QED BY <2>1
  <1> QED BY <1>2, <1>3

(* On the way to a node of the document.                                   *)
LEMMA DescendRight ==
  ASSUME NEW X, {Null, Object, Array} \subseteq X, NEW D, IsDocument(D), Regular(D),
         NEW a \in Accs(X), a.ok, Partial(a.doc, D), NEW part \in Words, NEW next \in Words,
         NEW c, c = Append(a.at, part), c \in DOMAIN D, Append(c, next) \in DOMAIN D
  PROVE  LET b == Descend(a, part, next)
         IN  b.ok /\ b.at = c /\ Partial(b.doc, D)
  <1> DEFINE o == a.at
             d == a.doc
             b == Descend(a, part, next)
  <1>1. o \in DOMAIN d /\ IsDocument(d) /\ o \in Seq(Words)
    BY DocsAre DEF Accs
  <1>2. /\ o \in DOMAIN D
        /\ d[o] = Array => D[o] = Array /\ IsIndex(part)
        /\ d[o] # Array => D[o] = Object /\ d[o] \in {Object, Null}
    BY <1>1, AboveRight
  <1>3. CASE d[o] = Array
    <2>1. b = [a EXCEPT !.doc = Padded(@, o, IndexOf(part)), !.at = Append(@, part)]
      BY <1>2, <1>3 DEF Descend
    <2>2. a \in [doc : Docs(X), at : Seq(Words), ok : BOOLEAN]
      BY DEF Accs
    <2>3. b.ok = a.ok /\ b.at = c /\ b.doc = Padded(d, o, IndexOf(part))
      BY <2>1, <2>2
    <2> HIDE DEF b, d
    <2>4. Partial(Padded(d, o, IndexOf(part)), D)
      BY <1>1, <1>2, <1>3, PaddedRight DEF d
    <2> QED BY <2>3, <2>4 DEF b
  <1>4. CASE d[o] # Array
    <2> DEFINE new    == IF IsIndex(next) THEN Array ELSE Object
               create == Child(d, o, part) = {}
               f(e)   == IF create THEN Extended(e, {c}, new) ELSE e
    <2>1. D[c] = new
      <3>1. c \in Seq(Strings) /\ next \in Strings
        BY NodeIs DEF Words
      <3>2. Append(c, next) # <<>> /\ Front(Append(c, next)) = c /\ Last(Append(c, next)) = next
        <4>1. \A n \in Seq(Strings), x \in Strings :
                Append(n, x) # <<>> /\ Front(Append(n, x)) = n /\ Last(Append(n, x)) = x
          BY AppendIs
        <4> QED BY ONLY <3>1, <4>1
      <3>3. D[c] \in Containers /\ (D[c] = Array => IsIndex(next))
        BY <3>2, NodeIs
      <3>4. D[c] = Object => ~IsIndex(next)
        BY <3>1, RegularIs
      <3> QED BY <3>3, <3>4 DEF Containers
    <2>2. PICK e : Named(d, o) = {e} /\ Partial(e, D)
      <3> HIDE DEF d, o
      <3> QED BY <1>1, <1>2, <1>4, NamedRight DEF d
    <2>3. Partial(f(e), D)
      <3>1. Partial(Extended(e, {c}, new), D)
        BY <2>1, <2>2, ExtendRight
      <3> QED BY <2>2, <3>1
    <2>4. {IF create THEN Extended(x, {c}, new) ELSE x : x \in Named(d, o)} = {f(e)}
      <3>1. \A x \in {e} : (IF create THEN Extended(x, {c}, new) ELSE x) = f(e)
        OBVIOUS
      <3> HIDE DEF f, d, o, new, create
      <3> QED BY <2>2, <3>1
    <2>5. b = [a EXCEPT !.doc = CHOOSE x \in {f(e)} : TRUE, !.at = Append(@, part)]
      <3> DEFINE named == {IF a.doc[a.at] # Array /\ Child(a.doc, a.at, part) = {}
                           THEN Extended(x, {Append(a.at, part)}, new) ELSE x : x \in Named(a.doc, a.at)}
      <3>1. a.doc[a.at] # Array
        BY <1>4
      <3>2. named = {f(e)}
        BY <2>4, <3>1
      <3>3. named # {}
        BY <3>2
      <3>4. b = IF named = {} THEN Thrown(a)
                ELSE [a EXCEPT !.doc = CHOOSE x \in named : TRUE, !.at = Append(@, part)]
        BY <3>1 DEF Descend
      <3> HIDE DEF named, b, f
      <3> QED BY <3>2, <3>3, <3>4
    <2>6. (CHOOSE x \in {f(e)} : TRUE) = f(e)
      OBVIOUS
    <2>7. a \in [doc : Docs(X), at : Seq(Words), ok : BOOLEAN]
      BY DEF Accs
    <2> HIDE DEF f, b
    <2>8. b.ok = a.ok /\ b.at = c /\ b.doc = f(e)
      BY <2>5, <2>6, <2>7
    <2> QED BY <2>3, <2>8 DEF b
  <1> QED BY <1>3, <1>4

(* And at the node.                                                        *)
LEMMA AssignRight ==
  ASSUME NEW X, {Null, Object, Array} \subseteq X, NEW D, IsDocument(D), Regular(D),
         NEW a \in Accs(X), a.ok, Partial(a.doc, D), NEW part \in Words,
         NEW c, c = Append(a.at, part), c \in DOMAIN D
  PROVE  LET b == Assign(a, part, D[c])
         IN  b.ok /\ Partial(b.doc, D)
  <1> DEFINE o == a.at
             d == a.doc
             b == Assign(a, part, D[c])
  <1>1. o \in DOMAIN d /\ IsDocument(d) /\ o \in Seq(Words)
    BY DocsAre DEF Accs
  <1>2. /\ o \in DOMAIN D
        /\ d[o] = Array => D[o] = Array /\ IsIndex(part)
        /\ d[o] # Array => D[o] = Object /\ d[o] \in {Object, Null}
    BY <1>1, AboveRight
  <1>3. a \in [doc : Docs(X), at : Seq(Words), ok : BOOLEAN]
    BY DEF Accs
  <1>4. CASE d[o] = Array
    <2>1. b = [a EXCEPT !.doc = Replace(Padded(@, o, IndexOf(part)), Append(o, part), D[c])]
      BY <1>2, <1>4 DEF Assign
    <2>2. b.ok = a.ok /\ b.doc = Replace(Padded(d, o, IndexOf(part)), c, D[c])
      BY <1>3, <2>1
    <2> HIDE DEF b, d
    <2>3. Partial(Padded(d, o, IndexOf(part)), D)
      BY <1>1, <1>2, <1>4, PaddedRight DEF d
    <2>4. Partial(Replace(Padded(d, o, IndexOf(part)), c, D[c]), D)
      BY <2>3, ReplaceRight
    <2> QED BY <2>2, <2>4 DEF b
  <1>5. CASE d[o] # Array
    <2>1. PICK e : Named(d, o) = {e} /\ Partial(e, D)
      <3> HIDE DEF d, o
      <3> QED BY <1>1, <1>2, <1>5, NamedRight DEF d
    <2>2. b = [a EXCEPT !.doc = Replace(CHOOSE x \in Named(d, o) : TRUE, Append(o, part), D[c])]
      <3>1. Named(d, o) # {}
        BY <2>1
      <3> QED BY <1>5, <3>1 DEF Assign
    <2>3. (CHOOSE x \in {e} : TRUE) = e
      OBVIOUS
    <2>4. (CHOOSE x \in Named(d, o) : TRUE) = e
      BY <2>1, <2>3
    <2> DEFINE chosen == CHOOSE x \in Named(d, o) : TRUE
    <2>5. chosen = e
      BY <2>4
    <2> HIDE DEF chosen, b
    <2>6. b = [a EXCEPT !.doc = Replace(chosen, Append(o, part), D[c])]
      BY <2>2 DEF chosen
    <2>7. b.ok = a.ok /\ b.doc = Replace(e, c, D[c])
      BY <1>3, <2>5, <2>6
    <2>8. Partial(Replace(e, c, D[c]), D)
      BY <2>1, ReplaceRight
    <2> QED BY <2>7, <2>8 DEF b
  <1> QED BY <1>4, <1>5

(* Setting a leaf of the document leaves a part of it, with that leaf and  *)
(* the leaves that were there.                                             *)
LEMMA SetRight ==
  ASSUME NEW X, {Null, Object, Array} \subseteq X, NEW D, IsDocument(D), Regular(D),
         NEW d \in Docs(X), Partial(d, D), NEW p \in Leaves(D), D[p] \in X
  PROVE  LET b == Set(d, p, D[p])
         IN  /\ b.ok /\ Partial(b.doc, D) /\ p \in DOMAIN b.doc /\ b.doc[p] = D[p]
             /\ \A f \in Leaves(D) : f \in DOMAIN d /\ d[f] = D[f] => f \in DOMAIN b.doc /\ b.doc[f] = D[f]
  <1> DEFINE b == Set(d, p, D[p])
             n == Len(p) - 1
  <1>1. p \in DOMAIN D /\ p # <<>> /\ D[p] \notin Containers /\ p \in Seq(Words) /\ p \in Seq(Spelled)
    BY RegularIs, LeadIs DEF Leaves
  <1>2. Split(p) = p
    BY <1>1, SplitIs
  <1>3. PICK it : SetBy(it, X, d, p, D[p], p)
    BY <1>1, <1>2, SetFolds
  <1>4. Len(p) \in Nat /\ Len(p) # 0 /\ n \in Nat /\ \A i \in 1..Len(p) : p[i] \in Words
    <2>1. Len(p) \in Nat /\ Len(p) # 0 /\ \A i \in 1..Len(p) : p[i] \in Words
      BY <1>1, LenProperties, ElementOfSeq, EmptySeq
    <2> QED BY <2>1
  <1> HIDE DEF n, b
  <1>5. ASSUME NEW m \in Nat, m + 1 \in 1..Len(p)
        PROVE  SubSeq(p, 1, m + 1) = Append(SubSeq(p, 1, m), p[m + 1]) /\ SubSeq(p, 1, m + 1) \in DOMAIN D
    <2>1. SubSeq(p, 1, m + 1) = Append(SubSeq(p, 1, m), p[m + 1])
      BY <1>1, <1>5, WayGrows
    <2>2. SubSeq(p, 1, m + 1) \in DOMAIN D
      BY <1>1, <1>5, UpTo
    <2> QED BY <2>1, <2>2
  <1> DEFINE Good(m) == it[m].ok /\ it[m].at = SubSeq(p, 1, m) /\ Partial(it[m].doc, D)
             T == {m \in Nat : m <= n => Good(m)}
  <1>6. 0 \in T
    <2>1. it[0] = Start(d)
      BY <1>3 DEF SetBy
    <2>2. SubSeq(p, 1, 0) = <<>>
      BY <1>1
    <2>3. Start(d).ok /\ Start(d).at = <<>> /\ Start(d).doc = d
      BY DEF Start
    <2> QED BY <2>1, <2>2, <2>3
  <1>7. ASSUME NEW m \in T PROVE m + 1 \in T
    <2> SUFFICES ASSUME m + 1 <= n PROVE Good(m + 1)
      OBVIOUS
    <2>1. m \in Nat /\ m + 1 \in 1..n /\ m \in 0..n /\ (m + 1) - 1 = m /\ m + 1 \in 1..Len(p) /\ (m + 1) + 1 \in 1..Len(p)
      BY <1>4 DEF n
    <2>2. it[m].ok /\ it[m].at = SubSeq(p, 1, m) /\ Partial(it[m].doc, D)
      BY <1>4, <2>1
    <2>3. it[m + 1] = Down(it[m], p[m + 1], p[(m + 1) + 1]) /\ it[m] \in Accs(X)
      BY <1>3, <2>1 DEF SetBy, n
    <2>4. it[m + 1] = Descend(it[m], p[m + 1], p[(m + 1) + 1])
      BY <2>2, <2>3 DEF Down
    <2> DEFINE c == SubSeq(p, 1, m + 1)
    <2>5. c = Append(it[m].at, p[m + 1]) /\ c \in DOMAIN D
      BY <1>5, <2>1, <2>2
    <2>6. Append(c, p[(m + 1) + 1]) \in DOMAIN D
      <3>1. \A i \in Nat : i + 1 \in 1..Len(p) => Append(SubSeq(p, 1, i), p[i + 1]) \in DOMAIN D
        <4> TAKE i \in Nat
        <4> HAVE i + 1 \in 1..Len(p)
        <4>1. SubSeq(p, 1, i + 1) = Append(SubSeq(p, 1, i), p[i + 1]) /\ SubSeq(p, 1, i + 1) \in DOMAIN D
          BY <1>5
        <4> QED BY ONLY <4>1
      <3>2. m + 1 \in Nat /\ (m + 1) + 1 \in 1..Len(p)
        BY <2>1
      <3> QED BY ONLY <3>1, <3>2
    <2>7. p[m + 1] \in Words /\ p[(m + 1) + 1] \in Words
      BY <1>4, <2>1
    <2> HIDE DEF c
    <2>8. /\ Descend(it[m], p[m + 1], p[(m + 1) + 1]).ok
          /\ Descend(it[m], p[m + 1], p[(m + 1) + 1]).at = c
          /\ Partial(Descend(it[m], p[m + 1], p[(m + 1) + 1]).doc, D)
      <3>1. PICK a, x, y : a = it[m] /\ x = p[m + 1] /\ y = p[(m + 1) + 1]
        OBVIOUS
      <3>2. /\ a \in Accs(X) /\ a.ok /\ Partial(a.doc, D) /\ x \in Words /\ y \in Words
            /\ c = Append(a.at, x) /\ c \in DOMAIN D /\ Append(c, y) \in DOMAIN D
        BY <2>2, <2>3, <2>5, <2>6, <2>7, <3>1
      <3>3. Descend(a, x, y).ok /\ Descend(a, x, y).at = c /\ Partial(Descend(a, x, y).doc, D)
        <4>1. {Null, Object, Array} \subseteq X /\ IsDocument(D) /\ Regular(D)
          OBVIOUS
        <4>2. \A e \in Accs(X), z \in Words, next \in Words : \A g :
                /\ {Null, Object, Array} \subseteq X /\ IsDocument(D) /\ Regular(D)
                /\ e.ok /\ Partial(e.doc, D) /\ g = Append(e.at, z) /\ g \in DOMAIN D /\ Append(g, next) \in DOMAIN D
                => Descend(e, z, next).ok /\ Descend(e, z, next).at = g /\ Partial(Descend(e, z, next).doc, D)
          BY DescendRight
        <4> QED BY ONLY <3>2, <4>1, <4>2
      <3> QED BY <3>1, <3>3
    <2> QED BY <2>4, <2>8 DEF c
  <1>8. Good(n)
    <2>1. \A m \in T : m + 1 \in T
      BY <1>7
    <2> HIDE DEF Good
    <2>2. T \subseteq Nat
      OBVIOUS
    <2>3. \A m \in Nat : m \in T => m + 1 \in T
      BY <2>1
    <2>4. Nat \subseteq T
      <3> HIDE DEF T
      <3> QED BY <1>6, <2>3, SetInduction
    <2> QED BY <1>4, <2>4
  <1>9. b.ok /\ Partial(b.doc, D)
    <2>1. n \in 0..n /\ n = Len(p) - 1
      BY <1>4 DEF n
    <2>2. it[n] \in Accs(X) /\ b = IF it[n].ok THEN Assign(it[n], Last(p), D[p]) ELSE it[n]
      BY <1>3, <2>1 DEF SetBy, b
    <2>3. b = Assign(it[n], Last(p), D[p])
      BY <1>8, <2>2
    <2>4. n + 1 = Len(p) /\ n + 1 \in 1..Len(p)
      BY <1>4, <2>1
    <2>5. Last(p) = p[n + 1] /\ Last(p) \in Words
      BY <1>4, <2>4 DEF Last
    <2>6. SubSeq(p, 1, Len(p)) = p
      BY <1>1
    <2>7. p = Append(it[n].at, Last(p))
      BY <1>4, <1>5, <1>8, <2>4, <2>5, <2>6
    <2> QED BY <1>1, <1>8, <2>2, <2>3, <2>5, <2>7, AssignRight
  <1>10. PICK q \in Seq(Words) : Written(d, b.doc, p, q, D[p])
    <2>1. \/ Split(p) = <<>> /\ b.doc = d
          \/ Split(p) # <<>> /\ \E q \in Seq(Words) : Written(d, b.doc, Split(p), q, D[p])
      BY <1>1, <1>9, SetIs DEF b
    <2> QED BY <1>1, <1>2, <2>1
  <1>11. q = p
    <2> SUFFICES ASSUME NEW r \in Seq(Words), NEW x \in Words, Over(b.doc, q, p, r, x)
                 PROVE  FALSE
      BY <1>10 DEF Written
    <2>1. r \in DOMAIN b.doc /\ b.doc[r] = Array /\ IsPrefix(Append(r, x), p) /\ ~IsIndex(x)
      BY DEF Over
    <2>2. D[r] = Array
      <3>1. Null # Array
        BY DEF Null, Array
      <3> QED BY <1>9, <2>1, <3>1 DEF Partial
    <2> QED BY <1>1, <2>1, <2>2, NotOver
  <1>12. p \in DOMAIN b.doc /\ b.doc[p] = D[p]
    BY <1>10, <1>11 DEF Written
  <1>13. ASSUME NEW f \in Leaves(D), f \in DOMAIN d, d[f] = D[f]
         PROVE  f \in DOMAIN b.doc /\ b.doc[f] = D[f]
    <2>1. f \in DOMAIN D /\ D[f] \notin Containers
      BY DEF Leaves
    <2>2. CASE IsPrefix(p, f)
      <3>1. p = f
        <4>1. p \in Seq(Strings)
          BY <1>1, NodeIs
        <4> QED BY <1>1, <2>1, <2>2, <4>1, AboveIsContainer
      <3> QED BY <1>12, <3>1
    <2>3. CASE ~IsPrefix(p, f)
      <3>1. f \in DOMAIN b.doc /\ (d[f] # Null => b.doc[f] = d[f])
        BY <1>10, <1>11, <1>13, <2>3 DEF Written
      <3>2. b.doc[f] = D[f] \/ b.doc[f] = Null
        BY <1>9, <3>1 DEF Partial
      <3> QED BY <1>13, <3>1, <3>2
    <2> QED BY <2>2, <2>3
  <1> QED BY <1>9, <1>12, <1>13 DEF b

(* Below each node but the root there is a leaf, or it is one.             *)
LEMMA LeafBelow ==
  ASSUME NEW D, IsDocument(D), Regular(D), NEW n \in DOMAIN D, n # <<>>
  PROVE  \E f \in Leaves(D) : IsPrefix(n, f)
  <1> DEFINE Under(m) == {f \in DOMAIN D : IsPrefix(m, f)}
             T == {k \in Nat : \A m \in DOMAIN D \ {<<>>} :
                                 Cardinality(Under(m)) <= k => \E f \in Leaves(D) : IsPrefix(m, f)}
  <1>1. \A m : IsFiniteSet(Under(m)) /\ Cardinality(Under(m)) \in Nat
    <2> TAKE m
    <2>1. IsFiniteSet(Under(m))
      BY FS_Subset DEF IsDocument
    <2> QED BY <2>1, FS_CardinalityType
  <1>2. \A m \in DOMAIN D : m \in Seq(Strings) /\ IsPrefix(m, m) /\ m \in Under(m)
    <2> TAKE m \in DOMAIN D
    <2>1. m \in Seq(Strings)
      BY NodeIs
    <2>2. IsPrefix(m, m)
      BY <2>1, PrefixSelf
    <2> QED BY <2>1, <2>2
  <1>3. 0 \in T
    <2>1. \A m \in DOMAIN D : Cardinality(Under(m)) # 0
      <3> TAKE m \in DOMAIN D
      <3>1. Under(m) # {}
        BY <1>2
      <3> HIDE DEF Under
      <3> QED BY <1>1, <3>1, FS_EmptySet
    <2> HIDE DEF Under
    <2> QED BY <1>1, <2>1
  <1>4. ASSUME NEW k \in Nat, k \in T PROVE k + 1 \in T
    <2> SUFFICES ASSUME NEW m \in DOMAIN D \ {<<>>}, Cardinality(Under(m)) <= k + 1
                 PROVE  \E f \in Leaves(D) : IsPrefix(m, f)
      OBVIOUS
    <2>1. CASE D[m] \notin Containers
      BY <1>2, <2>1 DEF Leaves
    <2>2. CASE D[m] \in Containers
      <3>1. PICK c : c \in Children(D, m)
        BY <2>2, RegularIs
      <3>2. c \in DOMAIN D /\ IsPrefix(m, c) /\ Len(c) = Len(m) + 1
        BY <3>1 DEF Children
      <3>3. m \in Seq(Strings) /\ c \in Seq(Strings) /\ Len(m) \in Nat /\ c # <<>>
        BY <1>2, <3>1, <3>2, ChildrenAre, LenProperties
      <3>4. ~IsPrefix(c, m)
        BY <3>2, <3>3, PrefixLength
      <3>5. Under(c) \subseteq Under(m) /\ m \notin Under(c)
        <4>1. ASSUME NEW f \in DOMAIN D, IsPrefix(c, f) PROVE IsPrefix(m, f)
          BY <1>2, <3>2, <3>3, <4>1, PrefixTransitive
        <4> QED BY <3>4, <4>1
      <3>6. Cardinality(Under(c)) <= k
        <4>1. m \in Under(m)
          BY <1>2
        <4> HIDE DEF Under
        <4>2. Under(c) # Under(m)
          BY <3>5, <4>1
        <4>3. Cardinality(Under(c)) <= Cardinality(Under(m)) /\ Cardinality(Under(c)) # Cardinality(Under(m))
          BY <1>1, <3>5, <4>2, FS_Subset
        <4> QED BY <1>1, <4>3
      <3>7. PICK f \in Leaves(D) : IsPrefix(c, f)
        <4> HIDE DEF Under
        <4> QED BY <1>4, <3>2, <3>3, <3>6
      <3>8. f \in Seq(Strings)
        BY <1>2 DEF Leaves
      <3> QED BY <3>2, <3>3, <3>7, <3>8, PrefixTransitive
    <2> QED BY <2>1, <2>2
  <1>5. Nat \subseteq T
    <2> HIDE DEF T
    <2> QED BY <1>3, <1>4, SetInduction
  <1>6. Cardinality(Under(n)) \in T /\ Cardinality(Under(n)) <= Cardinality(Under(n))
    <2> HIDE DEF T, Under
    <2> QED BY <1>1, <1>5
  <1> HIDE DEF Under
  <1> QED BY <1>6

(* A regular document's leaves are the keys of its flattened form.         *)
LEMMA FlatRegular ==
  ASSUME NEW D, IsDocument(D), Regular(D)
  PROVE  DOMAIN Flatten(D) = Leaves(D) /\ \A f \in Leaves(D) : Flatten(D)[f] = D[f]
  <1>1. ASSUME NEW f \in Leaves(D) PROVE PathOf(D, f) = f
    <2>1. f \in Seq(Words) /\ f # <<>> /\ Lead(D) = <<>>
      BY RegularIs DEF Leaves
    <2>2. PathOf(D, f) = <<>> \o f
      BY <2>1, PathClean
    <2> QED BY <2>1, <2>2
  <1>2. DOMAIN Flatten(D) = {PathOf(D, f) : f \in Leaves(D)}
    BY FlattenIs
  <1>3. DOMAIN Flatten(D) = Leaves(D)
    BY <1>1, <1>2, Zenon
  <1>4. ASSUME NEW f \in Leaves(D) PROVE Flatten(D)[f] = D[f]
    <2>1. f \in Alike(D, f) /\ \A m \in Alike(D, f) : m = f
      BY <1>1 DEF Alike
    <2>2. LastIn(D, Alike(D, f), f)
      BY <2>1 DEF LastIn
    <2> QED BY <2>2, FlatFrom DEF FlatBy
  <1> QED BY <1>3, <1>4

(* With all its leaves a part of the document is all of it.                *)
LEMMA WholeAgain ==
  ASSUME NEW D, IsDocument(D), Regular(D), NEW e, IsDocument(e), Partial(e, D),
         \A f \in Leaves(D) : f \in DOMAIN e /\ e[f] = D[f]
  PROVE  e = D
  <1>1. ASSUME NEW n \in DOMAIN D PROVE n \in DOMAIN e /\ e[n] = D[n]
    <2>1. CASE n = <<>>
      <3>1. n \in DOMAIN e
        BY <2>1 DEF IsDocument
      <3> QED BY <2>1, <3>1 DEF Partial
    <2>2. CASE n # <<>>
      <3>1. PICK f \in Leaves(D) : IsPrefix(n, f)
        BY <2>2, LeafBelow
      <3>2. f \in DOMAIN e /\ e[f] = D[f] /\ n \in Seq(Strings)
        BY <3>1, NodeIs
      <3>3. CASE n = f
        BY <3>2, <3>3
      <3>4. CASE n # f
        <4>1. n \in DOMAIN e /\ e[n] \in Containers
          BY <3>1, <3>2, <3>4, AboveIsContainer
        <4>2. Null \notin Containers
          BY DEF Null, Object, Array, Containers
        <4> QED BY <4>1, <4>2 DEF Partial
      <3> QED BY <3>3, <3>4
    <2> QED BY <2>1, <2>2
  <1>2. DOMAIN e = DOMAIN D
    BY <1>1 DEF Partial
  <1>3. e = [n \in DOMAIN e |-> e[n]] /\ D = [n \in DOMAIN D |-> D[n]]
    <2>1. e \in [DOMAIN e -> Range(e)] /\ D \in [DOMAIN D -> Range(D)]
      BY DEF IsDocument
    <2> QED BY <2>1
  <1> QED BY <1>1, <1>2, <1>3

(* A regular document is got back from its flattened form.                 *)
LEMMA RoundTrip ==
  ASSUME NEW D, IsDocument(D), Regular(D)
  PROVE  Unflatten(Flatten(D)).ok /\ Unflatten(Flatten(D)).doc = D
  <1> DEFINE X == Values(D, D)
             flat == Flatten(D)
             q == Ordered(DOMAIN flat, Precedes)
             n == Len(q)
  <1>1. {Null, Object, Array} \subseteq X /\ D \in Docs(X)
    BY ValuesAre
  <1>2. DOMAIN flat = Leaves(D) /\ \A f \in Leaves(D) : flat[f] = D[f]
    BY FlatRegular
  <1>3. IsFiniteSet(DOMAIN flat) /\ \A k \in DOMAIN flat : k \in Seq(Spelled)
    BY FlattenIs
  <1>4. \A f \in Leaves(D) : D[f] \in X /\ D[f] \notin Containers /\ f \in DOMAIN D /\ f \in Seq(Strings)
    <2>1. \A f \in Leaves(D) : f \in DOMAIN D /\ D[f] \notin Containers
      BY DEF Leaves
    <2>2. \A f \in DOMAIN D : D[f] \in X /\ f \in Seq(Strings)
      BY NodeIs DEF Values, Range
    <2> QED BY <2>1, <2>2
  <1> HIDE DEF X, flat
  <1>5. q \in Seq(DOMAIN flat) /\ \A f \in DOMAIN flat : \E i \in 1..n : q[i] = f
    <2>1. DOMAIN flat \subseteq Seq(Strings)
      BY <1>2, <1>4
    <2> QED BY <1>3, <2>1, PathsInOrder
  <1>6. PICK it : UnflatBy(it, X, flat, q)
    <2>1. \A k \in DOMAIN flat : k \in Seq(Spelled) /\ flat[k] \in X /\ flat[k] \notin Containers
      BY <1>2, <1>3, <1>4
    <2> QED BY <1>1, <1>3, <1>5, <2>1, UnflattenFolds
  <1> HIDE DEF q
  <1>7. n \in Nat /\ \A i \in 1..n : q[i] \in Leaves(D)
    BY <1>2, <1>5, LenProperties, ElementOfSeq
  <1> HIDE DEF n
  <1>8. /\ it[0] = Start(Root) /\ Unflatten(flat) = it[n]
        /\ \A m \in 1..n : it[m] = Wrote(it[m - 1], q[m], D[q[m]])
        /\ \A m \in 0..n : it[m] \in Accs(X)
    <2>1. \A m \in 1..n : it[m] = Wrote(it[m - 1], q[m], flat[q[m]])
      BY <1>6 DEF UnflatBy, n
    <2>2. \A m \in 1..n : flat[q[m]] = D[q[m]]
      BY <1>2, <1>7
    <2> QED BY <1>6, <2>1, <2>2 DEF UnflatBy, n
  <1> DEFINE Has(e, f) == f \in DOMAIN e /\ e[f] = D[f]
             Good(m) == /\ it[m].ok /\ Partial(it[m].doc, D)
                        /\ \A i \in 1..m : Has(it[m].doc, q[i])
             T == {m \in Nat : m <= n => Good(m)}
  <1>9. 0 \in T
    <2>1. it[0].ok /\ it[0].doc = Root
      BY <1>8 DEF Start
    <2>2. D[<<>>] = Object /\ <<>> \in DOMAIN D
      BY RegularIs DEF IsDocument
    <2>3. DOMAIN Root = {<<>>} /\ Root[<<>>] = Object
      BY <1>1, RootIs
    <2>4. Partial(Root, D)
      BY <2>2, <2>3 DEF Partial
    <2> QED BY <2>1, <2>4
  <1>10. ASSUME NEW m \in Nat, m \in T PROVE m + 1 \in T
    <2> SUFFICES ASSUME m + 1 <= n PROVE Good(m + 1)
      OBVIOUS
    <2>1. m + 1 \in 1..n /\ m \in 0..n /\ (m + 1) - 1 = m
      BY <1>7
    <2>2. Good(m)
      BY <1>7, <1>10, <2>1
    <2> DEFINE p == q[m + 1]
               d == it[m].doc
               b == Set(d, p, D[p])
    <2>3. p \in Leaves(D) /\ D[p] \in X
      BY <1>4, <1>7, <2>1
    <2>4. it[m] \in Accs(X) /\ it[m].ok /\ d \in Docs(X) /\ Partial(d, D)
      BY <1>8, <2>1, <2>2 DEF Accs
    <2>5. it[m + 1] = [b EXCEPT !.at = <<>>]
      <3>1. it[m + 1] = Wrote(it[m], p, D[p])
        BY <1>8, <2>1
      <3> QED BY <2>4, <3>1 DEF Wrote
    <2> HIDE DEF d, p
    <2>6. /\ b.ok /\ Partial(b.doc, D) /\ Has(b.doc, p)
          /\ \A f \in Leaves(D) : Has(d, f) => Has(b.doc, f)
      BY <1>1, <2>3, <2>4, SetRight
    <2>7. b \in Accs(X)
      <3>1. p \in Seq(Spelled) /\ D[p] \notin Containers
        BY <1>2, <1>3, <1>4, <2>3
      <3> QED BY <1>1, <2>3, <2>4, <3>1, SetIs
    <2> HIDE DEF b, Has
    <2>8. it[m + 1].ok = b.ok /\ it[m + 1].doc = b.doc
      <3>1. b \in [doc : Docs(X), at : Seq(Words), ok : BOOLEAN]
        BY <2>7 DEF Accs
      <3> QED BY <2>5, <3>1
    <2>9. ASSUME NEW i \in 1..(m + 1) PROVE Has(b.doc, q[i])
      <3>1. i = m + 1 \/ i \in 1..m
        OBVIOUS
      <3>2. i \in 1..m => Has(d, q[i]) /\ q[i] \in Leaves(D)
        BY <1>7, <2>1, <2>2 DEF d
      <3> QED BY <2>6, <3>1, <3>2 DEF p
    <2> QED BY <2>6, <2>8, <2>9
  <1>11. Good(n)
    <2> HIDE DEF Good
    <2>1. Nat \subseteq T
      <3> HIDE DEF T
      <3> QED BY <1>9, <1>10, SetInduction
    <2> QED BY <1>7, <2>1
  <1>12. it[n].doc = D
    <2>1. IsDocument(it[n].doc)
      <3>1. it[n] \in Accs(X)
        BY <1>7, <1>8
      <3>2. it[n].doc \in Docs(X)
        BY <3>1 DEF Accs
      <3> QED BY <3>2, DocsAre
    <2>2. ASSUME NEW f \in Leaves(D) PROVE f \in DOMAIN it[n].doc /\ it[n].doc[f] = D[f]
      <3>1. PICK i \in 1..n : q[i] = f
        BY <1>2, <1>5
      <3> QED BY <1>11, <3>1
    <2> QED BY <1>11, <2>1, <2>2, WholeAgain
  <1> QED BY <1>8, <1>11, <1>12 DEF flat

-------------------------------------------------------------------------------
(* The value of digits, by the values of their beginnings.                 *)
Digits == 0..9

Running(R, s) ==
  R[0] = 0 /\ \A m \in 1..Len(s) : R[m] = 10 * R[m - 1] + s[m]

LEMMA RunningExists ==
  ASSUME NEW s \in Seq(Digits)
  PROVE  \E R \in [0..Len(s) -> Nat] : Running(R, s) /\ ValueOf(s) = R[Len(s)]
  <1> DEFINE n == Len(s)
             F == [p \in Nat \X (1..n) |-> 10 * p[1] + s[p[2]]]
             Rule(h) == [t \in SUBSET (1..n) |->
                           IF t = {} THEN 0 ELSE 10 * h[t \ {Max(t)}] + s[Max(t)]]
             iter == CHOOSE h : h = Rule(h)
             R == [m \in 0..n |-> iter[1..m]]
  <1>1. n \in Nat /\ DOMAIN s = 1..n /\ \A i \in 1..n : s[i] \in Nat
    <2>1. Len(s) \in Nat /\ DOMAIN s = 1..Len(s)
      BY LenProperties
    <2>2. \A i \in 1..Len(s) : s[i] \in Digits
      BY ElementOfSeq
    <2> QED BY <2>1, <2>2 DEF Digits
  <1>2. F \in [Nat \X (1..n) -> Nat]
    <2>1. \A p \in Nat \X (1..n) : 10 * p[1] + s[p[2]] \in Nat
      <3> HIDE DEF n
      <3> QED BY <1>1
    <2> HIDE DEF n
    <2> QED BY <2>1
  <1>3. ValueOf(s) = iter[1..n]
    BY <1>1 DEF ValueOf, FoldLeft, MapThenFoldSet
  <1>4. PICK g \in [SUBSET (1..n) -> Nat] : IsFold(g, 0, n, F)
    <2> HIDE DEF n, F
    <2> QED BY <1>1, <1>2, FoldExists
  <1>5. g = Rule(g)
    <2>1. ASSUME NEW t \in SUBSET (1..n), t # {}
          PROVE  g[t] = 10 * g[t \ {Max(t)}] + s[Max(t)]
      <3>1. Max(t) \in 1..n /\ g[t \ {Max(t)}] \in Nat
        <4> HIDE DEF n
        <4> QED BY <1>1, <2>1, MaxInside
      <3> HIDE DEF n
      <3> QED BY <1>4, <2>1, <3>1 DEF IsFold
    <2> HIDE DEF n, F
    <2> QED BY <1>4, <2>1 DEF IsFold
  <1>6. iter = Rule(iter)
    <2> HIDE DEF Rule
    <2> QED BY <1>5
  <1>7. iter[{}] = 0 /\ \A m \in 1..n : iter[1..m] = 10 * iter[1..(m - 1)] + s[m]
    <2> HIDE DEF n, iter
    <2>1. {} \in SUBSET (1..n) /\ \A m \in 1..n : 1..m \in SUBSET (1..n)
      BY <1>1
    <2>2. \A t \in SUBSET (1..n) :
            iter[t] = IF t = {} THEN 0 ELSE 10 * iter[t \ {Max(t)}] + s[Max(t)]
      BY <1>6, Zenon
    <2>3. \A m \in 1..n : m \in Nat \ {0}
      BY <1>1
    <2> QED BY <2>1, <2>2, <2>3, IntervalStep
  <1>8. \A m \in 0..n : iter[1..m] \in Nat
    <2>1. FoldsBy(iter, Nat, 0, n, F)
      <3> HIDE DEF iter
      <3> QED BY <1>7 DEF FoldsBy
    <2> HIDE DEF n, F, iter
    <2> QED BY <1>1, <1>2, <2>1, FoldStays
  <1>9. R \in [0..n -> Nat]
    <2> HIDE DEF n, iter
    <2> QED BY <1>8
  <1>10. Running(R, s) /\ ValueOf(s) = R[n]
    <2>1. 1..0 = {}
      OBVIOUS
    <2> HIDE DEF n, iter
    <2>2. R[0] = iter[1..0] /\ R[n] = iter[1..n]
      BY <1>1
    <2>3. \A m \in 1..n : R[m] = 10 * R[m - 1] + s[m]
      BY <1>1, <1>7
    <2> QED BY <1>3, <1>7, <2>1, <2>2, <2>3 DEF Running, n
  <1> HIDE DEF R
  <1> QED BY <1>9, <1>10

(* Digits that are the same behind zeros have the same value.              *)
LEMMA LeadingZeros ==
  ASSUME NEW s \in Seq(Digits), NEW t \in Seq(Digits), NEW k \in Nat, Len(t) = k + Len(s),
         \A i \in 1..k : t[i] = 0, \A i \in 1..Len(s) : t[k + i] = s[i]
  PROVE  ValueOf(t) = ValueOf(s)
  <1>1. PICK R \in [0..Len(s) -> Nat] : Running(R, s) /\ ValueOf(s) = R[Len(s)]
    BY RunningExists
  <1>2. PICK Q \in [0..Len(t) -> Nat] : Running(Q, t) /\ ValueOf(t) = Q[Len(t)]
    BY RunningExists
  <1>3. Len(s) \in Nat
    BY LenProperties
  <1> DEFINE T == {m \in Nat : m <= k => Q[m] = 0}
             U == {m \in Nat : m <= Len(s) => Q[k + m] = R[m]}
  <1>4. k \in T
    <2>1. 0 \in T
      BY <1>2 DEF Running
    <2>2. ASSUME NEW m \in Nat, m \in T PROVE m + 1 \in T
      <3> SUFFICES ASSUME m + 1 <= k PROVE Q[m + 1] = 0
        OBVIOUS
      <3>1. m + 1 \in 1..Len(t) /\ (m + 1) - 1 = m /\ m + 1 \in 1..k
        BY <1>3
      <3>2. Q[m] = 0
        BY <2>2
      <3> QED BY <1>2, <3>1, <3>2 DEF Running
    <2> HIDE DEF T
    <2> QED BY <2>1, <2>2, SetInduction
  <1>5. Len(s) \in U
    <2>1. 0 \in U
      BY <1>1, <1>4 DEF Running
    <2>2. ASSUME NEW m \in Nat, m \in U PROVE m + 1 \in U
      <3> SUFFICES ASSUME m + 1 <= Len(s) PROVE Q[k + (m + 1)] = R[m + 1]
        OBVIOUS
      <3>1. /\ k + (m + 1) \in 1..Len(t) /\ (k + (m + 1)) - 1 = k + m
            /\ m + 1 \in 1..Len(s) /\ (m + 1) - 1 = m
        BY <1>3
      <3>2. Q[k + m] = R[m]
        BY <2>2
      <3>3. Q[k + (m + 1)] = 10 * Q[k + m] + t[k + (m + 1)]
        BY <1>2, <3>1 DEF Running
      <3>4. R[m + 1] = 10 * R[m] + s[m + 1]
        BY <1>1, <3>1 DEF Running
      <3> QED BY <3>1, <3>2, <3>3, <3>4
    <2> HIDE DEF U
    <2> QED BY <1>3, <2>1, <2>2, SetInduction
  <1> QED BY <1>1, <1>2, <1>3, <1>5

(* The first digit that differs decides.                                   *)
LEMMA FirstDecides ==
  ASSUME NEW s \in Seq(Digits), NEW t \in Seq(Digits), Len(t) = Len(s), NEW i \in 1..Len(s),
         \A j \in 1..Len(s) : j < i => s[j] = t[j], s[i] < t[i]
  PROVE  ValueOf(s) < ValueOf(t)
  <1>1. PICK R \in [0..Len(s) -> Nat] : Running(R, s) /\ ValueOf(s) = R[Len(s)]
    BY RunningExists
  <1>2. PICK Q \in [0..Len(t) -> Nat] : Running(Q, t) /\ ValueOf(t) = Q[Len(t)]
    BY RunningExists
  <1>3. Len(s) \in Nat /\ \A j \in 1..Len(s) : s[j] \in Digits /\ t[j] \in Digits
    BY LenProperties, ElementOfSeq
  <1> DEFINE T == {m \in Nat : m <= Len(s) => IF m < i THEN R[m] = Q[m] ELSE R[m] < Q[m]}
  <1>4. 0 \in T
    BY <1>1, <1>2 DEF Running
  <1>5. ASSUME NEW m \in Nat, m \in T PROVE m + 1 \in T
    <2> SUFFICES ASSUME m + 1 <= Len(s)
                 PROVE  IF m + 1 < i THEN R[m + 1] = Q[m + 1] ELSE R[m + 1] < Q[m + 1]
      OBVIOUS
    <2>1. /\ m + 1 \in 1..Len(s) /\ m + 1 \in 1..Len(t) /\ (m + 1) - 1 = m
          /\ R[m] \in Nat /\ Q[m] \in Nat /\ s[m + 1] \in Digits /\ t[m + 1] \in Digits
      <3>1. m + 1 \in 1..Len(s) /\ m + 1 \in 1..Len(t) /\ (m + 1) - 1 = m
        BY <1>3
      <3>2. m \in 0..Len(s) /\ m \in 0..Len(t)
        BY <1>3
      <3> QED BY <1>3, <3>1, <3>2
    <2>2. R[m + 1] = 10 * R[m] + s[m + 1]
      BY <1>1, <2>1 DEF Running
    <2>3. Q[m + 1] = 10 * Q[m] + t[m + 1]
      BY <1>2, <2>1 DEF Running
    <2>4. IF m < i THEN R[m] = Q[m] ELSE R[m] < Q[m]
      BY <1>5
    <2>5. m + 1 < i => s[m + 1] = t[m + 1]
      BY <2>1
    <2>6. m + 1 = i => s[m + 1] < t[m + 1]
      OBVIOUS
    <2> HIDE DEF T
    <2>7. s[m + 1] \in Int /\ t[m + 1] \in Int /\ s[m + 1] - t[m + 1] <= 9
      <3>1. \A x, y \in 0..9 : x \in Int /\ y \in Int /\ x - y <= 9
        OBVIOUS
      <3> QED BY ONLY <2>1, <3>1 DEF Digits
    <2>8. CASE m < i
      <3>1. R[m] = Q[m]
        BY <2>4, <2>8
      <3>2. m + 1 < i \/ m + 1 = i
        BY <2>8
      <3> QED BY <2>1, <2>2, <2>3, <2>5, <2>6, <2>7, <3>1, <3>2
    <2>9. CASE ~(m < i)
      <3>1. R[m] + 1 <= Q[m]
        BY <2>1, <2>4, <2>9
      <3>2. R[m + 1] < Q[m + 1]
        <4>1. \A x, y \in Nat, i1, j1 \in Int : x + 1 <= y /\ i1 - j1 <= 9 => 10 * x + i1 < 10 * y + j1
          OBVIOUS
        <4> QED BY ONLY <2>1, <2>2, <2>3, <2>7, <3>1, <4>1
      <3> QED BY <2>9, <3>2
    <2> QED BY <2>8, <2>9
  <1>6. Len(s) \in T
    <2> HIDE DEF T
    <2> QED BY <1>3, <1>4, <1>5, SetInduction
  <1> QED BY <1>1, <1>2, <1>3, <1>6

LEMMA ValueIs ==
  ASSUME NEW s \in Seq(Digits)
  PROVE  ValueOf(s) \in Nat
  BY RunningExists, LenProperties

-------------------------------------------------------------------------------
(* The digit that stands at a place, 0 for the units, when the units are   *)
(* the digit number top.                                                   *)
PlaceOf(s, top, p) == IF top - p \in 1..Len(s) THEN s[top - p] ELSE 0

(* The digits from place P - 1 down to place -Q.                           *)
Row(s, top, P, Q) == [i \in 1..(P + Q) |-> PlaceOf(s, top, P - i)]

LEMMA PlaceIs ==
  ASSUME NEW s \in Seq(Digits), NEW top, NEW p
  PROVE  PlaceOf(s, top, p) \in Digits
  <1>1. \A i \in 1..Len(s) : s[i] \in Digits
    BY ElementOfSeq
  <1> QED BY <1>1 DEF PlaceOf, Digits

LEMMA RowIs ==
  ASSUME NEW s \in Seq(Digits), NEW top \in Int, NEW P \in Int, NEW Q \in Int, P + Q >= 0
  PROVE  /\ Row(s, top, P, Q) \in Seq(Digits) /\ Len(Row(s, top, P, Q)) = P + Q
         /\ \A i \in 1..(P + Q) : Row(s, top, P, Q)[i] = PlaceOf(s, top, P - i)
  <1>1. \A i \in 1..(P + Q) : PlaceOf(s, top, P - i) \in Digits
    BY PlaceIs
  <1>2. P + Q \in Nat
    OBVIOUS
  <1>3. Row(s, top, P, Q) \in [1..(P + Q) -> Digits]
    BY <1>1 DEF Row
  <1>4. Row(s, top, P, Q) \in Seq(Digits)
    BY <1>2, <1>3, SeqDef
  <1> QED BY <1>2, <1>3, <1>4, LenProperties DEF Row

LEMMA ZerosAre ==
  ASSUME NEW n \in Nat
  PROVE  Zeros(n) \in Seq(Digits) /\ Len(Zeros(n)) = n /\ \A i \in 1..n : Zeros(n)[i] = 0
  <1>1. Zeros(n) \in [1..n -> Digits]
    BY DEF Zeros, Digits
  <1>2. Zeros(n) \in Seq(Digits)
    BY <1>1, SeqDef
  <1> QED BY <1>1, <1>2, LenProperties DEF Zeros

(* Zeros on both sides of the digits make a row.                           *)
LEMMA RowValue ==
  ASSUME NEW s \in Seq(Digits), NEW top \in Int, NEW P \in Int, NEW Q \in Int,
         top <= P, Len(s) <= top + Q
  PROVE  ValueOf(s \o Zeros(top + Q - Len(s))) = ValueOf(Row(s, top, P, Q))
  <1> DEFINE z == Zeros(top + Q - Len(s))
             t == s \o z
             r == Row(s, top, P, Q)
             k == P - top
  <1>1. Len(s) \in Nat /\ top + Q - Len(s) \in Nat /\ P + Q >= 0 /\ k \in Nat
    BY LenProperties
  <1>2. z \in Seq(Digits) /\ Len(z) = top + Q - Len(s) /\ \A i \in 1..(top + Q - Len(s)) : z[i] = 0
    BY <1>1, ZerosAre
  <1>3. /\ r \in Seq(Digits) /\ Len(r) = P + Q
        /\ \A i \in 1..(P + Q) : r[i] = PlaceOf(s, top, P - i)
    BY <1>1, RowIs
  <1> HIDE DEF z, r
  <1>4. /\ t \in Seq(Digits) /\ Len(t) = Len(s) + Len(z)
        /\ \A i \in 1..(Len(s) + Len(z)) : t[i] = IF i <= Len(s) THEN s[i] ELSE z[i - Len(s)]
    BY <1>2, ConcatProperties
  <1> HIDE DEF t
  <1>5. Len(t) = top + Q /\ Len(r) = k + Len(t)
    BY <1>1, <1>2, <1>3, <1>4
  <1>6. ASSUME NEW i \in 1..k PROVE r[i] = 0
    <2>1. i \in 1..(P + Q) /\ ~(top - (P - i) \in 1..Len(s))
      BY <1>1
    <2> QED BY <1>3, <2>1 DEF PlaceOf
  <1>7. ASSUME NEW i \in 1..Len(t) PROVE r[k + i] = t[i]
    <2>1. k + i \in 1..(P + Q) /\ P - (k + i) = top - i /\ top - (top - i) = i
      BY <1>1, <1>5
    <2>2. r[k + i] = IF i \in 1..Len(s) THEN s[i] ELSE 0
      BY <1>3, <2>1 DEF PlaceOf
    <2>3. CASE i <= Len(s)
      BY <1>1, <1>4, <1>5, <1>2, <2>2, <2>3
    <2>4. CASE ~(i <= Len(s))
      <3>1. i - Len(s) \in 1..(top + Q - Len(s)) /\ i \in 1..(Len(s) + Len(z))
        BY <1>1, <1>2, <1>5, <2>4
      <3>2. t[i] = z[i - Len(s)]
        BY <1>4, <2>4, <3>1
      <3>3. z[i - Len(s)] = 0
        BY <1>2, <3>1
      <3> QED BY <2>2, <2>4, <3>2, <3>3
    <2> QED BY <2>3, <2>4
  <1>8. ValueOf(r) = ValueOf(t)
    <2> HIDE DEF k
    <2> QED BY <1>1, <1>3, <1>4, <1>5, <1>6, <1>7, LeadingZeros
  <1> QED BY <1>8 DEF r, t, z

(* The digits of two numbers, place by place: the same, or the first with  *)
(* less at the first place where they differ.                              *)
Same(s, a, t, b) == \A p \in Int : PlaceOf(s, a, p) = PlaceOf(t, b, p)
BelowAt(s, a, t, b) ==
  \E p \in Int : /\ PlaceOf(s, a, p) < PlaceOf(t, b, p)
                 /\ \A q \in Int : q > p => PlaceOf(s, a, q) = PlaceOf(t, b, q)

LEMMA SameRows ==
  ASSUME NEW s, NEW a, NEW t, NEW b, NEW P \in Int, NEW Q \in Int, Same(s, a, t, b)
  PROVE  Row(s, a, P, Q) = Row(t, b, P, Q)
  <1>1. ASSUME NEW i \in 1..(P + Q) PROVE PlaceOf(s, a, P - i) = PlaceOf(t, b, P - i)
    <2>1. i \in Int
      OBVIOUS
    <2>2. P - i \in Int
      BY <2>1
    <2> QED BY <2>2 DEF Same
  <1> QED BY <1>1 DEF Row

LEMMA RowsInOrder ==
  ASSUME NEW s \in Seq(Digits), NEW a \in Int, NEW t \in Seq(Digits), NEW b \in Int,
         NEW P \in Int, NEW Q \in Int, a <= P, b <= P, Len(s) <= a + Q, Len(t) <= b + Q,
         BelowAt(s, a, t, b)
  PROVE  ValueOf(Row(s, a, P, Q)) < ValueOf(Row(t, b, P, Q))
  <1> DEFINE r == Row(s, a, P, Q)
             u == Row(t, b, P, Q)
  <1>1. Len(s) \in Nat /\ Len(t) \in Nat
    BY LenProperties
  <1>2. P + Q \in Nat
    BY <1>1
  <1>3. PICK p \in Int : /\ PlaceOf(s, a, p) < PlaceOf(t, b, p)
                         /\ \A q \in Int : q > p => PlaceOf(s, a, q) = PlaceOf(t, b, q)
    BY DEF BelowAt
  <1>4. b - p \in 1..Len(t)
    <2>1. PlaceOf(s, a, p) \in Digits /\ PlaceOf(t, b, p) \in Digits
      BY PlaceIs
    <2>2. PlaceOf(t, b, p) # 0
      <3>1. \A x, y \in Digits : x < y => y # 0
        BY DEF Digits
      <3> QED BY ONLY <1>3, <2>1, <3>1
    <2> QED BY ONLY <2>2 DEF PlaceOf
  <1>5. P - p \in 1..(P + Q) /\ P - (P - p) = p
    BY <1>1, <1>4
  <1>6. /\ r \in Seq(Digits) /\ Len(r) = P + Q
        /\ \A i \in 1..(P + Q) : r[i] = PlaceOf(s, a, P - i)
    BY <1>2, RowIs
  <1>7. /\ u \in Seq(Digits) /\ Len(u) = P + Q
        /\ \A i \in 1..(P + Q) : u[i] = PlaceOf(t, b, P - i)
    BY <1>2, RowIs
  <1> HIDE DEF r, u
  <1>8. r[P - p] < u[P - p]
    BY <1>3, <1>5, <1>6, <1>7
  <1>9. ASSUME NEW j \in 1..Len(r), j < P - p PROVE r[j] = u[j]
    <2>1. j \in 1..(P + Q) /\ P - j \in Int /\ P - j > p
      BY <1>6, <1>9, <1>2
    <2> QED BY <1>3, <1>6, <1>7, <2>1
  <1>10. P - p \in 1..Len(r) /\ Len(u) = Len(r)
    BY <1>5, <1>6, <1>7
  <1> QED BY <1>6, <1>7, <1>8, <1>9, <1>10, FirstDecides DEF r, u

LEMMA MaxHolds ==
  ASSUME NEW n \in Nat, NEW T \in SUBSET (1..n), T # {}
  PROVE  Max(T) \in T /\ \A y \in T : y <= Max(T)
  <1>1. {n - x : x \in T} \in SUBSET Nat /\ {n - x : x \in T} # {}
    <2>1. \A x \in T : x \in Nat /\ n - x \in Nat
      OBVIOUS
    <2>2. PICK x \in T : TRUE
      OBVIOUS
    <2>3. n - x \in {n - y : y \in T}
      OBVIOUS
    <2> QED BY <2>1, <2>3
  <1>2. PICK m \in {n - x : x \in T} : \A k \in {n - x : x \in T} : m <= k
    BY <1>1, LeastNatural
  <1>3. PICK x \in T : m = n - x
    BY <1>2
  <1>4. ASSUME NEW y \in T PROVE x >= y
    <2>1. m <= n - y
      BY <1>2
    <2> QED BY <1>3, <2>1
  <1>5. Max(T) \in T /\ \A y \in T : Max(T) >= y
    BY <1>4 DEF Max
  <1> QED BY <1>5

-------------------------------------------------------------------------------
(* The digit of a canonical number at a place, and the form without zeros  *)
(* that say nothing.                                                       *)
Shown(w, f, p) ==
  IF p >= 0 THEN IF p < Len(w) THEN w[Len(w) - p] ELSE 0 ELSE Digit(f, -p)

Normal(w, f) ==
  /\ w \in Seq(Digits) /\ f \in Seq(Digits) /\ Len(w) >= 1
  /\ Len(w) > 1 => w[1] # 0
  /\ Len(f) > 0 => f[Len(f)] # 0

LEMMA ShownPlace ==
  ASSUME NEW w \in Seq(Digits), NEW f \in Seq(Digits), NEW p \in Int
  PROVE  PlaceOf(w \o f, Len(w), p) = Shown(w, f, p)
  <1>1. Len(w) \in Nat /\ Len(f) \in Nat
    BY LenProperties
  <1>2. /\ Len(w \o f) = Len(w) + Len(f)
        /\ \A i \in 1..(Len(w) + Len(f)) : (w \o f)[i] = IF i <= Len(w) THEN w[i] ELSE f[i - Len(w)]
    BY ConcatProperties
  <1>3. CASE Len(w) - p \in 1..Len(w)
    <2>1. Len(w) - p \in 1..(Len(w) + Len(f)) /\ Len(w) - p <= Len(w) /\ p >= 0 /\ p < Len(w)
      BY <1>1, <1>3
    <2> QED BY <1>2, <2>1 DEF PlaceOf, Shown
  <1>4. CASE Len(w) - p > Len(w)
    <2>1. /\ ~(p >= 0) /\ (Len(w) - p) - Len(w) = -p
          /\ Len(w) - p \in 1..(Len(w) + Len(f)) <=> -p <= Len(f)
      BY <1>1, <1>4
    <2> QED BY <1>2, <1>4, <2>1, <1>1 DEF PlaceOf, Shown, Digit
  <1>5. CASE Len(w) - p < 1
    BY <1>1, <1>2, <1>5 DEF PlaceOf, Shown
  <1> QED BY <1>1, <1>3, <1>4, <1>5

PlacedAs(neg, c, e, w, f) ==
  /\ Placed(neg, c, e) = Number(neg, w, f)
  /\ Normal(w, f)
  /\ \A p \in Int : Shown(w, f, p) = PlaceOf(c, Len(c) + e, p)

LEMMA PlacedIs ==
  ASSUME NEW neg, NEW c \in Seq(Digits), NEW e \in Int, Len(c) >= 1, c[1] # 0, c[Len(c)] # 0
  PROVE  \E w, f : PlacedAs(neg, c, e, w, f)
  <1> DEFINE point == Len(c) + e
             Fits(w, f) == /\ w \in Seq(Digits) /\ f \in Seq(Digits)
                           /\ Placed(neg, c, e) = Number(neg, w, f)
                           /\ Normal(w, f)
                           /\ \A p \in Int : Shown(w, f, p) = PlaceOf(c, point, p)
  <1>1. Len(c) \in Nat \ {0} /\ point \in Int
    BY LenProperties
  <1>2. ASSUME point <= 0
        PROVE  \E w, f : Fits(w, f)
    <2> DEFINE z == Zeros(-point)
               f == z \o c
               w == <<0>>
    <2>0. -point \in Nat
      BY <1>1, <1>2
    <2>1. z \in Seq(Digits) /\ Len(z) = -point /\ \A i \in 1..(-point) : z[i] = 0
      BY <2>0, ZerosAre
    <2> HIDE DEF z
    <2>2. /\ f \in Seq(Digits) /\ Len(f) = -point + Len(c)
          /\ \A i \in 1..(-point + Len(c)) : f[i] = IF i <= -point THEN z[i] ELSE c[i - (-point)]
      <3>1. /\ f \in Seq(Digits) /\ Len(f) = Len(z) + Len(c)
            /\ \A i \in 1..(Len(z) + Len(c)) : f[i] = IF i <= Len(z) THEN z[i] ELSE c[i - Len(z)]
        BY ONLY <2>1, c \in Seq(Digits), ConcatProperties
      <3> HIDE DEF f
      <3> QED BY <2>1, <3>1
    <2>3. w \in Seq(Digits) /\ Len(w) = 1 /\ w[1] = 0
      BY DEF Digits
    <2>4. Placed(neg, c, e) = Number(neg, w, f)
      BY <1>2 DEF Placed, z
    <2> HIDE DEF f, w
    <2>5. Normal(w, f)
      <3>1. /\ -point + Len(c) \in 1..(-point + Len(c)) /\ ~(-point + Len(c) <= -point)
            /\ (-point + Len(c)) - (-point) = Len(c)
        BY <1>1, <1>2
      <3>2. f[Len(f)] = c[Len(c)]
        BY <2>2, <3>1
      <3> QED BY <2>2, <2>3, <3>2 DEF Normal
    <2>6. ASSUME NEW p \in Int PROVE Shown(w, f, p) = PlaceOf(c, point, p)
      <3>1. CASE p >= 0
        <4>1. ~(point - p \in 1..Len(c)) /\ (p < 1 => 1 - p = 1)
          BY <1>1, <1>2, <3>1
        <4> QED BY <2>3, <3>1, <4>1 DEF Shown, PlaceOf
      <3>2. CASE p < 0 /\ -p <= -point
        <4>1. ~(point - p \in 1..Len(c)) /\ -p \in 1..(-point) /\ -p \in 1..(-point + Len(c)) /\ ~(p >= 0)
          BY <1>1, <1>2, <3>2
        <4> QED BY <2>1, <2>2, <3>2, <4>1 DEF Shown, PlaceOf, Digit
      <3>3. CASE p < 0 /\ -p > -point /\ -p <= Len(f)
        <4>1. /\ point - p \in 1..Len(c) /\ -p \in 1..(-point + Len(c)) /\ ~(p >= 0)
              /\ ~(-p <= -point) /\ (-p) - (-point) = point - p
          BY <1>1, <1>2, <2>2, <3>3
        <4> QED BY <2>1, <2>2, <3>3, <4>1 DEF Shown, PlaceOf, Digit
      <3>4. CASE p < 0 /\ ~(-p <= Len(f))
        <4>1. ~(point - p \in 1..Len(c)) /\ ~(p >= 0)
          BY <1>1, <1>2, <2>2, <3>4
        <4> QED BY <3>4, <4>1 DEF Shown, PlaceOf, Digit
      <3> QED BY <3>1, <3>2, <3>3, <3>4, <1>1, <2>2
    <2> QED BY <2>2, <2>3, <2>4, <2>5, <2>6
  <1>3. ASSUME point >= Len(c)
        PROVE  \E w, f : Fits(w, f)
    <2> DEFINE z == Zeros(point - Len(c))
               w == c \o z
               f == <<>>
    <2>0. point - Len(c) \in Nat
      BY <1>1, <1>3
    <2>1. z \in Seq(Digits) /\ Len(z) = point - Len(c) /\ \A i \in 1..(point - Len(c)) : z[i] = 0
      BY <2>0, ZerosAre
    <2> HIDE DEF z
    <2>2. /\ w \in Seq(Digits) /\ Len(w) = Len(c) + Len(z)
          /\ \A i \in 1..(Len(c) + Len(z)) : w[i] = IF i <= Len(c) THEN c[i] ELSE z[i - Len(c)]
      BY <2>1, ConcatProperties
    <2>3. f \in Seq(Digits) /\ Len(f) = 0
      OBVIOUS
    <2>4. Placed(neg, c, e) = Number(neg, w, f)
      BY <1>1, <1>3 DEF Placed, z
    <2> HIDE DEF f, w
    <2>5. Normal(w, f)
      <3>1. 1 \in 1..(Len(c) + Len(z)) /\ 1 <= Len(c) /\ Len(w) = point
        BY <1>1, <1>3, <2>1, <2>2
      <3>2. w[1] = c[1]
        BY <2>2, <3>1
      <3> QED BY <1>1, <1>3, <2>2, <2>3, <3>1, <3>2 DEF Normal
    <2>6. ASSUME NEW p \in Int PROVE Shown(w, f, p) = PlaceOf(c, point, p)
      <3>0. Len(w) = point /\ Len(c) + Len(z) = point
        BY <1>1, <2>1, <2>2
      <3>1. CASE p < 0
        <4>1. ~(point - p \in 1..Len(c)) /\ ~(p >= 0) /\ ~(-p <= 0)
          BY <1>1, <1>3, <3>1
        <4> QED BY <2>3, <4>1 DEF Shown, PlaceOf, Digit
      <3>2. CASE p >= 0 /\ p < point /\ point - p <= Len(c)
        <4>1. point - p \in 1..Len(c) /\ point - p \in 1..(Len(c) + Len(z))
          BY <1>1, <3>0, <3>2
        <4> QED BY <2>2, <3>0, <3>2, <4>1 DEF Shown, PlaceOf
      <3>3. CASE p >= 0 /\ p < point /\ ~(point - p <= Len(c))
        <4>1. /\ ~(point - p \in 1..Len(c)) /\ point - p \in 1..(Len(c) + Len(z))
              /\ (point - p) - Len(c) \in 1..(point - Len(c))
          BY <1>1, <3>0, <3>3
        <4>2. w[point - p] = z[(point - p) - Len(c)]
          BY <2>2, <3>3, <4>1
        <4>3. w[point - p] = 0
          BY <2>1, <4>1, <4>2
        <4> QED BY <3>0, <3>3, <4>1, <4>3 DEF Shown, PlaceOf
      <3>4. CASE p >= 0 /\ ~(p < point)
        <4>1. ~(point - p \in 1..Len(c))
          BY <1>1, <3>4
        <4> QED BY <3>0, <3>4, <4>1 DEF Shown, PlaceOf
      <3> QED BY <1>1, <3>1, <3>2, <3>3, <3>4
    <2> QED BY <2>2, <2>3, <2>4, <2>5, <2>6
  <1>4. ASSUME point > 0, point < Len(c)
        PROVE  \E w, f : Fits(w, f)
    <2> DEFINE w == SubSeq(c, 1, point)
               f == SubSeq(c, point + 1, Len(c))
    <2>0. \A i \in 1..Len(c) : c[i] \in Digits
      BY ElementOfSeq
    <2>1. /\ w \in Seq(Digits) /\ Len(w) = point
          /\ \A i \in 1..point : w[i] = c[i]
      <3>1. /\ 1 \in Int /\ point \in Int /\ 1 <= point /\ (point - 1) + 1 = point
            /\ \A i \in 1..point : c[i] \in Digits /\ (1 + i) - 1 = i
        BY <1>1, <1>4, <2>0
      <3> QED BY <3>1, SubSeqProperties
    <2>2. /\ f \in Seq(Digits) /\ Len(f) = Len(c) - point
          /\ \A i \in 1..(Len(c) - point) : f[i] = c[point + i]
      <3>1. /\ point + 1 \in Int /\ Len(c) \in Int /\ point + 1 <= Len(c)
            /\ (Len(c) - (point + 1)) + 1 = Len(c) - point
            /\ \A i \in (point + 1)..Len(c) : c[i] \in Digits
            /\ \A i \in 1..(Len(c) - point) : ((point + 1) + i) - 1 = point + i
        BY <1>1, <1>4, <2>0
      <3> QED BY <3>1, SubSeqProperties
    <2>4. Placed(neg, c, e) = Number(neg, w, f)
      BY <1>1, <1>4 DEF Placed
    <2> HIDE DEF f, w
    <2>5. Normal(w, f)
      <3>1. 1 \in 1..point /\ Len(c) - point \in 1..(Len(c) - point) /\ point + (Len(c) - point) = Len(c)
        BY <1>1, <1>4
      <3> QED BY <1>1, <1>4, <2>1, <2>2, <3>1 DEF Normal
    <2>6. ASSUME NEW p \in Int PROVE Shown(w, f, p) = PlaceOf(c, point, p)
      <3>1. CASE p >= 0 /\ p < point
        <4>1. point - p \in 1..Len(c) /\ point - p \in 1..point
          BY <1>1, <1>4, <3>1
        <4> QED BY <2>1, <3>1, <4>1 DEF Shown, PlaceOf
      <3>2. CASE p >= 0 /\ ~(p < point)
        <4>1. ~(point - p \in 1..Len(c))
          BY <1>1, <3>2
        <4> QED BY <2>1, <3>2, <4>1 DEF Shown, PlaceOf
      <3>3. CASE p < 0 /\ -p <= Len(c) - point
        <4>1. point - p \in 1..Len(c) /\ -p \in 1..(Len(c) - point) /\ point + (-p) = point - p /\ ~(p >= 0)
          BY <1>1, <1>4, <3>3
        <4> QED BY <2>2, <3>3, <4>1 DEF Shown, PlaceOf, Digit
      <3>4. CASE p < 0 /\ ~(-p <= Len(c) - point)
        <4>1. ~(point - p \in 1..Len(c)) /\ ~(p >= 0)
          BY <1>1, <1>4, <3>4
        <4> QED BY <2>2, <3>4, <4>1 DEF Shown, PlaceOf, Digit
      <3> QED BY <1>1, <3>1, <3>2, <3>3, <3>4
    <2> QED BY <2>1, <2>2, <2>4, <2>5, <2>6
  <1>5. \A w, f : Fits(w, f) => PlacedAs(neg, c, e, w, f)
    BY Zenon DEF PlacedAs
  <1> HIDE DEF Fits
  <1>6. \E w, f : Fits(w, f)
    BY <1>1, <1>2, <1>3, <1>4
  <1> QED BY <1>5, <1>6, Zenon

-------------------------------------------------------------------------------
(* A canonical form keeps the digit of every place and the sign of every   *)
(* number but zero.                                                        *)
StandsFor(neg, w, f, l) ==
  LET d   == l.whole \o l.frac
      top == Len(l.whole) + l.exp
  IN  /\ neg \in BOOLEAN /\ Normal(w, f)
      /\ \A p \in Int : Shown(w, f, p) = PlaceOf(d, top, p)
      /\ IF neg THEN l.neg /\ \E p \in Int : PlaceOf(d, top, p) # 0
         ELSE ~l.neg \/ \A p \in Int : PlaceOf(d, top, p) = 0

LEMMA CanonicalIs ==
  ASSUME NEW l, IsLexeme(l), Canonical(l) # Refused
  PROVE  \E neg, w, f : Canonical(l) = Number(neg, w, f) /\ StandsFor(neg, w, f, l)
  <1> DEFINE d     == l.whole \o l.frac
             top   == Len(l.whole) + l.exp
             m     == Max({1} \cup Nonzero(d))
             coeff == SubSeq(d, 1, m)
             e     == l.exp - Len(l.frac) + (Len(d) - Len(coeff))
  <1>1. /\ l.neg \in BOOLEAN /\ l.exp \in Int /\ l.whole \in Seq(Digits) /\ l.frac \in Seq(Digits)
        /\ Len(l.whole) \in Nat \ {0} /\ Len(l.frac) \in Nat
    BY LenProperties, EmptySeq DEF IsLexeme, Digits
  <1>2. d \in Seq(Digits) /\ Len(d) = Len(l.whole) + Len(l.frac)
    BY <1>1, ConcatProperties
  <1>3. Canonical(l) = IF Nonzero(coeff) = {} THEN Number(FALSE, <<0>>, <<>>)
                       ELSE Placed(l.neg, SubSeq(coeff, Min(Nonzero(coeff)), Len(coeff)), e)
    BY Zenon DEF Canonical, Stripped
  <1> HIDE DEF d
  <1>4. Len(d) \in Nat \ {0} /\ top \in Int /\ top - Len(d) = l.exp - Len(l.frac)
    <2> DEFINE x == Len(l.whole)
               y == Len(l.frac)
               z == l.exp
    <2>1. x \in Nat \ {0} /\ y \in Nat /\ z \in Int /\ Len(d) = x + y /\ top = x + z
      BY <1>1, <1>2, Zenon
    <2> HIDE DEF x, y, z, top
    <2>2. Len(d) \in Nat \ {0} /\ top \in Int /\ top - Len(d) = z - y
      BY ONLY <2>1
    <2> QED BY <2>2 DEF z, y
  <1>5. m \in 1..Len(d) /\ (m = 1 \/ d[m] # 0) /\ \A i \in 1..Len(d) : i > m => d[i] = 0
    <2>1. {1} \cup Nonzero(d) \in SUBSET (1..Len(d)) /\ {1} \cup Nonzero(d) # {}
      BY <1>4 DEF Nonzero
    <2>2. m \in {1} \cup Nonzero(d) /\ \A y \in {1} \cup Nonzero(d) : y <= m
      BY <1>4, <2>1, MaxHolds
    <2> HIDE DEF m
    <2>3. ASSUME NEW i \in 1..Len(d), i > m PROVE d[i] = 0
      BY <2>1, <2>2, <2>3 DEF Nonzero
    <2> QED BY <2>1, <2>2, <2>3 DEF Nonzero
  <1> HIDE DEF m
  <1>6. /\ coeff \in Seq(Digits) /\ Len(coeff) = m
        /\ \A i \in 1..m : coeff[i] = d[i]
    <2>1. \A i \in 1..Len(d) : d[i] \in Digits
      BY <1>2, ElementOfSeq
    <2>2. /\ 1 \in Int /\ m \in Int /\ 1 <= m /\ (m - 1) + 1 = m
          /\ \A i \in 1..m : d[i] \in Digits /\ (1 + i) - 1 = i
      BY <1>4, <1>5, <2>1
    <2> QED BY <2>2, SubSeqProperties
  <1> HIDE DEF coeff
  <1>7. e = top - m
    <2> DEFINE x == Len(l.whole)
               y == Len(l.frac)
               z == l.exp
    <2>1. /\ x \in Nat /\ y \in Nat /\ z \in Int /\ Len(d) = x + y /\ top = x + z
          /\ e = z - y + (Len(d) - m) /\ m \in Int
      BY <1>1, <1>2, <1>5, <1>6
    <2> HIDE DEF x, y, z, top, e
    <2> QED BY ONLY <2>1
  <1> HIDE DEF e
  <1>8. CASE Nonzero(coeff) = {}
    <2>1. ASSUME NEW i \in 1..Len(d) PROVE d[i] = 0
      BY <1>5, <1>6, <1>8, <1>4 DEF Nonzero
    <2>2. \A p \in Int : PlaceOf(d, top, p) = 0
      <3> HIDE DEF top
      <3> QED BY <2>1 DEF PlaceOf
    <2>3. <<0>> \in Seq(Digits) /\ Len(<<0>>) = 1 /\ <<0>>[1] = 0 /\ <<>> \in Seq(Digits) /\ Len(<<>>) = 0
      BY DEF Digits
    <2>4. \A p \in Int : Shown(<<0>>, <<>>, p) = 0
      BY <2>3 DEF Shown, Digit
    <2>5. Normal(<<0>>, <<>>)
      BY <2>3 DEF Normal
    <2> HIDE DEF top
    <2>6. StandsFor(FALSE, <<0>>, <<>>, l)
      BY <2>2, <2>4, <2>5 DEF StandsFor, d, top
    <2> QED BY <1>3, <1>8, <2>6
  <1>9. CASE Nonzero(coeff) # {}
    <2> DEFINE k == Min(Nonzero(coeff))
               c == SubSeq(coeff, k, m)
    <2>1. k \in 1..m /\ d[k] # 0 /\ \A i \in 1..m : i < k => d[i] = 0
      <3>1. Nonzero(coeff) \in SUBSET Nat
        BY <1>5, <1>6 DEF Nonzero
      <3>2. k \in Nonzero(coeff) /\ \A i \in Nonzero(coeff) : k <= i
        BY <1>9, <3>1, MinHolds
      <3> HIDE DEF k
      <3> QED BY <1>5, <1>6, <3>1, <3>2 DEF Nonzero
    <2> HIDE DEF k
    <2>2. /\ c \in Seq(Digits) /\ Len(c) = m - k + 1
          /\ \A i \in 1..(m - k + 1) : c[i] = d[k + i - 1]
      <3>1. \A i \in 1..Len(coeff) : coeff[i] \in Digits
        BY <1>6, ElementOfSeq
      <3>2. /\ k \in Int /\ m \in Int /\ k <= m
            /\ \A i \in k..m : coeff[i] \in Digits
            /\ \A i \in 1..(m - k + 1) : coeff[k + i - 1] = d[k + i - 1]
        BY <1>5, <1>6, <2>1, <3>1
      <3>3. /\ c \in Seq(Digits) /\ Len(c) = m - k + 1
            /\ \A i \in 1..(m - k + 1) : c[i] = coeff[k + i - 1]
        BY <3>2, SubSeqProperties
      <3> HIDE DEF c
      <3> QED BY <3>2, <3>3
    <2>3. Canonical(l) = Placed(l.neg, c, e)
      BY <1>3, <1>6, <1>9 DEF k
    <2> HIDE DEF c
    <2>4. d[m] # 0
      <3>1. CASE m = 1
        BY <2>1, <3>1
      <3> QED BY <1>5, <3>1
    <2>5. Len(c) >= 1 /\ c[1] # 0 /\ c[Len(c)] # 0
      <3>1. /\ 1 \in 1..(m - k + 1) /\ m - k + 1 \in 1..(m - k + 1)
            /\ k + 1 - 1 = k /\ k + (m - k + 1) - 1 = m
        BY <2>1, <1>5
      <3> QED BY <2>1, <2>2, <2>4, <3>1
    <2>6. Len(c) + e = top - k + 1
      BY <1>4, <1>5, <1>7, <2>1, <2>2
    <2>7. e \in Int
      BY <1>4, <1>5, <1>7
    <2>801. PICK w, f : PlacedAs(l.neg, c, e, w, f)
      BY ONLY <2>2, <2>5, <2>7, PlacedIs
    <2>8. /\ Placed(l.neg, c, e) = Number(l.neg, w, f)
          /\ Normal(w, f)
          /\ \A p \in Int : Shown(w, f, p) = PlaceOf(c, Len(c) + e, p)
      BY <2>801, Zenon DEF PlacedAs
    <2> HIDE DEF top
    <2>9. ASSUME NEW p \in Int PROVE PlaceOf(c, Len(c) + e, p) = PlaceOf(d, top, p)
      <3>0. PlaceOf(c, Len(c) + e, p) = PlaceOf(c, top - k + 1, p)
        BY <2>6
      <3>1. CASE top - p \in k..m
        <4>1. /\ (top - k + 1) - p \in 1..(m - k + 1) /\ k + ((top - k + 1) - p) - 1 = top - p
              /\ top - p \in 1..Len(d)
          BY <1>4, <1>5, <2>1, <3>1
        <4> QED BY <2>2, <3>0, <4>1 DEF PlaceOf
      <3>2. CASE top - p \notin k..m
        <4>1. ~((top - k + 1) - p \in 1..Len(c))
          BY <1>4, <1>5, <2>1, <2>2, <3>2
        <4>2. ASSUME top - p \in 1..Len(d) PROVE d[top - p] = 0
          <5>1. top - p > m \/ (top - p \in 1..m /\ top - p < k)
            BY <1>4, <1>5, <2>1, <3>2, <4>2
          <5> QED BY <1>5, <2>1, <4>2, <5>1
        <4> QED BY <3>0, <4>1, <4>2 DEF PlaceOf
      <3> QED BY <3>1, <3>2
    <2>10. \A p \in Int : Shown(w, f, p) = PlaceOf(d, top, p)
      BY <2>8, <2>9, Zenon
    <2>11. \E p \in Int : PlaceOf(d, top, p) # 0
      <3>1. top - k \in Int /\ top - (top - k) = k /\ k \in 1..Len(d)
        BY <1>4, <1>5, <2>1
      <3>2. PlaceOf(d, top, top - k) # 0
        BY <2>1, <3>1 DEF PlaceOf
      <3> QED BY <3>1, <3>2
    <2>12. StandsFor(l.neg, w, f, l)
      BY <1>1, <2>8, <2>10, <2>11, Zenon DEF StandsFor, d, top
    <2> QED BY <2>3, <2>8, <2>12
  <1> QED BY <1>8, <1>9

(* The digits at the places tell the form.                                 *)
LEMMA NotLonger ==
  ASSUME NEW w, NEW f, NEW v, NEW g, Normal(w, f), Normal(v, g),
         \A p \in Int : Shown(w, f, p) = Shown(v, g, p)
  PROVE  Len(w) <= Len(v) /\ Len(f) <= Len(g)
  <1>1. Len(w) \in Nat /\ Len(f) \in Nat /\ Len(v) \in Nat /\ Len(g) \in Nat /\ Len(v) >= 1
    BY LenProperties DEF Normal
  <1>2. ASSUME Len(w) > Len(v) PROVE FALSE
    <2>1. Len(w) - 1 \in Int /\ Len(w) - 1 >= 0 /\ Len(w) - 1 < Len(w) /\ ~(Len(w) - 1 < Len(v))
          /\ Len(w) - (Len(w) - 1) = 1 /\ Len(w) > 1
      BY <1>1, <1>2
    <2>2. Shown(w, f, Len(w) - 1) # 0 /\ Shown(v, g, Len(w) - 1) = 0
      BY <2>1 DEF Shown, Normal
    <2> QED BY <2>1, <2>2
  <1>3. ASSUME Len(f) > Len(g) PROVE FALSE
    <2>1. -Len(f) \in Int /\ ~(-Len(f) >= 0) /\ -(-Len(f)) = Len(f) /\ ~(Len(f) <= Len(g)) /\ Len(f) > 0
          /\ Len(f) <= Len(f)
      BY <1>1, <1>3
    <2>2. Shown(w, f, -Len(f)) # 0 /\ Shown(v, g, -Len(f)) = 0
      BY <2>1 DEF Shown, Normal, Digit
    <2> QED BY <2>1, <2>2
  <1> QED BY <1>1, <1>2, <1>3

LEMMA SameForm ==
  ASSUME NEW w, NEW f, NEW v, NEW g, Normal(w, f), Normal(v, g),
         \A p \in Int : Shown(w, f, p) = Shown(v, g, p)
  PROVE  w = v /\ f = g
  <1>1. Len(w) <= Len(v) /\ Len(f) <= Len(g)
    BY NotLonger
  <1>2. Len(v) <= Len(w) /\ Len(g) <= Len(f)
    BY NotLonger
  <1>3. Len(w) \in Nat /\ Len(f) \in Nat /\ Len(v) \in Nat /\ Len(g) \in Nat
    BY LenProperties DEF Normal
  <1>4. Len(w) = Len(v) /\ Len(f) = Len(g)
    BY <1>1, <1>2, <1>3
  <1>5. ASSUME NEW i \in 1..Len(w) PROVE w[i] = v[i]
    <2>1. Len(w) - i \in Int /\ Len(w) - i >= 0 /\ Len(w) - i < Len(w) /\ Len(w) - (Len(w) - i) = i
      BY <1>3
    <2> QED BY <1>4, <2>1 DEF Shown
  <1>6. ASSUME NEW i \in 1..Len(f) PROVE f[i] = g[i]
    <2>1. -i \in Int /\ ~(-i >= 0) /\ -(-i) = i /\ i <= Len(f)
      BY <1>3
    <2> QED BY <1>4, <2>1 DEF Shown, Digit
  <1>7. w \in Seq(Digits) /\ v \in Seq(Digits) /\ f \in Seq(Digits) /\ g \in Seq(Digits)
    BY DEF Normal
  <1> QED BY <1>4, <1>5, <1>6, <1>7, SeqEqual

-------------------------------------------------------------------------------
(* What the comparison of two canonical forms finds.                       *)
FirstLess(s, t) ==
  \E i \in Nat \ {0} : Digit(s, i) < Digit(t, i) /\ \A j \in 1..(i - 1) : Digit(s, j) = Digit(t, j)

Smaller(w, f, v, g) ==
  \E p \in Int : /\ Shown(w, f, p) < Shown(v, g, p)
                 /\ \A q \in Int : q > p => Shown(w, f, q) = Shown(v, g, q)

LEMMA DigitIs ==
  ASSUME NEW s \in Seq(Digits), NEW i \in Nat \ {0}
  PROVE  Digit(s, i) \in Digits
  <1>1. \A j \in 1..Len(s) : s[j] \in Digits
    BY ElementOfSeq
  <1>2. Len(s) \in Nat
    BY LenProperties
  <1> QED BY <1>1, <1>2 DEF Digit, Digits

LEMMA DigitsCompared ==
  ASSUME NEW s \in Seq(Digits), NEW t \in Seq(Digits)
  PROVE  \/ CompareDigits(s, t) = 0 /\ \A i \in Nat \ {0} : Digit(s, i) = Digit(t, i)
         \/ CompareDigits(s, t) = -1 /\ FirstLess(s, t)
         \/ CompareDigits(s, t) = 1 /\ FirstLess(t, s)
  <1> DEFINE M == Max({Len(s), Len(t)})
             differ == {i \in 1..M : Digit(s, i) # Digit(t, i)}
  <1>1. M \in Nat /\ Len(s) <= M /\ Len(t) <= M
    <2>1. Len(s) \in Nat /\ Len(t) \in Nat
      BY LenProperties
    <2>2. \E x \in {Len(s), Len(t)} : \A y \in {Len(s), Len(t)} : x >= y
      BY <2>1
    <2>3. M \in {Len(s), Len(t)} /\ \A y \in {Len(s), Len(t)} : M >= y
      BY <2>2 DEF Max
    <2> QED BY <2>1, <2>3
  <1> HIDE DEF M
  <1>2. \A i \in Nat \ {0} : i > M => Digit(s, i) = Digit(t, i)
    <2>1. \A i \in Nat : i > M => ~(i <= Len(s)) /\ ~(i <= Len(t))
      <3>1. Len(s) \in Nat /\ Len(t) \in Nat
        BY LenProperties
      <3> QED BY <1>1, <3>1
    <2> QED BY <2>1 DEF Digit
  <1>3. CompareDigits(s, t) = IF differ = {} THEN 0
                              ELSE IF Digit(s, Min(differ)) < Digit(t, Min(differ)) THEN -1 ELSE 1
    BY Zenon DEF CompareDigits, M
  <1>4. CASE differ = {}
    <2>1. ASSUME NEW i \in Nat \ {0} PROVE Digit(s, i) = Digit(t, i)
      <3>1. i > M \/ i \in 1..M
        BY <1>1
      <3> QED BY <1>2, <1>4, <3>1
    <2> QED BY <1>3, <1>4, <2>1
  <1>5. CASE differ # {}
    <2> DEFINE k == Min(differ)
    <2>1. k \in differ /\ \A i \in differ : k <= i
      <3>1. differ \in SUBSET Nat
        BY <1>1
      <3> QED BY <1>5, <3>1, MinHolds
    <2> HIDE DEF k
    <2>2. k \in Nat \ {0} /\ Digit(s, k) # Digit(t, k) /\ k \in 1..M
      BY <1>1, <2>1
    <2>3. ASSUME NEW j \in 1..(k - 1) PROVE Digit(s, j) = Digit(t, j)
      <3>1. j \in 1..M /\ ~(k <= j)
        BY <1>1, <2>2
      <3> QED BY <2>1, <3>1
    <2>4. Digit(s, k) \in Digits /\ Digit(t, k) \in Digits
      BY <2>2, DigitIs
    <2>5. CompareDigits(s, t) = IF Digit(s, k) < Digit(t, k) THEN -1 ELSE 1
      BY <1>3, <1>5 DEF k
    <2>6. CASE Digit(s, k) < Digit(t, k)
      BY <2>2, <2>3, <2>5, <2>6 DEF FirstLess
    <2>7. CASE Digit(t, k) < Digit(s, k)
      <3>1. ~(Digit(s, k) < Digit(t, k))
        BY <2>4, <2>7 DEF Digits
      <3> QED BY <2>2, <2>3, <2>5, <2>7, <3>1 DEF FirstLess
    <2> QED BY <2>2, <2>4, <2>6, <2>7 DEF Digits
  <1> QED BY <1>4, <1>5

LEMMA WholeSmaller ==
  ASSUME NEW w, NEW f, NEW v, NEW g, Normal(w, f), Normal(v, g), Len(w) = Len(v), FirstLess(w, v)
  PROVE  Smaller(w, f, v, g)
  <1>1. Len(w) \in Nat
    BY LenProperties DEF Normal
  <1>2. PICK i \in Nat \ {0} : Digit(w, i) < Digit(v, i) /\ \A j \in 1..(i - 1) : Digit(w, j) = Digit(v, j)
    BY DEF FirstLess
  <1>3. i \in 1..Len(w)
    BY <1>1, <1>2 DEF Digit
  <1>4. /\ Len(w) - i \in Int /\ Len(w) - i >= 0 /\ Len(w) - i < Len(w)
        /\ Len(w) - (Len(w) - i) = i
    BY <1>1, <1>3
  <1>5. Shown(w, f, Len(w) - i) < Shown(v, g, Len(w) - i)
    BY <1>2, <1>3, <1>4 DEF Shown, Digit
  <1>6. ASSUME NEW q \in Int, q > Len(w) - i PROVE Shown(w, f, q) = Shown(v, g, q)
    <2>1. q >= 0
      BY <1>4, <1>6
    <2>2. CASE q < Len(w)
      <3>1. Len(w) - q \in 1..(i - 1) /\ Len(w) - q <= Len(w)
        BY <1>1, <1>6, <2>1, <2>2
      <3>2. Digit(w, Len(w) - q) = Digit(v, Len(w) - q)
        BY <1>2, <3>1
      <3> QED BY <2>1, <2>2, <3>1, <3>2 DEF Shown, Digit
    <2>3. CASE ~(q < Len(w))
      BY <2>1, <2>3 DEF Shown
    <2> QED BY <2>2, <2>3
  <1> QED BY <1>4, <1>5, <1>6 DEF Smaller

LEMMA FractionSmaller ==
  ASSUME NEW w, NEW f, NEW v, NEW g, Normal(w, f), Normal(v, g), w = v, FirstLess(f, g)
  PROVE  Smaller(w, f, v, g)
  <1>1. PICK i \in Nat \ {0} : Digit(f, i) < Digit(g, i) /\ \A j \in 1..(i - 1) : Digit(f, j) = Digit(g, j)
    BY DEF FirstLess
  <1>2. -i \in Int /\ ~(-i >= 0) /\ -(-i) = i
    OBVIOUS
  <1>3. Shown(w, f, -i) < Shown(v, g, -i)
    BY <1>1, <1>2 DEF Shown
  <1>4. ASSUME NEW q \in Int, q > -i PROVE Shown(w, f, q) = Shown(v, g, q)
    <2>1. CASE q >= 0
      BY <2>1 DEF Shown
    <2>2. CASE ~(q >= 0)
      <3>1. -q \in 1..(i - 1)
        BY <1>4, <2>2
      <3> QED BY <1>1, <2>2, <3>1 DEF Shown
    <2> QED BY <2>1, <2>2
  <1> QED BY <1>2, <1>3, <1>4 DEF Smaller

LEMMA ShorterSmaller ==
  ASSUME NEW w, NEW f, NEW v, NEW g, Normal(w, f), Normal(v, g), Len(w) < Len(v)
  PROVE  Smaller(w, f, v, g)
  <1>1. Len(w) \in Nat \ {0} /\ Len(v) \in Nat
    BY LenProperties DEF Normal
  <1> DEFINE p == Len(v) - 1
  <1>2. /\ p \in Int /\ p >= 0 /\ ~(p < Len(w)) /\ p < Len(v) /\ Len(v) - p = 1 /\ Len(v) > 1
        /\ 1 \in 1..Len(v)
    BY <1>1
  <1> HIDE DEF p
  <1>3. v[1] # 0 /\ v[1] \in Digits
    BY <1>2, ElementOfSeq DEF Normal
  <1>4. Shown(w, f, p) = 0 /\ Shown(v, g, p) = v[1]
    BY <1>2 DEF Shown
  <1>5. ASSUME NEW q \in Int, q > p PROVE Shown(w, f, q) = Shown(v, g, q)
    <2>1. q >= 0 /\ ~(q < Len(w)) /\ ~(q < Len(v))
      BY <1>1, <1>5 DEF p
    <2> QED BY <2>1 DEF Shown
  <1>6. Shown(w, f, p) < Shown(v, g, p)
    BY <1>3, <1>4 DEF Digits
  <1> QED BY <1>2, <1>5, <1>6 DEF Smaller

LEMMA MagnitudesCompared ==
  ASSUME NEW w, NEW f, NEW v, NEW g, Normal(w, f), Normal(v, g), NEW n, NEW o
  PROVE  LET c == CompareMagnitudes(Number(n, w, f), Number(o, v, g))
         IN  \/ c = 0 /\ w = v /\ f = g
             \/ c = -1 /\ Smaller(w, f, v, g)
             \/ c = 1 /\ Smaller(v, g, w, f)
  <1> DEFINE c == CompareMagnitudes(Number(n, w, f), Number(o, v, g))
  <1>1. c = IF Len(w) # Len(v) THEN IF Len(w) < Len(v) THEN -1 ELSE 1
            ELSE IF CompareDigits(w, v) # 0 THEN CompareDigits(w, v) ELSE CompareDigits(f, g)
    BY DEF CompareMagnitudes, Number
  <1> HIDE DEF c
  <1>2. /\ Len(w) \in Nat /\ Len(v) \in Nat
        /\ w \in Seq(Digits) /\ v \in Seq(Digits) /\ f \in Seq(Digits) /\ g \in Seq(Digits)
    BY LenProperties DEF Normal
  <1>3. CASE Len(w) < Len(v)
    BY <1>1, <1>2, <1>3, ShorterSmaller DEF c
  <1>4. CASE Len(w) > Len(v)
    BY <1>1, <1>2, <1>4, ShorterSmaller DEF c
  <1>5. CASE Len(w) = Len(v) /\ CompareDigits(w, v) = -1
    <2>1. FirstLess(w, v)
      BY <1>2, <1>5, DigitsCompared
    <2> QED BY <1>1, <1>5, <2>1, WholeSmaller DEF c
  <1>6. CASE Len(w) = Len(v) /\ CompareDigits(w, v) = 1
    <2>1. FirstLess(v, w)
      BY <1>2, <1>6, DigitsCompared
    <2> QED BY <1>1, <1>6, <2>1, WholeSmaller DEF c
  <1>7. CASE Len(w) = Len(v) /\ CompareDigits(w, v) = 0
    <2>1. \A i \in Nat \ {0} : Digit(w, i) = Digit(v, i)
      BY <1>2, <1>7, DigitsCompared
    <2>2. w = v
      <3>1. ASSUME NEW i \in 1..Len(w) PROVE w[i] = v[i]
        <4>1. i \in Nat \ {0} /\ i <= Len(w) /\ i <= Len(v)
          BY <1>2, <1>7
        <4> QED BY <2>1, <4>1 DEF Digit
      <3> QED BY <1>2, <1>7, <3>1, SeqEqual
    <2>3. CASE CompareDigits(f, g) = -1
      <3>1. FirstLess(f, g)
        BY <1>2, <2>3, DigitsCompared
      <3> QED BY <1>1, <1>7, <2>2, <2>3, <3>1, FractionSmaller DEF c
    <2>4. CASE CompareDigits(f, g) = 1
      <3>1. FirstLess(g, f)
        BY <1>2, <2>4, DigitsCompared
      <3> QED BY <1>1, <1>7, <2>2, <2>4, <3>1, FractionSmaller DEF c
    <2>5. CASE CompareDigits(f, g) = 0
      <3>1. \A i \in Nat \ {0} : Digit(f, i) = Digit(g, i)
        BY <1>2, <2>5, DigitsCompared
      <3>2. ASSUME NEW p \in Int PROVE Shown(w, f, p) = Shown(v, g, p)
        <4>1. p >= 0 \/ -p \in Nat \ {0}
          OBVIOUS
        <4> QED BY <2>2, <3>1, <4>1 DEF Shown
      <3>3. f = g
        BY <3>2, SameForm
      <3> QED BY <1>1, <1>7, <2>2, <2>5, <3>3 DEF c
    <2> QED BY <1>2, <2>3, <2>4, <2>5, DigitsCompared
  <1> QED BY <1>2, <1>3, <1>4, <1>5, <1>6, <1>7, DigitsCompared

-------------------------------------------------------------------------------
(* The canonical forms and the values of two lexemes.                      *)
DigitsOf(l) == l.whole \o l.frac
UnitsAt(l)  == Len(l.whole) + l.exp
Magnitude(l, scale) == ValueOf(DigitsOf(l) \o Zeros(l.exp - Len(l.frac) + scale))

(* No digit of the lexeme lies behind the scale.                           *)
Scalable(l, scale) == IsLexeme(l) /\ scale \in Nat /\ l.exp - Len(l.frac) + scale >= 0

LEMMA LexemeIs ==
  ASSUME NEW l, NEW scale, Scalable(l, scale)
  PROVE  /\ l.neg \in BOOLEAN /\ DigitsOf(l) \in Seq(Digits) /\ Len(DigitsOf(l)) \in Nat
         /\ UnitsAt(l) \in Int /\ scale \in Nat
         /\ UnitsAt(l) + scale - Len(DigitsOf(l)) = l.exp - Len(l.frac) + scale
         /\ UnitsAt(l) + scale - Len(DigitsOf(l)) \in Nat
  <1> DEFINE x == Len(l.whole)
             y == Len(l.frac)
             z == l.exp
             n == Len(DigitsOf(l))
             u == UnitsAt(l)
  <1>1. /\ l.neg \in BOOLEAN /\ z \in Int /\ l.whole \in Seq(Digits) /\ l.frac \in Seq(Digits)
        /\ x \in Nat /\ y \in Nat /\ scale \in Nat /\ z - y + scale >= 0
    BY LenProperties DEF Scalable, IsLexeme, Digits
  <1>2. DigitsOf(l) \in Seq(Digits) /\ n = x + y /\ u = x + z
    BY <1>1, ConcatProperties DEF DigitsOf, UnitsAt
  <1> HIDE DEF x, y, z, n, u
  <1>3. n \in Nat /\ u \in Int /\ u + scale - n = z - y + scale /\ u + scale - n \in Nat
    BY ONLY <1>1, <1>2
  <1> QED BY <1>1, <1>2, <1>3 DEF n, u, y, z

LEMMA MagnitudeIs ==
  ASSUME NEW l, NEW scale, Scalable(l, scale), NEW P \in Int, UnitsAt(l) <= P
  PROVE  Magnitude(l, scale) = ValueOf(Row(DigitsOf(l), UnitsAt(l), P, scale))
  <1>1. /\ DigitsOf(l) \in Seq(Digits) /\ UnitsAt(l) \in Int /\ scale \in Int
        /\ Len(DigitsOf(l)) \in Nat
        /\ UnitsAt(l) + scale - Len(DigitsOf(l)) = l.exp - Len(l.frac) + scale
        /\ UnitsAt(l) + scale - Len(DigitsOf(l)) \in Nat
    BY LexemeIs
  <1>2. Len(DigitsOf(l)) <= UnitsAt(l) + scale
    BY <1>1
  <1>3. ValueOf(DigitsOf(l) \o Zeros(UnitsAt(l) + scale - Len(DigitsOf(l))))
          = ValueOf(Row(DigitsOf(l), UnitsAt(l), P, scale))
    BY <1>1, <1>2, RowValue
  <1> QED BY <1>1, <1>3 DEF Magnitude

LEMMA MagnitudeNatural ==
  ASSUME NEW l, NEW scale, Scalable(l, scale)
  PROVE  Magnitude(l, scale) \in Nat
  <1>1. /\ DigitsOf(l) \in Seq(Digits) /\ l.exp - Len(l.frac) + scale \in Nat
    BY LexemeIs
  <1>2. DigitsOf(l) \o Zeros(l.exp - Len(l.frac) + scale) \in Seq(Digits)
    BY <1>1, ZerosAre, ConcatProperties
  <1> QED BY <1>2, ValueIs DEF Magnitude

LEMMA InOrder ==
  ASSUME NEW l, NEW m, NEW scale, Scalable(l, scale), Scalable(m, scale),
         NEW n, NEW w, NEW f, StandsFor(n, w, f, l),
         NEW o, NEW v, NEW g, StandsFor(o, v, g, m)
  PROVE  /\ Smaller(w, f, v, g) => Magnitude(l, scale) < Magnitude(m, scale)
         /\ w = v /\ f = g => Magnitude(l, scale) = Magnitude(m, scale)
  <1> DEFINE P == IF UnitsAt(l) < UnitsAt(m) THEN UnitsAt(m) ELSE UnitsAt(l)
             s == DigitsOf(l)
             t == DigitsOf(m)
             a == UnitsAt(l)
             b == UnitsAt(m)
  <1>1. /\ s \in Seq(Digits) /\ Len(s) \in Nat /\ a \in Int /\ scale \in Int /\ a + scale - Len(s) \in Nat
        /\ t \in Seq(Digits) /\ Len(t) \in Nat /\ b \in Int /\ b + scale - Len(t) \in Nat
    BY LexemeIs
  <1>2. P \in Int /\ a <= P /\ b <= P /\ Len(s) <= a + scale /\ Len(t) <= b + scale
    BY <1>1
  <1>3. /\ \A p \in Int : Shown(w, f, p) = PlaceOf(s, a, p)
        /\ \A p \in Int : Shown(v, g, p) = PlaceOf(t, b, p)
    BY DEF StandsFor, DigitsOf, UnitsAt
  <1> HIDE DEF P
  <1>4. /\ Magnitude(l, scale) = ValueOf(Row(s, a, P, scale))
        /\ Magnitude(m, scale) = ValueOf(Row(t, b, P, scale))
    BY <1>2, MagnitudeIs
  <1> HIDE DEF s, t, a, b
  <1>5. ASSUME Smaller(w, f, v, g) PROVE Magnitude(l, scale) < Magnitude(m, scale)
    <2>1. BelowAt(s, a, t, b)
      BY <1>3, <1>5 DEF Smaller, BelowAt
    <2> QED BY <1>1, <1>2, <1>4, <2>1, RowsInOrder
  <1>6. ASSUME w = v, f = g PROVE Magnitude(l, scale) = Magnitude(m, scale)
    <2>1. Same(s, a, t, b)
      BY <1>3, <1>6 DEF Same
    <2> QED BY <1>1, <1>2, <1>4, <2>1, SameRows
  <1> QED BY <1>5, <1>6

Nil == [neg |-> FALSE, whole |-> <<0>>, frac |-> <<>>, exp |-> 0]

LEMMA NilIs ==
  ASSUME NEW scale \in Nat
  PROVE  /\ Scalable(Nil, scale) /\ StandsFor(FALSE, <<0>>, <<>>, Nil)
         /\ Magnitude(Nil, scale) = 0
  <1>1. /\ <<0>> \in Seq(Digits) /\ <<0>> # <<>> /\ Len(<<0>>) = 1 /\ <<0>>[1] = 0
        /\ <<>> \in Seq(Digits) /\ Len(<<>>) = 0 /\ <<0>> \o <<>> = <<0>>
    BY DEF Digits
  <1>2. Scalable(Nil, scale)
    BY <1>1 DEF Scalable, IsLexeme, Nil, Digits
  <1>3. StandsFor(FALSE, <<0>>, <<>>, Nil)
    <2>1. Normal(<<0>>, <<>>)
      BY <1>1 DEF Normal
    <2>2. ASSUME NEW p \in Int PROVE PlaceOf(<<0>>, 1, p) = 0 /\ Shown(<<0>>, <<>>, p) = 0
      BY <1>1 DEF PlaceOf, Shown, Digit
    <2> QED BY <1>1, <2>1, <2>2 DEF StandsFor, Nil
  <1>4. Magnitude(Nil, scale) = 0
    <2> DEFINE t == <<0>> \o Zeros(scale)
    <2>1. /\ Zeros(scale) \in Seq(Digits) /\ Len(Zeros(scale)) = scale
          /\ \A i \in 1..scale : Zeros(scale)[i] = 0
      BY ZerosAre
    <2>2. /\ t \in Seq(Digits) /\ Len(t) = 1 + scale
          /\ \A i \in 1..(1 + scale) : t[i] = IF i <= 1 THEN 0 ELSE Zeros(scale)[i - 1]
      BY <1>1, <2>1, ConcatProperties
    <2> HIDE DEF t
    <2>3. \A i \in 1..(1 + scale) : t[i] = 0
      BY <2>1, <2>2
    <2>4. /\ 1 + scale \in Nat /\ Len(t) = (1 + scale) + Len(<<>>)
          /\ \A i \in 1..Len(<<>>) : t[(1 + scale) + i] = <<>>[i]
      BY <1>1, <2>2
    <2>5. ValueOf(t) = ValueOf(<<>>)
      BY <1>1, <2>2, <2>3, <2>4, LeadingZeros
    <2>6. ValueOf(<<>>) = 0
      <3>1. PICK R \in [0..Len(<<>>) -> Nat] : Running(R, <<>>) /\ ValueOf(<<>>) = R[Len(<<>>)]
        BY <1>1, RunningExists
      <3> QED BY <1>1, <3>1 DEF Running
    <2>7. DigitsOf(Nil) = <<0>> /\ Nil.exp - Len(Nil.frac) + scale = scale
      BY <1>1 DEF Nil, DigitsOf
    <2> QED BY <2>5, <2>6, <2>7 DEF Magnitude, t
  <1> QED BY <1>2, <1>3, <1>4

(* A canonical form has its sign only if the value is not zero.            *)
LEMMA ScaledIs ==
  ASSUME NEW l, NEW scale, Scalable(l, scale), NEW n, NEW w, NEW f, StandsFor(n, w, f, l)
  PROVE  /\ Scaled(l, scale) = IF n THEN -Magnitude(l, scale) ELSE Magnitude(l, scale)
         /\ n => Magnitude(l, scale) > 0
  <1>1. Magnitude(l, scale) \in Nat /\ scale \in Nat /\ l.neg \in BOOLEAN
    BY MagnitudeNatural, LexemeIs
  <1>2. Scaled(l, scale) = IF l.neg THEN -Magnitude(l, scale) ELSE Magnitude(l, scale)
    BY DEF Scaled, Magnitude, DigitsOf
  <1>3. /\ n \in BOOLEAN /\ Normal(w, f)
        /\ \A p \in Int : Shown(w, f, p) = PlaceOf(DigitsOf(l), UnitsAt(l), p)
        /\ n => l.neg /\ \E p \in Int : PlaceOf(DigitsOf(l), UnitsAt(l), p) # 0
        /\ ~n => ~l.neg \/ \A p \in Int : PlaceOf(DigitsOf(l), UnitsAt(l), p) = 0
    BY DEF StandsFor, DigitsOf, UnitsAt
  <1>4. /\ Scalable(Nil, scale) /\ StandsFor(FALSE, <<0>>, <<>>, Nil) /\ Magnitude(Nil, scale) = 0
        /\ Normal(<<0>>, <<>>) /\ \A p \in Int : Shown(<<0>>, <<>>, p) = 0
    <2>1. Scalable(Nil, scale) /\ StandsFor(FALSE, <<0>>, <<>>, Nil) /\ Magnitude(Nil, scale) = 0
      BY <1>1, NilIs
    <2>2. \A p \in Int : Shown(<<0>>, <<>>, p) = 0
      BY DEF Shown, Digit
    <2> QED BY <2>1, <2>2 DEF StandsFor
  <1>5. CASE n
    <2>1. PICK p \in Int : Shown(w, f, p) # 0
      BY <1>3, <1>5
    <2>2. ~(w = <<0>> /\ f = <<>>)
      BY <1>4, <2>1
    <2>3. ~Smaller(w, f, <<0>>, <<>>)
      <3>1. ASSUME NEW q \in Int PROVE ~(Shown(w, f, q) < 0)
        <4>1. DigitsOf(l) \in Seq(Digits)
          BY LexemeIs
        <4>2. PlaceOf(DigitsOf(l), UnitsAt(l), q) \in Digits
          BY <4>1, PlaceIs
        <4> QED BY <1>3, <4>2 DEF Digits
      <3> QED BY <1>4, <3>1 DEF Smaller
    <2>4. Smaller(<<0>>, <<>>, w, f)
      BY <1>3, <1>4, <2>2, <2>3, MagnitudesCompared
    <2>5. Magnitude(Nil, scale) < Magnitude(l, scale)
      BY <1>4, <2>4, InOrder, Zenon
    <2> QED BY <1>1, <1>2, <1>3, <1>4, <1>5, <2>5
  <1>6. CASE ~n
    <2>1. CASE ~l.neg
      BY <1>2, <1>6, <2>1
    <2>2. CASE \A p \in Int : PlaceOf(DigitsOf(l), UnitsAt(l), p) = 0
      <3>1. w = <<0>> /\ f = <<>>
        BY <1>3, <1>4, <2>2, SameForm
      <3>2. Magnitude(l, scale) = Magnitude(Nil, scale)
        BY <1>4, <3>1, InOrder, ZenonT(60)
      <3>3. Magnitude(l, scale) = 0
        BY <1>4, <3>2
      <3>4. Scaled(l, scale) = 0
        <4> DEFINE X == Magnitude(l, scale)
        <4>0. X \in Int /\ X = 0
          BY <1>1, <3>3
        <4> HIDE DEF X
        <4>1. X = 0 /\ -X = 0
          <5>1. \A i \in Int : -i = 0 - i
            OBVIOUS
          <5>2. -X = 0 - X
            BY ONLY <4>0, <5>1, Zenon
          <5>3. 0 - X = 0
            BY ONLY <4>0
          <5> QED BY ONLY <4>0, <5>2, <5>3, Zenon
        <4>2. Scaled(l, scale) = IF l.neg THEN -X ELSE X
          BY <1>2 DEF X
        <4> QED BY ONLY <4>1, <4>2, Zenon
      <3> QED BY <1>6, <3>3, <3>4
    <2> QED BY <1>3, <1>6, <2>1, <2>2
  <1> QED BY <1>3, <1>5, <1>6

(* Canonical forms are equal and ordered as the values are.                *)
LEMMA FormsAndValues ==
  ASSUME NEW l, NEW m, NEW scale, Scalable(l, scale), Scalable(m, scale),
         NEW a, NEW b, a = Canonical(l), b = Canonical(m), a # Refused, b # Refused
  PROVE  LET x == Scaled(l, scale)
             y == Scaled(m, scale)
         IN /\ a = b <=> x = y
            /\ Compare(a, b) = (IF x < y THEN -1 ELSE IF x = y THEN 0 ELSE 1)
  <1>1. PICK n, w, f : a = Number(n, w, f) /\ StandsFor(n, w, f, l)
    BY CanonicalIs DEF Scalable
  <1>2. PICK o, v, g : b = Number(o, v, g) /\ StandsFor(o, v, g, m)
    BY CanonicalIs DEF Scalable
  <1> DEFINE x == Scaled(l, scale)
             y == Scaled(m, scale)
             X == Magnitude(l, scale)
             Y == Magnitude(m, scale)
             c == CompareMagnitudes(a, b)
  <1>3. X \in Nat /\ Y \in Nat /\ n \in BOOLEAN /\ o \in BOOLEAN
    BY <1>1, <1>2, MagnitudeNatural DEF StandsFor
  <1>4. /\ x = (IF n THEN -X ELSE X) /\ (n => X > 0)
        /\ y = (IF o THEN -Y ELSE Y) /\ (o => Y > 0)
    BY <1>1, <1>2, ScaledIs
  <1>5. \/ c = 0 /\ w = v /\ f = g
        \/ c = -1 /\ Smaller(w, f, v, g)
        \/ c = 1 /\ Smaller(v, g, w, f)
    BY <1>1, <1>2, MagnitudesCompared DEF StandsFor
  <1>6. \/ c = 0 /\ w = v /\ f = g /\ X = Y
        \/ c = -1 /\ X < Y
        \/ c = 1 /\ Y < X
    BY <1>1, <1>2, <1>5, InOrder
  <1>7. Compare(a, b) = IF n # o THEN IF n THEN -1 ELSE 1 ELSE IF n THEN -c ELSE c
    BY <1>1, <1>2 DEF Compare, Number
  <1>8. a = b <=> n = o /\ w = v /\ f = g
    BY <1>1, <1>2 DEF Number
  <1>9. w = v /\ f = g => X = Y
    BY <1>1, <1>2, InOrder
  <1> HIDE DEF x, y, X, Y, c
  <1>10. a = b <=> x = y
    BY <1>3, <1>4, <1>6, <1>8, <1>9
  <1>11. Compare(a, b) = (IF x < y THEN -1 ELSE IF x = y THEN 0 ELSE 1)
    BY <1>3, <1>4, <1>6, <1>7
  <1> QED BY <1>10, <1>11 DEF x, y

(* A canonical form is its own canonical form, if it is not too long.      *)
LEMMA FormsParseBack ==
  ASSUME NEW l, IsLexeme(l), NEW a, a = Canonical(l), a # Refused
  PROVE  Canonical([neg |-> a.neg, whole |-> a.whole, frac |-> a.frac, exp |-> 0])
           \in {a} \cup (IF Len(a.whole \o a.frac) > MaxDigits THEN {Refused} ELSE {})
  <1>1. PICK n, w, f : a = Number(n, w, f) /\ StandsFor(n, w, f, l)
    BY CanonicalIs
  <1> DEFINE b == [neg |-> n, whole |-> w, frac |-> f, exp |-> 0]
             d == w \o f
  <1>2. [neg |-> a.neg, whole |-> a.whole, frac |-> a.frac, exp |-> 0] = b /\ a.whole \o a.frac = d
    BY <1>1 DEF Number
  <1>3. /\ n \in BOOLEAN /\ w \in Seq(Digits) /\ f \in Seq(Digits) /\ Normal(w, f)
        /\ Len(w) \in Nat \ {0} /\ Len(f) \in Nat
    BY <1>1, LenProperties DEF StandsFor, Normal
  <1>4. d \in Seq(Digits) /\ Len(d) = Len(w) + Len(f)
    BY <1>3, ConcatProperties
  <1>5. IsLexeme(b)
    BY <1>3, EmptySeq DEF IsLexeme, Digits
  <1>6. b.neg = n /\ b.whole = w /\ b.frac = f /\ b.exp = 0
    OBVIOUS
  <1> HIDE DEF b
  <1>7. CASE Len(d) > MaxDigits
    <2>1. Canonical(b) = Refused
      BY <1>6, <1>7, Zenon DEF Canonical
    <2> QED BY <1>2, <1>7, <2>1
  <1>8. CASE ~(Len(d) > MaxDigits)
    <2> DEFINE m == Max({1} \cup Nonzero(d))
               e == 0 - Len(f) + (Len(d) - Len(Stripped(d)))
    <2>1. Len(Stripped(d)) \in 1..Len(d)
      <3>1. Len(d) \in Nat \ {0}
        BY <1>3, <1>4
      <3>2. {1} \cup Nonzero(d) \in SUBSET (1..Len(d)) /\ {1} \cup Nonzero(d) # {}
        BY <3>1 DEF Nonzero
      <3>3. m \in 1..Len(d)
        BY <3>1, <3>2, MaxHolds
      <3> HIDE DEF m, d
      <3>4. \A i \in 1..Len(d) : d[i] \in Digits
        BY <1>4, ElementOfSeq
      <3>5. 1 \in Int /\ m \in Int /\ 1 <= m /\ (m - 1) + 1 = m /\ \A i \in 1..m : d[i] \in Digits
        BY <3>1, <3>3, <3>4
      <3>6. Len(SubSeq(d, 1, m)) = m
        BY <3>5, SubSeqProperties
      <3> QED BY <3>3, <3>6 DEF Stripped, m
    <2>2. e \in -MaxEffective..MaxEffective /\ 0 \in -MaxWritten..MaxWritten
      <3> HIDE DEF d
      <3>1. Len(d) <= MaxDigits
        BY <1>3, <1>4, <1>8, LimitsAssumption
      <3> QED BY <1>3, <1>4, <2>1, <3>1, LimitsAssumption
    <2>3. Canonical(b) # Refused
      <3>1. \A k, c, i : Placed(k, c, i) # Refused /\ Number(k, c, i) # Refused
        BY DEF Placed, Number, Refused
      <3>2. ~(Len(d) > MaxDigits \/ b.exp \notin -MaxWritten..MaxWritten
              \/ e \notin -MaxEffective..MaxEffective)
        BY <1>6, <1>8, <2>2
      <3> QED BY <1>6, <3>1, <3>2 DEF Canonical
    <2>4. PICK o, v, g : Canonical(b) = Number(o, v, g) /\ StandsFor(o, v, g, b)
      BY <1>5, <2>3, CanonicalIs
    <2>5. \A p \in Int : PlaceOf(d, Len(w) + 0, p) = Shown(w, f, p)
      <3>1. Len(w) + 0 = Len(w)
        BY <1>3
      <3> QED BY <1>3, <3>1, ShownPlace
    <2>6. /\ Normal(v, g) /\ o \in BOOLEAN
          /\ \A p \in Int : Shown(v, g, p) = Shown(w, f, p)
          /\ IF o THEN n /\ \E p \in Int : Shown(w, f, p) # 0
             ELSE ~n \/ \A p \in Int : Shown(w, f, p) = 0
      BY <1>6, <2>4, <2>5 DEF StandsFor
    <2>7. v = w /\ g = f
      BY <1>3, <2>6, SameForm
    <2>8. n => \E p \in Int : Shown(w, f, p) # 0
      BY <1>1 DEF StandsFor
    <2>9. o = n
      BY <1>3, <2>6, <2>8
    <2> QED BY <1>1, <1>2, <2>4, <2>7, <2>9
  <1> QED BY <1>7, <1>8

-------------------------------------------------------------------------------
(* What text says is what was meant, in every behaviour.                   *)

(* A document whose names hold no dots and do not look like indices is got *)
(* back from its flattened form, in whatever order the paths come and      *)
(* however the arrays are padded on the way (JsonPath.cpp flatten,         *)
(* unflatten, set).                                                        *)
THEOREM DocumentsComeBack ==
  ASSUME NEW doc, IsDocument(doc), Regular(doc)
  PROVE  \E back \in {Unflatten(Flatten(doc))} : back.ok /\ back.doc = doc
  BY RoundTrip

(* Canonical numbers are equal when the values of their lexemes are,       *)
(* compare as these do, and parse back to themselves, for digits and       *)
(* exponents of any length (Json.cpp canonical_number, compare_number).    *)
LEMMA NumbersNow == scenario \in Scenarios => NumbersExact
  <1> SUFFICES ASSUME scenario \in Scenarios, NEW l \in scenario.numbers, NEW m \in scenario.numbers
               PROVE  \E a \in {Canonical(l)}, b \in {Canonical(m)} :
                        a # Refused /\ b # Refused =>
                          LET x == Scaled(l, Scale)
                              y == Scaled(m, Scale)
                          IN /\ a = b <=> x = y
                             /\ Compare(a, b) = (IF x < y THEN -1 ELSE IF x = y THEN 0 ELSE 1)
                             /\ Canonical([neg |-> a.neg, whole |-> a.whole, frac |-> a.frac, exp |-> 0])
                                  \in {a} \cup (IF Len(a.whole \o a.frac) > MaxDigits THEN {Refused} ELSE {})
    BY DEF NumbersExact
  <1> DEFINE a == Canonical(l)
             b == Canonical(m)
  <1> WITNESS a \in {Canonical(l)}, b \in {Canonical(m)}
  <1> HAVE a # Refused /\ b # Refused
  <1>1. Scalable(l, Scale) /\ Scalable(m, Scale)
    BY NumbersAssumption DEF Scalable
  <1>2. LET x == Scaled(l, Scale)
            y == Scaled(m, Scale)
        IN /\ a = b <=> x = y
           /\ Compare(a, b) = (IF x < y THEN -1 ELSE IF x = y THEN 0 ELSE 1)
    BY <1>1, FormsAndValues
  <1>3. Canonical([neg |-> a.neg, whole |-> a.whole, frac |-> a.frac, exp |-> 0])
          \in {a} \cup (IF Len(a.whole \o a.frac) > MaxDigits THEN {Refused} ELSE {})
    BY <1>1, FormsParseBack DEF Scalable
  <1> QED BY <1>2, <1>3

LEMMA PathsNow == scenario \in Scenarios => PathsRoundTrip
  <1> SUFFICES ASSUME scenario \in Scenarios, pc = scenario.at,
                      NEW doc \in {scenario.document} \cup Range(scenario.desired), Regular(doc)
               PROVE  \E back \in {Unflatten(Flatten(doc))} : back.ok /\ back.doc = doc
    BY DEF PathsRoundTrip
  <1>1. IsDocument(doc)
    <2>1. CASE doc = scenario.document
      BY <2>1, DocumentsAssumption
    <2>2. CASE doc \in Range(scenario.desired)
      <3>1. PICK c \in DOMAIN scenario.desired : doc = scenario.desired[c]
        BY <2>2 DEF Range
      <3>2. DOMAIN scenario.desired = Clients
        BY PlacesAssumption
      <3> QED BY <3>1, <3>2, DocumentsAssumption
    <2> QED BY <2>1, <2>2
  <1> QED BY <1>1, DocumentsComeBack

(* Paths name places and canonical numbers are values in every behaviour   *)
(* (JsonPath.cpp, Json.cpp).                                               *)
THEOREM TextStaysFaithful == Spec => []TextFaithful
  <1>1. RepairInv => PathsRoundTrip /\ NumbersExact
    BY PathsNow, NumbersNow DEF RepairInv
  <1> QED BY <1>1, AlwaysRepairInv, PTL DEF TextFaithful
===============================================================================
