------------------------------ MODULE SharedLemmas ------------------------------
(***************************************************************************)
(* Facts about natural numbers, finite sets, sequences, prefixes and folds *)
(* that the proofs of several components use.  The induction theorems of   *)
(* the library take an operator as their parameter, which the provers      *)
(* cannot supply; here induction is a statement about a set, and a fold a  *)
(* statement about a function, so that they can be cited.                  *)
(***************************************************************************)
EXTENDS Integers, Sequences, FiniteSets, SequencesExt, FiniteSetsExt,
        SequenceTheorems, FiniteSetTheorems, WellFoundedInduction, TLAPS

(* A set of naturals that is not empty has a least element: the smallest   *)
(* of the intervals 0..n.                                                  *)
LEMMA LeastNatural ==
  ASSUME NEW T \in SUBSET Nat, T # {}
  PROVE  \E m \in T : \A n \in T : m <= n
  <1> DEFINE Below == {0..n : n \in T}
  <1>1. \A n \in Nat : IsFiniteSet(0..n) /\ 0..n \subseteq Nat
    BY FS_Interval
  <1>2. Below \subseteq FiniteSubsetsOf(Nat) /\ Below # {}
    BY <1>1 DEF FiniteSubsetsOf
  <1>3. PICK U \in Below : \A V \in Below : <<V, U>> \notin StrictSubsetOrdering(Nat)
    <2> HIDE DEF Below
    <2> QED BY <1>2, FS_StrictSubsetOrderingWellFounded, WFMin
  <1>4. PICK m \in T : U = 0..m
    BY DEF Below
  <1>5. ASSUME NEW n \in T, n < m PROVE FALSE
    <2>1. 0..n \subseteq 0..m /\ 0..n # 0..m /\ 0..n \in Below
      <3>1. m \in 0..m /\ m \notin 0..n
        BY <1>5
      <3> QED BY <3>1, <1>5
    <2>2. <<0..n, U>> \in StrictSubsetOrdering(Nat)
      BY <2>1, <1>1, <1>4 DEF StrictSubsetOrdering
    <2> QED BY <2>1, <2>2, <1>3
  <1> QED BY <1>5

(* Induction over the natural numbers, for a set instead of a predicate.   *)
LEMMA SetInduction ==
  ASSUME NEW T, 0 \in T, \A n \in Nat : n \in T => n + 1 \in T
  PROVE  Nat \subseteq T
  <1> SUFFICES ASSUME Nat \ T # {} PROVE FALSE
    OBVIOUS
  <1>1. PICK m \in Nat \ T : \A n \in Nat \ T : m <= n
    BY LeastNatural
  <1>2. m - 1 \in Nat /\ m - 1 \in T
    BY <1>1
  <1> QED BY <1>1, <1>2

(* The last k before the numbers up to n leave a set that holds 0.         *)
LEMMA LastInside ==
  ASSUME NEW n \in Nat, NEW T, 0 \in T
  PROVE  \E k \in 0..n : k \in T /\ (k < n => k + 1 \notin T)
  <1>1. CASE 0..n \subseteq T
    BY <1>1
  <1>2. CASE ~(0..n \subseteq T)
    <2>1. PICK m \in (0..n) \ T : \A j \in (0..n) \ T : m <= j
      <3>1. (0..n) \ T \in SUBSET Nat /\ (0..n) \ T # {}
        BY <1>2
      <3> QED BY <3>1, LeastNatural
    <2>2. m - 1 \in 0..n /\ m - 1 \in T /\ (m - 1) + 1 \notin T
      BY <2>1
    <2> QED BY <2>2
  <1> QED BY <1>1, <1>2

(* A finite family of natural numbers has a maximum.                       *)
LEMMA FamilyMaximum ==
  ASSUME NEW n \in Nat, n # 0, NEW f \in [1..n -> Nat]
  PROVE  \E i \in 1..n : \A j \in 1..n : f[j] <= f[i]
  <1> DEFINE HasMax(m, g) == \E i \in 1..m : \A j \in 1..m : g[j] <= g[i]
             T == {m \in Nat : m # 0 => \A g \in [1..m -> Nat] : HasMax(m, g)}
  <1>1. ASSUME NEW m \in Nat, m \in T, m # 0, NEW g \in [1..(m + 1) -> Nat]
        PROVE  HasMax(m + 1, g)
    <2> DEFINE h == [i \in 1..m |-> g[i]]
    <2>1. PICK i \in 1..m : \A j \in 1..m : h[j] <= h[i]
      <3>1. h \in [1..m -> Nat]
        OBVIOUS
      <3> QED BY <1>1, <3>1
    <2>2. \A j \in 1..m : g[j] <= g[i]
      BY <2>1
    <2>3. /\ \A j \in 1..(m + 1) : (j \in 1..m \/ j = m + 1) /\ g[j] \in Nat
          /\ i \in 1..(m + 1) /\ m + 1 \in 1..(m + 1)
      BY <1>1
    <2>4. CASE g[m + 1] <= g[i]
      BY <2>2, <2>3, <2>4
    <2>5. CASE ~(g[m + 1] <= g[i])
      <3>1. g[i] < g[m + 1]
        BY <2>3, <2>5
      <3>2. ASSUME NEW j \in 1..(m + 1) PROVE g[j] <= g[m + 1]
        BY <2>2, <2>3, <3>1
      <3> QED BY <2>3, <3>2
    <2> QED BY <2>4, <2>5
  <1>2. ASSUME NEW g \in [1..1 -> Nat]
        PROVE  HasMax(1, g)
    OBVIOUS
  <1>3. 0 \in T
    OBVIOUS
  <1>4. ASSUME NEW m \in Nat, m \in T
        PROVE  m + 1 \in T
    <2> HIDE DEF HasMax
    <2> SUFFICES ASSUME NEW g \in [1..(m + 1) -> Nat] PROVE HasMax(m + 1, g)
      OBVIOUS
    <2>1. CASE m = 0
      BY <1>2, <2>1
    <2>2. CASE m # 0
      BY <1>1, <1>4, <2>2
    <2> QED BY <2>1, <2>2
  <1>5. n \in T
    <2> HIDE DEF T
    <2> QED BY <1>3, <1>4, SetInduction
  <1> QED BY <1>5

(* The range of a finite family is finite.                                 *)
LEMMA FamilyFinite ==
  ASSUME NEW n \in Nat, NEW T, NEW f \in [1..n -> T]
  PROVE  /\ IsFiniteSet({f[i] : i \in 1..n})
         /\ Cardinality({f[i] : i \in 1..n}) <= n
  <1> DEFINE R == {f[i] : i \in 1..n}
  <1>1. f \in Surjection(1..n, R)
    BY DEF Surjection
  <1>2. IsFiniteSet(1..n) /\ Cardinality(1..n) = n
    BY FS_Interval
  <1> HIDE DEF R
  <1>3. IsFiniteSet(R) /\ Cardinality(R) <= n
    BY <1>1, <1>2, FS_Surjection
  <1> QED BY <1>3 DEF R

(* So are the image of a finite set, ...                                   *)
LEMMA ImageFinite ==
  ASSUME NEW S, IsFiniteSet(S), NEW f, DOMAIN f = S
  PROVE  IsFiniteSet({f[x] : x \in S})
  <1> DEFINE R == {f[x] : x \in S}
             g == [x \in S |-> f[x]]
  <1>1. g \in Surjection(S, R)
    BY DEF Surjection
  <1> HIDE DEF R, g
  <1>2. IsFiniteSet(R)
    BY <1>1, FS_Surjection
  <1> QED BY <1>2 DEF R

(* ... the union of finitely many finite sets, ...                         *)
LEMMA UnionFinite ==
  ASSUME NEW S, IsFiniteSet(S), NEW f, DOMAIN f = S, \A x \in S : IsFiniteSet(f[x])
  PROVE  IsFiniteSet(UNION {f[x] : x \in S})
  <1> DEFINE R == {f[x] : x \in S}
  <1>1. IsFiniteSet(R) /\ \A T \in R : IsFiniteSet(T)
    BY ImageFinite
  <1> HIDE DEF R
  <1>2. IsFiniteSet(UNION R)
    BY <1>1, FS_UNION
  <1> QED BY <1>2 DEF R

(* ... and a set of few elements.                                          *)
LEMMA FewFinite ==
  ASSUME NEW a, NEW b, NEW c, NEW d, NEW e, NEW f
  PROVE  IsFiniteSet({a, b, c, d, e, f})
  <1>1. IsFiniteSet({a} \cup {b}) /\ IsFiniteSet({c} \cup {d}) /\ IsFiniteSet({e} \cup {f})
    BY FS_Singleton, FS_Union
  <1>2. IsFiniteSet(({a} \cup {b}) \cup (({c} \cup {d}) \cup ({e} \cup {f})))
    <2> DEFINE ab == {a} \cup {b}
               cd == {c} \cup {d}
               ef == {e} \cup {f}
    <2> HIDE DEF ab, cd, ef
    <2>1. IsFiniteSet(ab) /\ IsFiniteSet(cd) /\ IsFiniteSet(ef)
      BY <1>1 DEF ab, cd, ef
    <2>2. IsFiniteSet(cd \cup ef)
      BY <2>1, FS_Union
    <2>3. IsFiniteSet(ab \cup (cd \cup ef))
      BY <2>1, <2>2, FS_Union
    <2> QED BY <2>3 DEF ab, cd, ef
  <1>3. ({a} \cup {b}) \cup (({c} \cup {d}) \cup ({e} \cup {f})) = {a, b, c, d, e, f}
    OBVIOUS
  <1> QED BY <1>2, <1>3

-------------------------------------------------------------------------------
(* Prefixes of sequences.                                                  *)

LEMMA PrefixByElements ==
  ASSUME NEW S, NEW s \in Seq(S), NEW t \in Seq(S)
  PROVE  IsPrefix(s, t) <=>
           Len(s) <= Len(t) /\ \A i \in 1..Len(s) : s[i] = t[i]
  <1>1. Len(s) \in Nat /\ Len(t) \in Nat
    BY LenProperties
  <1>2. SubSeq(s, 1, Len(s)) = s
    BY SubSeqFull
  <1>3. ASSUME Len(s) <= Len(t)
        PROVE  /\ SubSeq(t, 1, Len(s)) \in Seq(S)
               /\ Len(SubSeq(t, 1, Len(s))) = Len(s)
               /\ \A i \in 1..Len(s) : SubSeq(t, 1, Len(s))[i] = t[i]
    <2>1. \A i \in 1..Len(s) : t[i] \in S
      BY <1>1, <1>3, ElementOfSeq
    <2> QED BY <1>1, <1>3, <2>1, SubSeqProperties
  <1>4. ASSUME Len(s) <= Len(t), \A i \in 1..Len(s) : s[i] = t[i]
        PROVE  s = SubSeq(t, 1, Len(s))
    BY <1>3, <1>4, SeqEqual
  <1> QED BY <1>2, <1>3, <1>4 DEF IsPrefix

LEMMA PrefixSelf ==
  ASSUME NEW S, NEW s \in Seq(S)
  PROVE  IsPrefix(s, s) /\ IsPrefix(<<>>, s)
  <1>1. Len(s) \in Nat /\ Len(<<>>) = 0 /\ SubSeq(s, 1, 0) = <<>>
    BY LenProperties, EmptySeq, SubSeqEmpty
  <1>2. IsPrefix(s, s)
    BY <1>1, PrefixByElements
  <1>3. IsPrefix(<<>>, s)
    BY <1>1 DEF IsPrefix
  <1> QED BY <1>2, <1>3

LEMMA PrefixTransitive ==
  ASSUME NEW S, NEW s \in Seq(S), NEW t \in Seq(S), NEW u \in Seq(S),
         IsPrefix(s, t), IsPrefix(t, u)
  PROVE  IsPrefix(s, u)
  BY PrefixByElements, LenProperties

LEMMA PrefixOfAppend ==
  ASSUME NEW S, NEW s \in Seq(S), NEW t \in Seq(S), NEW e \in S, IsPrefix(s, t)
  PROVE  IsPrefix(s, Append(t, e))
  <1>1. Len(s) \in Nat /\ Len(t) \in Nat
    BY LenProperties
  <1>2. Len(s) <= Len(t) /\ \A i \in 1..Len(s) : s[i] = t[i]
    BY PrefixByElements
  <1>3. /\ Append(t, e) \in Seq(S) /\ Len(Append(t, e)) = Len(t) + 1
        /\ \A i \in 1..Len(t) : Append(t, e)[i] = t[i]
    BY AppendProperties
  <1>4. \A i \in 1..Len(s) : i \in 1..Len(t)
    BY <1>1, <1>2
  <1>5. Len(s) <= Len(Append(t, e))
    BY <1>1, <1>2, <1>3
  <1>6. \A i \in 1..Len(s) : s[i] = Append(t, e)[i]
    BY <1>2, <1>3, <1>4
  <1> QED BY <1>3, <1>5, <1>6, PrefixByElements

(* Of two comparable sequences the longer one extends the other.           *)
LEMMA PrefixOfLonger ==
  ASSUME NEW S, NEW s \in Seq(S), NEW t \in Seq(S),
         IsPrefix(s, t) \/ IsPrefix(t, s), Len(s) <= Len(t)
  PROVE  IsPrefix(s, t)
  BY PrefixByElements, LenProperties

(* Two prefixes of one sequence are comparable.                            *)
LEMMA PrefixesComparable ==
  ASSUME NEW S, NEW s \in Seq(S), NEW t \in Seq(S), NEW u \in Seq(S),
         IsPrefix(s, u), IsPrefix(t, u)
  PROVE  IsPrefix(s, t) \/ IsPrefix(t, s)
  BY PrefixByElements, LenProperties

(* What occurs in a sequence occurs in every longer one.                   *)
LEMMA RangeOfPrefix ==
  ASSUME NEW S, NEW s \in Seq(S), NEW t \in Seq(S), IsPrefix(s, t)
  PROVE  Range(s) \subseteq Range(t)
  <1>1. /\ Len(s) \in Nat /\ Len(t) \in Nat
        /\ DOMAIN s = 1..Len(s) /\ DOMAIN t = 1..Len(t)
    BY LenProperties
  <1>2. Len(s) <= Len(t) /\ \A i \in 1..Len(s) : s[i] = t[i]
    BY PrefixByElements
  <1> QED BY <1>1, <1>2 DEF Range

(* What occurs in a sequence that grew by one element.                     *)
LEMMA RangeOfAppend ==
  ASSUME NEW S, NEW s \in Seq(S), NEW e \in S
  PROVE  Range(Append(s, e)) = Range(s) \cup {e}
  <1>1. /\ Len(s) \in Nat /\ DOMAIN s = 1..Len(s)
        /\ DOMAIN Append(s, e) = 1..(Len(s) + 1)
        /\ \A i \in 1..Len(s) : Append(s, e)[i] = s[i]
        /\ Append(s, e)[Len(s) + 1] = e
    BY LenProperties, AppendProperties
  <1> HIDE DEF Range
  <1>2. \A i \in 1..(Len(s) + 1) : i \in 1..Len(s) \/ i = Len(s) + 1
    BY <1>1
  <1>3. 1..Len(s) \subseteq 1..(Len(s) + 1) /\ Len(s) + 1 \in 1..(Len(s) + 1)
    BY <1>1
  <1> QED BY <1>1, <1>2, <1>3 DEF Range

-------------------------------------------------------------------------------
(* Folds over sequences.  FoldLeft is the value at 1..n of a function that *)
(* is chosen by its recursion over the subsets of 1..n; it exists, and its *)
(* values at 1..0, 1..1, ..., 1..n are the intermediate results.           *)

LEMMA MaxOfInterval ==
  ASSUME NEW n \in Nat, NEW s \in SUBSET (1..n), n \in s
  PROVE  Max(s) = n
  <1>1. \A y \in s : n >= y
    OBVIOUS
  <1>2. ASSUME NEW x \in s, \A y \in s : x >= y PROVE x = n
    BY <1>1, <1>2
  <1> QED BY <1>1, <1>2 DEF Max

LEMMA MaxInside ==
  ASSUME NEW n \in Nat, NEW s \in SUBSET (1..n), s # {}
  PROVE  Max(s) \in s
  <1> DEFINE T == {m \in Nat : \A t \in SUBSET (1..m) : t # {} => Max(t) \in t}
  <1>1. 0 \in T
    <2>1. SUBSET (1..0) = {{}}
      OBVIOUS
    <2> QED BY <2>1
  <1>2. ASSUME NEW m \in Nat, m \in T
        PROVE  m + 1 \in T
    <2> SUFFICES ASSUME NEW t \in SUBSET (1..(m + 1)), t # {} PROVE Max(t) \in t
      OBVIOUS
    <2>1. CASE m + 1 \in t
      BY <2>1, MaxOfInterval
    <2>2. CASE m + 1 \notin t
      <3>1. t \in SUBSET (1..m)
        BY <2>2
      <3> QED BY <1>2, <3>1
    <2> QED BY <2>1, <2>2
  <1>3. n \in T
    <2> HIDE DEF T
    <2> QED BY <1>1, <1>2, SetInduction
  <1> QED BY <1>3

(* What a fold does at 1..m.                                               *)
LEMMA IntervalStep ==
  ASSUME NEW m \in Nat \ {0}
  PROVE  1..m # {} /\ Max(1..m) = m /\ (1..m) \ {m} = 1..(m - 1)
  <1>1. m \in 1..m
    OBVIOUS
  <1>2. Max(1..m) = m
    BY <1>1, MaxOfInterval
  <1> QED BY <1>1, <1>2

(* The recursion of a fold, with the operation as a function of the result *)
(* so far and the position.                                                *)
IsFold(g, base, n, F) ==
  \A s \in SUBSET (1..n) :
    g[s] = IF s = {} THEN base ELSE F[<<g[s \ {Max(s)}], Max(s)>>]

LEMMA FoldExists ==
  ASSUME NEW V, NEW base \in V, NEW n \in Nat, NEW F \in [V \X (1..n) -> V]
  PROVE  \E g \in [SUBSET (1..n) -> V] : IsFold(g, base, n, F)
  <1> DEFINE Folds(m, g) ==
        \A s \in SUBSET (1..m) :
          g[s] = IF s = {} THEN base ELSE F[<<g[s \ {Max(s)}], Max(s)>>]
             Folded(m) == \E g \in [SUBSET (1..m) -> V] : Folds(m, g)
             T == {m \in Nat : m <= n => Folded(m)}
  <1>1. 0 \in T
    <2>1. SUBSET (1..0) = {{}}
      OBVIOUS
    <2> DEFINE h == [s \in {{}} |-> base]
    <2>2. h \in [{{}} -> V] /\ h[{}] = base
      OBVIOUS
    <2> HIDE DEF h
    <2>3. h \in [SUBSET (1..0) -> V] /\ Folds(0, h)
      BY <2>1, <2>2
    <2> HIDE DEF Folds
    <2> QED BY <2>3
  <1>2. ASSUME NEW m \in Nat, m \in T
        PROVE  m + 1 \in T
    <2> HIDE DEF Folded
    <2> SUFFICES ASSUME m + 1 <= n PROVE Folded(m + 1)
      OBVIOUS
    <2>0. Folded(m)
      BY <1>2
    <2>1. PICK g \in [SUBSET (1..m) -> V] : Folds(m, g)
      BY <2>0 DEF Folded
    <2> DEFINE h == [s \in SUBSET (1..(m + 1)) |->
                       IF m + 1 \in s THEN F[<<g[s \ {m + 1}], m + 1>>] ELSE g[s]]
    <2>2. ASSUME NEW s \in SUBSET (1..(m + 1)), m + 1 \in s
          PROVE  h[s] \in V /\ h[s] = F[<<h[s \ {Max(s)}], Max(s)>>]
      <3>1. Max(s) = m + 1
        BY <2>2, MaxOfInterval
      <3>2. s \ {m + 1} \in SUBSET (1..m) /\ m + 1 \notin s \ {m + 1}
            /\ s \ {m + 1} \in SUBSET (1..(m + 1))
        BY <2>2
      <3>3. h[s \ {m + 1}] = g[s \ {m + 1}] /\ g[s \ {m + 1}] \in V
        BY <3>2
      <3>4. h[s] = F[<<g[s \ {m + 1}], m + 1>>]
        BY <2>2
      <3> HIDE DEF h
      <3>5. m + 1 \in 1..n
        OBVIOUS
      <3> QED BY <3>1, <3>3, <3>4, <3>5
    <2>3. ASSUME NEW s \in SUBSET (1..(m + 1)), m + 1 \notin s
          PROVE  /\ h[s] \in V
                 /\ h[s] = IF s = {} THEN base ELSE F[<<h[s \ {Max(s)}], Max(s)>>]
      <3>1. s \in SUBSET (1..m) /\ s \ {Max(s)} \in SUBSET (1..m)
        <4>1. \A i \in s : i \in 1..m
          BY <2>3
        <4> QED BY <4>1
      <3>2. h[s] = g[s] /\ h[s \ {Max(s)}] = g[s \ {Max(s)}]
        <4>1. \A u \in SUBSET (1..m) : u \in SUBSET (1..(m + 1)) /\ m + 1 \notin u
          OBVIOUS
        <4>2. \A u \in SUBSET (1..m) : h[u] = g[u]
          BY <4>1
        <4> QED BY <3>1, <4>2
      <3> HIDE DEF h
      <3> QED BY <2>1, <3>1, <3>2
    <2>4. h \in [SUBSET (1..(m + 1)) -> V]
      BY <2>2, <2>3
    <2>5. Folds(m + 1, h)
      <3> HIDE DEF h
      <3> QED BY <2>2, <2>3
    <2> HIDE DEF h, Folds
    <2> QED BY <2>4, <2>5 DEF Folded
  <1>3. n \in T
    <2> HIDE DEF T
    <2> QED BY <1>1, <1>2, SetInduction
  <1>4. n <= n
    OBVIOUS
  <1>5. Folded(n)
    <2> HIDE DEF Folded
    <2> QED BY <1>3, <1>4
  <1> QED BY <1>5 DEF IsFold

(* The intermediate results of a fold: what the operation keeps, the fold  *)
(* keeps.                                                                  *)
FoldsBy(iter, V, base, n, F) ==
  /\ iter[{}] = base
  /\ \A m \in 1..n : iter[1..(m - 1)] \in V => iter[1..m] = F[<<iter[1..(m - 1)], m>>]

LEMMA FoldStays ==
  ASSUME NEW V, NEW base \in V, NEW n \in Nat, NEW F \in [V \X (1..n) -> V], NEW iter,
         FoldsBy(iter, V, base, n, F)
  PROVE  \A m \in 0..n : iter[1..m] \in V
  <1> DEFINE T == {m \in Nat : m <= n => iter[1..m] \in V}
  <1>1. 0 \in T
    <2>1. 1..0 = {}
      OBVIOUS
    <2> QED BY <2>1 DEF FoldsBy
  <1>2. ASSUME NEW m \in Nat, m \in T PROVE m + 1 \in T
    <2> SUFFICES ASSUME m + 1 <= n PROVE iter[1..(m + 1)] \in V
      OBVIOUS
    <2>1. m + 1 \in 1..n /\ (m + 1) - 1 = m /\ iter[1..m] \in V
      BY <1>2
    <2> HIDE DEF T
    <2> QED BY <2>1 DEF FoldsBy
  <1>3. \A m \in Nat : m \in T
    <2> HIDE DEF T
    <2> QED BY <1>1, <1>2, SetInduction
  <1> QED BY <1>3

(* The least element that Min chooses.                                     *)
LEMMA MinHolds ==
  ASSUME NEW T \in SUBSET Nat, T # {}
  PROVE  Min(T) \in T /\ \A n \in T : Min(T) <= n
  BY LeastNatural DEF Min

(* What occurs in two sequences after one another, and in one that begins  *)
(* with its head.                                                          *)
LEMMA RangeOfConcat ==
  ASSUME NEW S, NEW s \in Seq(S), NEW t \in Seq(S)
  PROVE  Range(s \o t) = Range(s) \cup Range(t)
  <1>1. /\ Len(s) \in Nat /\ DOMAIN s = 1..Len(s) /\ Len(t) \in Nat /\ DOMAIN t = 1..Len(t)
        /\ DOMAIN (s \o t) = 1..(Len(s) + Len(t))
        /\ \A i \in 1..Len(s) : (s \o t)[i] = s[i]
        /\ \A i \in 1..Len(t) : (s \o t)[Len(s) + i] = t[i]
    BY LenProperties, ConcatProperties
  <1>2. \A i \in 1..(Len(s) + Len(t)) :
          i \in 1..Len(s) \/ \E j \in 1..Len(t) : i = Len(s) + j
    <2> SUFFICES ASSUME NEW i \in 1..(Len(s) + Len(t)), i \notin 1..Len(s)
                 PROVE  \E j \in 1..Len(t) : i = Len(s) + j
      OBVIOUS
    <2>1. i - Len(s) \in 1..Len(t) /\ i = Len(s) + (i - Len(s))
      BY <1>1
    <2> QED BY <2>1
  <1>3. /\ \A i \in 1..Len(s) : i \in 1..(Len(s) + Len(t))
        /\ \A j \in 1..Len(t) : Len(s) + j \in 1..(Len(s) + Len(t))
    BY <1>1
  <1> DEFINE u == s \o t
  <1>4. /\ DOMAIN u = 1..(Len(s) + Len(t)) /\ \A i \in 1..Len(s) : u[i] = s[i]
        /\ \A i \in 1..Len(t) : u[Len(s) + i] = t[i]
    BY <1>1
  <1> HIDE DEF u
  <1>5. ASSUME NEW x \in Range(u) PROVE x \in Range(s) \cup Range(t)
    <2>1. PICK i \in 1..(Len(s) + Len(t)) : x = u[i]
      BY <1>4 DEF Range
    <2>2. CASE i \in 1..Len(s)
      BY <1>1, <1>4, <2>1, <2>2 DEF Range
    <2>3. CASE \E j \in 1..Len(t) : i = Len(s) + j
      BY <1>1, <1>4, <2>1, <2>3 DEF Range
    <2> QED BY <1>2, <2>2, <2>3
  <1>6. ASSUME NEW x \in Range(s) PROVE x \in Range(u)
    <2>1. PICK i \in 1..Len(s) : x = s[i]
      BY <1>1 DEF Range
    <2> QED BY <1>3, <1>4, <2>1 DEF Range
  <1>7. ASSUME NEW x \in Range(t) PROVE x \in Range(u)
    <2>1. PICK j \in 1..Len(t) : x = t[j]
      BY <1>1 DEF Range
    <2> QED BY <1>3, <1>4, <2>1 DEF Range
  <1> QED BY <1>5, <1>6, <1>7 DEF u

LEMMA RangeOfTail ==
  ASSUME NEW S, NEW s \in Seq(S), s # <<>>
  PROVE  Range(s) = {Head(s)} \cup Range(Tail(s))
  <1>1. /\ Len(s) \in Nat /\ Len(s) >= 1 /\ DOMAIN s = 1..Len(s) /\ Head(s) = s[1]
        /\ Tail(s) \in Seq(S) /\ Len(Tail(s)) = Len(s) - 1
        /\ \A i \in 1..Len(Tail(s)) : Tail(s)[i] = s[i + 1]
    BY LenProperties, HeadTailProperties, EmptySeq
  <1>2. DOMAIN Tail(s) = 1..(Len(s) - 1)
    BY <1>1, LenProperties
  <1> DEFINE t == Tail(s)
             h == Head(s)
             n == Len(s)
  <1>3. /\ n \in Nat /\ n >= 1 /\ DOMAIN s = 1..n /\ h = s[1]
        /\ DOMAIN t = 1..(n - 1) /\ \A i \in 1..(n - 1) : t[i] = s[i + 1]
    BY <1>1, <1>2
  <1> HIDE DEF t, h, n
  <1>4. /\ 1 \in 1..n /\ \A i \in 1..(n - 1) : i + 1 \in 1..n
        /\ \A i \in 1..n : i = 1 \/ (i - 1 \in 1..(n - 1) /\ (i - 1) + 1 = i)
    BY <1>3
  <1>5. ASSUME NEW x \in Range(s) PROVE x = h \/ x \in Range(t)
    <2>1. PICK i \in 1..n : x = s[i]
      BY <1>3 DEF Range
    <2>2. CASE i = 1
      BY <1>3, <2>1, <2>2
    <2>3. CASE i - 1 \in 1..(n - 1) /\ (i - 1) + 1 = i
      BY <1>3, <2>1, <2>3 DEF Range
    <2> QED BY <1>4, <2>2, <2>3
  <1>6. h \in Range(s)
    BY <1>3, <1>4 DEF Range
  <1>7. ASSUME NEW x \in Range(t) PROVE x \in Range(s)
    <2>1. PICK i \in 1..(n - 1) : x = t[i]
      BY <1>3 DEF Range
    <2> QED BY <1>3, <1>4, <2>1 DEF Range
  <1> QED BY <1>5, <1>6, <1>7 DEF t, h

(* Sequences without their last element, and put together from two.        *)
LEMMA FrontIs ==
  ASSUME NEW S, NEW n \in Seq(S), n # <<>>
  PROVE  /\ Len(n) \in Nat /\ Len(n) >= 1
         /\ Front(n) \in Seq(S) /\ Len(Front(n)) = Len(n) - 1
         /\ \A i \in 1..(Len(n) - 1) : Front(n)[i] = n[i]
         /\ Last(n) = n[Len(n)] /\ Last(n) \in S
         /\ IsPrefix(Front(n), n)
  <1>1. Len(n) \in Nat /\ Len(n) >= 1
    BY EmptySeq, LenProperties
  <1>2. \A i \in 1..(Len(n) - 1) : n[i] \in S
    BY <1>1, ElementOfSeq
  <1>3. /\ Front(n) \in Seq(S) /\ Len(Front(n)) = Len(n) - 1
        /\ \A i \in 1..(Len(n) - 1) : Front(n)[i] = n[i]
    <2> DEFINE k == Len(n) - 1
    <2>1. k \in Nat /\ k - 1 + 1 = k
      BY <1>1
    <2>2. Front(n) = SubSeq(n, 1, k)
      BY DEF Front
    <2>3. \A i \in 1..k : n[i] \in S
      BY <1>2
    <2> HIDE DEF k
    <2>4. /\ SubSeq(n, 1, k) \in Seq(S)
          /\ Len(SubSeq(n, 1, k)) = IF 1 <= k THEN k - 1 + 1 ELSE 0
          /\ \A i \in 1..(k - 1 + 1) : SubSeq(n, 1, k)[i] = n[1 + i - 1]
      BY <2>1, <2>3, SubSeqProperties
    <2>5. \A i \in 1..k : i \in 1..(k - 1 + 1) /\ 1 + i - 1 = i
      BY <2>1
    <2>6. Len(Front(n)) = k
      BY <2>1, <2>2, <2>4
    <2> QED BY <2>2, <2>4, <2>5, <2>6 DEF k
  <1>4. Last(n) = n[Len(n)] /\ Last(n) \in S
    BY <1>1, ElementOfSeq DEF Last
  <1>5. IsPrefix(Front(n), n)
    BY <1>1, <1>3, PrefixByElements
  <1> QED BY <1>1, <1>3, <1>4, <1>5

LEMMA Joined ==
  ASSUME NEW S, NEW s \in Seq(S), NEW m \in Seq(S)
  PROVE  /\ s \o m \in Seq(S) /\ Len(s \o m) = Len(s) + Len(m)
         /\ \A i \in 1..Len(s) : (s \o m)[i] = s[i]
         /\ \A i \in 1..Len(m) : (s \o m)[Len(s) + i] = m[i]
         /\ IsPrefix(s, s \o m)
         /\ SubSeq(s \o m, Len(s) + 1, Len(s \o m)) = m
  <1> DEFINE n == s \o m
  <1>1. Len(s) \in Nat /\ Len(m) \in Nat
    BY LenProperties
  <1>2. /\ n \in Seq(S) /\ Len(n) = Len(s) + Len(m)
        /\ \A i \in 1..(Len(s) + Len(m)) : n[i] = IF i <= Len(s) THEN s[i] ELSE m[i - Len(s)]
    BY ConcatProperties
  <1> HIDE DEF n
  <1>3. \A i \in 1..Len(s) : n[i] = s[i]
    BY <1>1, <1>2
  <1>4. \A i \in 1..Len(m) : n[Len(s) + i] = m[i]
    <2> TAKE i \in 1..Len(m)
    <2>1. Len(s) + i \in 1..(Len(s) + Len(m)) /\ ~(Len(s) + i <= Len(s)) /\ (Len(s) + i) - Len(s) = i
      BY <1>1
    <2> QED BY <1>2, <2>1
  <1>5. IsPrefix(s, n)
    BY <1>1, <1>2, <1>3, PrefixByElements
  <1>6. SubSeq(n, Len(s) + 1, Len(n)) = m
    <2> DEFINE a == Len(s) + 1
               b == Len(n)
               q == SubSeq(n, a, b)
    <2>1. a \in Int /\ b \in Int /\ b - a + 1 = Len(m) /\ (a <= b <=> Len(m) # 0)
      BY <1>1, <1>2
    <2>2. \A i \in a..b : n[i] \in S
      BY <1>1, <1>2, ElementOfSeq
    <2>3. /\ q \in Seq(S) /\ Len(q) = (IF a <= b THEN b - a + 1 ELSE 0)
          /\ \A i \in 1..(b - a + 1) : q[i] = n[a + i - 1]
      BY <2>1, <2>2, SubSeqProperties
    <2>4. Len(q) = Len(m)
      BY <2>1, <2>3, <1>1
    <2>5. \A i \in 1..Len(m) : q[i] = m[i]
      <3>1. \A i \in 1..Len(m) : a + i - 1 = Len(s) + i
        BY <1>1
      <3> QED BY <2>1, <2>3, <3>1, <1>4
    <2> HIDE DEF q
    <2> QED BY <2>3, <2>4, <2>5, SeqEqual DEF q
  <1> QED BY <1>2, <1>3, <1>4, <1>5, <1>6 DEF n

LEMMA SplitAt ==
  ASSUME NEW S, NEW s \in Seq(S), NEW n \in Seq(S), IsPrefix(s, n)
  PROVE  LET m == SubSeq(n, Len(s) + 1, Len(n))
         IN  m \in Seq(S) /\ n = s \o m /\ Len(n) = Len(s) + Len(m)
  <1> DEFINE a == Len(s) + 1
             b == Len(n)
             m == SubSeq(n, a, b)
  <1>1. Len(s) \in Nat /\ Len(n) \in Nat /\ Len(s) <= Len(n) /\ \A i \in 1..Len(s) : n[i] = s[i]
    BY LenProperties, PrefixByElements
  <1>2. a \in Int /\ b \in Int /\ b - a + 1 = Len(n) - Len(s)
    BY <1>1
  <1>3. \A i \in a..b : n[i] \in S
    BY <1>1, ElementOfSeq
  <1>4. /\ m \in Seq(S) /\ Len(m) = (IF a <= b THEN b - a + 1 ELSE 0)
        /\ \A i \in 1..(b - a + 1) : m[i] = n[a + i - 1]
    BY <1>2, <1>3, SubSeqProperties
  <1>5. Len(m) = Len(n) - Len(s)
    BY <1>1, <1>4
  <1>6. /\ s \o m \in Seq(S) /\ Len(s \o m) = Len(s) + Len(m)
        /\ \A i \in 1..Len(s) : (s \o m)[i] = s[i]
        /\ \A i \in 1..Len(m) : (s \o m)[Len(s) + i] = m[i]
    BY <1>4, Joined
  <1>7. ASSUME NEW i \in 1..Len(n) PROVE (s \o m)[i] = n[i]
    <2>1. CASE i <= Len(s)
      BY <1>1, <1>6, <2>1
    <2>2. CASE i > Len(s)
      <3> DEFINE j == i - Len(s)
      <3>1. j \in 1..Len(m) /\ Len(s) + j = i /\ j \in 1..(b - a + 1) /\ a + j - 1 = i
        BY <1>1, <1>5, <2>2
      <3> HIDE DEF j, m
      <3>2. (s \o m)[Len(s) + j] = m[j] /\ m[j] = n[a + j - 1]
        BY <1>4, <1>6, <3>1
      <3> QED BY <3>1, <3>2
    <2> QED BY <1>1, <2>1, <2>2
  <1> HIDE DEF m
  <1>8. Len(s \o m) = Len(n)
    BY <1>1, <1>5, <1>6
  <1> QED BY <1>1, <1>4, <1>5, <1>6, <1>7, <1>8, SeqEqual DEF m

LEMMA FrontOfJoined ==
  ASSUME NEW S, NEW s \in Seq(S), NEW m \in Seq(S), m # <<>>
  PROVE  s \o m # <<>> /\ Front(s \o m) = s \o Front(m) /\ Last(s \o m) = Last(m)
  <1> DEFINE n == s \o m
  <1>1. /\ n \in Seq(S) /\ Len(n) = Len(s) + Len(m) /\ Len(s) \in Nat /\ Len(m) \in Nat /\ Len(m) >= 1
        /\ \A i \in 1..Len(s) : n[i] = s[i]
        /\ \A i \in 1..Len(m) : n[Len(s) + i] = m[i]
    BY Joined, FrontIs, LenProperties
  <1>2. /\ Front(m) \in Seq(S) /\ Len(Front(m)) = Len(m) - 1
        /\ \A i \in 1..(Len(m) - 1) : Front(m)[i] = m[i] /\ Last(m) = m[Len(m)]
    BY FrontIs
  <1> HIDE DEF n
  <1>3. n # <<>>
    BY <1>1, EmptySeq
  <1>4. /\ Front(n) \in Seq(S) /\ Len(Front(n)) = Len(n) - 1 /\ Last(n) = n[Len(n)]
        /\ \A i \in 1..(Len(n) - 1) : Front(n)[i] = n[i]
    BY <1>1, <1>3, FrontIs
  <1>5. Last(m) = m[Len(m)]
    BY FrontIs
  <1>6. Last(n) = Last(m)
    <2>1. Len(m) \in 1..Len(m)
      BY <1>1
    <2> QED BY <1>1, <1>4, <1>5, <2>1
  <1> DEFINE f == Front(m)
             g == s \o f
  <1>7. /\ g \in Seq(S) /\ Len(g) = Len(s) + Len(f)
        /\ \A i \in 1..Len(s) : g[i] = s[i]
        /\ \A i \in 1..Len(f) : g[Len(s) + i] = f[i]
    <2>1. f \in Seq(S)
      BY <1>2
    <2> HIDE DEF f
    <2> QED BY <2>1, Joined
  <1>8. Len(g) = Len(Front(n))
    BY <1>1, <1>2, <1>4, <1>7
  <1>9. ASSUME NEW i \in 1..Len(g) PROVE g[i] = Front(n)[i]
    <2> HIDE DEF f, g
    <2>1. Len(f) = Len(m) - 1 /\ Front(n)[i] = n[i]
      BY <1>1, <1>2, <1>4, <1>7 DEF f
    <2>2. CASE i <= Len(s)
      BY <1>1, <1>7, <2>1, <2>2
    <2>3. CASE i > Len(s)
      <3> DEFINE j == i - Len(s)
      <3>1. j \in 1..Len(f) /\ j \in 1..(Len(m) - 1) /\ j \in 1..Len(m) /\ Len(s) + j = i
        BY <1>1, <1>7, <2>1, <2>3
      <3> HIDE DEF j
      <3>2. g[Len(s) + j] = f[j] /\ f[j] = m[j] /\ n[Len(s) + j] = m[j]
        BY <1>1, <1>2, <1>7, <3>1 DEF f
      <3> QED BY <2>1, <3>1, <3>2
    <2>4. Len(g) \in Nat
      BY <1>1, <1>7, <2>1
    <2> QED BY <1>1, <2>2, <2>3, <2>4
  <1> HIDE DEF g
  <1>10. g = Front(n)
    BY <1>4, <1>7, <1>8, <1>9, SeqEqual
  <1> QED BY <1>3, <1>6, <1>10 DEF n, g

(* A part of the way to a node.                                            *)
LEMMA WayIs ==
  ASSUME NEW S, NEW n \in Seq(S), NEW i \in 1..Len(n)
  PROVE  /\ SubSeq(n, 1, i) \in Seq(S) /\ Len(SubSeq(n, 1, i)) = i /\ SubSeq(n, 1, i) # <<>>
         /\ i \in Nat /\ i >= 1 /\ i <= Len(n) /\ Last(SubSeq(n, 1, i)) = n[i]
  <1> DEFINE p == SubSeq(n, 1, i)
  <1>1. Len(n) \in Nat /\ i \in Nat /\ i >= 1 /\ i <= Len(n) /\ i - 1 + 1 = i
    BY LenProperties
  <1>2. \A j \in 1..i : n[j] \in S
    BY <1>1, ElementOfSeq
  <1>3. /\ p \in Seq(S) /\ Len(p) = IF 1 <= i THEN i - 1 + 1 ELSE 0
        /\ \A j \in 1..(i - 1 + 1) : p[j] = n[1 + j - 1]
    BY <1>1, <1>2, SubSeqProperties
  <1> HIDE DEF p
  <1>4. Len(p) = i /\ p # <<>>
    BY <1>1, <1>3, EmptySeq
  <1>5. Last(p) = n[i]
    <2>1. Last(p) = p[i]
      BY <1>3, <1>4, FrontIs
    <2>2. i \in 1..(i - 1 + 1) /\ 1 + i - 1 = i
      BY <1>1
    <2> QED BY <1>3, <2>1, <2>2
  <1> QED BY <1>1, <1>3, <1>4, <1>5 DEF p

(* The beginnings of a sequence without its last element.                  *)
LEMMA WayOfFront ==
  ASSUME NEW S, NEW n \in Seq(S), n # <<>>, NEW i \in 1..Len(Front(n))
  PROVE  SubSeq(Front(n), 1, i) = SubSeq(n, 1, i)
  <1> DEFINE f == Front(n)
             p == SubSeq(f, 1, i)
             q == SubSeq(n, 1, i)
  <1>1. /\ Len(n) \in Nat /\ f \in Seq(S) /\ Len(f) = Len(n) - 1 /\ Len(n) >= 1
        /\ \A j \in 1..(Len(n) - 1) : f[j] = n[j]
    BY FrontIs
  <1>2. i \in Nat /\ i >= 1 /\ i <= Len(n) - 1 /\ i - 1 + 1 = i
    BY <1>1
  <1>3. \A j \in 1..i : f[j] = n[j] /\ n[j] \in S /\ 1 + j - 1 = j
    BY <1>1, <1>2, ElementOfSeq
  <1> HIDE DEF f
  <1>4. /\ p \in Seq(S) /\ Len(p) = (IF 1 <= i THEN i - 1 + 1 ELSE 0)
        /\ \A j \in 1..(i - 1 + 1) : p[j] = f[1 + j - 1]
    BY <1>2, <1>3, SubSeqProperties
  <1>5. /\ q \in Seq(S) /\ Len(q) = (IF 1 <= i THEN i - 1 + 1 ELSE 0)
        /\ \A j \in 1..(i - 1 + 1) : q[j] = n[1 + j - 1]
    BY <1>2, <1>3, SubSeqProperties
  <1>6. \A j \in 1..i : p[j] = q[j]
    BY <1>2, <1>3, <1>4, <1>5
  <1> HIDE DEF p, q
  <1>7. p = q
    BY <1>2, <1>4, <1>5, <1>6, SeqEqual
  <1> QED BY <1>7 DEF p, q, f

(* One element in front.                                                   *)
LEMMA OneBelow ==
  ASSUME NEW S, NEW k \in S, NEW n \in Seq(S)
  PROVE  /\ <<k>> \o n \in Seq(S) /\ <<k>> \o n # <<>>
         /\ Head(<<k>> \o n) = k /\ Tail(<<k>> \o n) = n
         /\ Front(<<k>> \o n) = IF n = <<>> THEN <<>> ELSE <<k>> \o Front(n)
  <1> DEFINE m == <<k>> \o n
  <1>1. <<k>> \in Seq(S) /\ Len(<<k>>) = 1 /\ <<k>>[1] = k
    OBVIOUS
  <1>2. /\ m \in Seq(S) /\ Len(m) = 1 + Len(n) /\ Len(n) \in Nat
        /\ \A i \in 1..1 : m[i] = <<k>>[i]
        /\ \A i \in 1..Len(n) : m[1 + i] = n[i]
    <2>1. \A s \in Seq(S) : Len(s) = 1 =>
            /\ s \o n \in Seq(S) /\ Len(s \o n) = 1 + Len(n)
            /\ \A i \in 1..1 : (s \o n)[i] = s[i]
            /\ \A i \in 1..Len(n) : (s \o n)[1 + i] = n[i]
      <3> SUFFICES ASSUME NEW s \in Seq(S), Len(s) = 1
                   PROVE  /\ s \o n \in Seq(S) /\ Len(s \o n) = 1 + Len(n)
                          /\ \A i \in 1..1 : (s \o n)[i] = s[i]
                          /\ \A i \in 1..Len(n) : (s \o n)[1 + i] = n[i]
        OBVIOUS
      <3>1. /\ s \o n \in Seq(S) /\ Len(s \o n) = Len(s) + Len(n)
            /\ \A i \in 1..Len(s) : (s \o n)[i] = s[i]
            /\ \A i \in 1..Len(n) : (s \o n)[Len(s) + i] = n[i]
        BY Joined
      <3> QED BY <3>1
    <2> QED BY <1>1, <2>1, LenProperties
  <1> HIDE DEF m
  <1>3. m # <<>>
    BY <1>2, EmptySeq
  <1>4. Head(m) = k
    BY <1>1, <1>2, <1>3
  <1>5. Tail(m) = n
    <2>1. /\ Tail(m) \in Seq(S) /\ Len(Tail(m)) = Len(m) - 1
          /\ \A i \in 1..Len(Tail(m)) : Tail(m)[i] = m[i + 1]
      BY <1>2, <1>3, HeadTailProperties
    <2>2. Len(Tail(m)) = Len(n) /\ \A i \in 1..Len(n) : Tail(m)[i] = n[i] /\ i + 1 = 1 + i
      BY <1>2, <2>1
    <2> QED BY <2>1, <2>2, SeqEqual
  <1>6. CASE n = <<>>
    <2>1. /\ Front(m) \in Seq(S) /\ Len(Front(m)) = Len(m) - 1
      BY <1>2, <1>3, FrontIs
    <2>2. Len(n) = 0
      BY <1>6, EmptySeq
    <2>3. Front(m) = <<>>
      BY <1>2, <2>1, <2>2, EmptySeq
    <2> QED BY <1>2, <1>3, <1>4, <1>5, <1>6, <2>3 DEF m
  <1>7. CASE n # <<>>
    <2>1. Front(m) = <<k>> \o Front(n)
      BY <1>1, <1>7, FrontOfJoined DEF m
    <2> QED BY <1>2, <1>3, <1>4, <1>5, <1>7, <2>1 DEF m
  <1> QED BY <1>6, <1>7

(* One element more at the end.                                            *)
LEMMA AppendIs ==
  ASSUME NEW S, NEW n \in Seq(S), NEW e \in S
  PROVE  /\ Append(n, e) \in Seq(S) /\ Append(n, e) # <<>> /\ Len(Append(n, e)) = Len(n) + 1
         /\ Front(Append(n, e)) = n /\ Last(Append(n, e)) = e
         /\ \A i \in 1..Len(n) : Append(n, e)[i] = n[i]
  <1> DEFINE a == Append(n, e)
  <1>1. /\ a \in Seq(S) /\ a # <<>> /\ Len(a) = Len(n) + 1
        /\ \A i \in 1..Len(n) : a[i] = n[i]
        /\ a[Len(n) + 1] = e /\ Len(n) \in Nat
    BY AppendProperties, LenProperties
  <1> HIDE DEF a
  <1>2. /\ Front(a) \in Seq(S) /\ Len(Front(a)) = Len(a) - 1
        /\ \A i \in 1..(Len(a) - 1) : Front(a)[i] = a[i]
        /\ Last(a) = a[Len(a)]
    BY <1>1, FrontIs
  <1>3. Len(Front(a)) = Len(n) /\ \A i \in 1..Len(n) : Front(a)[i] = n[i]
    BY <1>1, <1>2
  <1>4. Front(a) = n
    BY <1>2, <1>3, SeqEqual
  <1> QED BY <1>1, <1>2, <1>4 DEF a

LEMMA FrontAndLast ==
  ASSUME NEW S, NEW n \in Seq(S), n # <<>>
  PROVE  Append(Front(n), Last(n)) = n
  <1> DEFINE a == Append(Front(n), Last(n))
  <1>1. /\ Len(n) \in Nat /\ Len(n) >= 1
        /\ Front(n) \in Seq(S) /\ Len(Front(n)) = Len(n) - 1
        /\ \A i \in 1..(Len(n) - 1) : Front(n)[i] = n[i]
        /\ Last(n) = n[Len(n)] /\ Last(n) \in S
    BY FrontIs
  <1>2. /\ a \in Seq(S) /\ Len(a) = Len(Front(n)) + 1
        /\ \A i \in 1..Len(Front(n)) : a[i] = Front(n)[i]
        /\ a[Len(Front(n)) + 1] = Last(n)
    BY <1>1, AppendProperties
  <1> HIDE DEF a
  <1>3. Len(a) = Len(n)
    BY <1>1, <1>2
  <1>4. ASSUME NEW i \in 1..Len(a) PROVE a[i] = n[i]
    <2>1. i = Len(n) \/ i \in 1..(Len(n) - 1)
      BY <1>1, <1>3
    <2> QED BY <1>1, <1>2, <2>1
  <1>5. a = n
    BY <1>2, <1>3, <1>4, SeqEqual
  <1> QED BY <1>5 DEF a

(* As many values as indices, if no two are the same.                      *)
LEMMA FamilyCount ==
  ASSUME NEW n \in Nat, NEW f, DOMAIN f = 1..n, \A i, j \in 1..n : f[i] = f[j] => i = j,
         NEW R, \A i \in 1..n : f[i] \in R, \A r \in R : \E i \in 1..n : r = f[i]
  PROVE  IsFiniteSet(R) /\ Cardinality(R) = n
  <1> DEFINE g == [i \in 1..n |-> f[i]]
  <1>1. g \in Bijection(1..n, R)
    BY DEF Bijection, Injection, Surjection, IsInjective
  <1>2. ExistsBijection(1..n, R)
    BY <1>1 DEF ExistsBijection
  <1>3. IsFiniteSet(1..n) /\ Cardinality(1..n) = n
    BY FS_Interval
  <1> HIDE DEF g
  <1>4. IsFiniteSet(R) /\ Cardinality(R) = Cardinality(1..n)
    BY <1>2, <1>3, FS_Bijection
  <1> QED BY <1>3, <1>4
===============================================================================
