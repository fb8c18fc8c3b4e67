---------------------------- MODULE AuditStore_proofs ----------------------------
(***************************************************************************)
(* Proofs about AuditStore, for any number of processes, sinks, requests   *)
(* and events: the file is a history that a new sink accepts and each of   *)
(* its events resolves (StoreSound); within one process and without cut-   *)
(* off writes nothing confirmed is lost (AcknowledgedKept), a cut-off file *)
(* is never touched again (TornIsFrozen), and unrelated sessions do not    *)
(* refuse each other's events (HealthyNeverRefused).                       *)
(***************************************************************************)
EXTENDS AuditStore, SharedLemmas

(* The sinks between taking persistenceMutex and giving it back.           *)
Holding == {"open", "write", "readback"}
Stages  == {"persist", "open", "write", "readback", "confirm"}

(* A sink in those stages has the mutex of its process, and the one that   *)
(* writes has the file open.                                               *)
Locked ==
  \A s \in Sinks : /\ pc[s] \in Holding <=> lock[ProcessOf[s]] = s
                   /\ pc[s] = "write" <=> writer = s

Resolves(lines) ==
  \A i \in DOMAIN lines : \A e \in Range(lines[i].events) :
    e.envelope \in Range(lines[i].diagnostics)

(* The diagnostics a sink has registered for its request resolve the       *)
(* events it has recorded or is recording.                                 *)
Refers(es, chain) == \A e \in Range(es) : e.envelope \in Range(chain)
Registers ==
  \A s \in Sinks :
    /\ own[s] # <<>>
    /\ Refers(mem[s], registry[s][RequestOf[s]])
    /\ Refers(proposal[s], registry[s][RequestOf[s]])
    /\ pc[s] \in Stages => registry[s][RequestOf[s]] # <<>>

(* What a sink is about to write is a history as good as the file.         *)
Good(lines) ==
  Decodes(Unregistered, lines) /\ Resolves(lines) /\ Len(lines) <= MaxLines
Copies == \A s \in Sinks : Good(next[s])

StoreInv == TypeOK /\ Locked /\ Registers /\ Copies /\ Good(stored)

(* AcknowledgedKept while a file is being rewritten: the copy the writer   *)
(* has in memory holds what was confirmed.                                 *)
Keeps(lines) == \A t \in Sinks : IsPrefix(mem[t], Latest(lines, ChainOf[t]))
KeptInv ==
  OneProcess /\ Faults \subseteq {"io"} =>
    /\ ~torn
    /\ writer = Nobody => Keeps(stored)
    /\ \A s \in Sinks : pc[s] \in {"open", "write"} => Keeps(next[s])

(* A file that is cut off is in nobody's hands.                            *)
TornInv == OneProcess /\ torn => \A s \in Sinks : pc[s] \notin Holding

(* The event a session is recording, or the last one it has recorded.      *)
Current(t) == IF proposal[t] = <<>> THEN mem[t] ELSE proposal[t]

(* A line that sink t wrote for one of its events: while t has not failed  *)
(* the line repeats what t recorded.                                       *)
Wrote(t, line) ==
  /\ line.chain = ChainOf[t] /\ line.request = RequestOf[t]
  /\ IsPrefix(line.diagnostics, own[t])
  /\ t \notin failed => IsPrefix(line.events, Current(t))
  /\ line.events # <<>> /\ Last(line.events).by = t
  /\ Last(line.events).n \in 1..count[t]
  /\ pc[t] = "persist" => Last(line.events).n # count[t]

(* Each line is a sink's own, and no event ends two lines.                 *)
Ends(line) == <<Last(line.events).by, Last(line.events).n>>
Owned(lines) ==
  /\ \A i \in DOMAIN lines : \E t \in Sinks : Wrote(t, lines[i])
  /\ \A i, j \in DOMAIN lines :
       i # j => Ends(lines[i]) # Ends(lines[j])

(* Sessions of different requests and chains do not meet: nobody registers *)
(* for a request more than its session has, and the file has a line for an *)
(* event at most once.                                                     *)
Apart ==
  /\ OneProcess /\ "io" \notin Faults
  /\ IsInjective(RequestOf) /\ IsInjective(ChainOf)
HealthyInv ==
  Apart =>
    /\ \A s, t \in Sinks : IsPrefix(registry[s][RequestOf[t]], own[t])
    /\ \A s \in Sinks :
         /\ pc[s] = "idle" => proposal[s] = <<>>
         /\ pc[s] \in Stages =>
              /\ proposal[s] # <<>> /\ IsPrefix(mem[s], proposal[s])
              /\ Last(proposal[s]).by = s /\ Last(proposal[s]).n = count[s]
              /\ count[s] # 0
         /\ pc[s] = "readback" => stored = next[s]
         /\ Owned(next[s])
    /\ Owned(stored)

-------------------------------------------------------------------------------
(* Parameters.                                                             *)

LEMMA LayoutTypes ==
  ASSUME layout \in Layouts
  PROVE  /\ Sinks \subseteq AllSinks /\ Nobody \notin Sinks
         /\ ProcessOf \in [Sinks -> Processes]
         /\ RequestOf \in [Sinks -> Requests] /\ ChainOf \in [Sinks -> Chains]
         /\ MaxChains \in Nat /\ MaxLines \in Nat /\ MaxEvents \in Nat
  BY LayoutsAssumption, NobodyAssumption
     DEF Layout, Sinks, ProcessOf, RequestOf, ChainOf, MaxChains, MaxLines,
         MaxEvents

LEMMA LayoutFixed ==
  ASSUME [Next]_vars
  PROVE  /\ layout' = layout /\ Sinks' = Sinks /\ ProcessOf' = ProcessOf
         /\ RequestOf' = RequestOf /\ ChainOf' = ChainOf
         /\ MaxChains' = MaxChains /\ MaxLines' = MaxLines
         /\ MaxEvents' = MaxEvents /\ Faults' = Faults
         /\ Envelopes' = Envelopes /\ Events' = Events /\ Lines' = Lines
  BY DEF Next, vars, Sinks, ProcessOf, RequestOf, ChainOf, MaxChains, MaxLines,
         MaxEvents, Faults, Envelopes, Events, Lines

-------------------------------------------------------------------------------
(* Reading the file: decodeSnapshot and requireAppendOnly.                 *)

Registries == [Requests -> Seq(Envelopes)]

LEMMA NamedFinite ==
  ASSUME NEW reg \in Registries, NEW lines \in Seq(Lines)
  PROVE  /\ Registered(reg) \subseteq Named(reg, lines)
         /\ Named(reg, lines) \subseteq Requests
         /\ IsFiniteSet(Named(reg, lines)) /\ IsFiniteSet(Registered(reg))
  <1>1. \A i \in DOMAIN lines : lines[i].request \in Requests
    <2>1. \A i \in DOMAIN lines : lines[i] \in Lines
      BY LenProperties, ElementOfSeq
    <2> QED BY <2>1 DEF Lines
  <1>2. /\ Registered(reg) \subseteq Named(reg, lines)
        /\ Named(reg, lines) \subseteq Requests
    BY <1>1 DEF Named, Registered
  <1> QED BY <1>2, FiniteAssumption, FS_Subset

LEMMA SmallerNamed ==
  ASSUME NEW reg \in Registries, NEW lines \in Seq(Lines),
         NEW S \in SUBSET Named(reg, lines)
  PROVE  Cardinality(S) <= Cardinality(Named(reg, lines)) /\ Cardinality(S) \in Nat
  BY NamedFinite, FS_Subset, FS_CardinalityType

(* The first lines of a history are a history.                             *)
LEMMA FirstLines ==
  ASSUME NEW lines \in Seq(Lines), NEW k \in 0..Len(lines)
  PROVE  /\ SubSeq(lines, 1, k) \in Seq(Lines)
         /\ Len(SubSeq(lines, 1, k)) = k
         /\ DOMAIN SubSeq(lines, 1, k) = 1..k
         /\ \A i \in 1..k : SubSeq(lines, 1, k)[i] = lines[i]
         /\ DOMAIN lines = 1..Len(lines) /\ Len(lines) \in Nat
         /\ 1..k \subseteq DOMAIN lines
  <1>1. Len(lines) \in Nat /\ DOMAIN lines = 1..Len(lines)
    BY LenProperties
  <1>2. \A i \in 1..k : lines[i] \in Lines
    BY <1>1, ElementOfSeq
  <1>3. /\ SubSeq(lines, 1, k) \in Seq(Lines)
        /\ Len(SubSeq(lines, 1, k)) = k
        /\ \A i \in 1..k : SubSeq(lines, 1, k)[i] = lines[i]
    BY <1>1, <1>2, SubSeqProperties
  <1> QED BY <1>1, <1>3, LenProperties

LEMMA PrefixDecodes ==
  ASSUME MaxChains \in Nat, NEW reg \in Registries, NEW lines \in Seq(Lines),
         NEW k \in 0..Len(lines), Decodes(reg, lines)
  PROVE  Decodes(reg, SubSeq(lines, 1, k))
  <1> DEFINE first == SubSeq(lines, 1, k)
  <1>1. /\ first \in Seq(Lines) /\ Len(first) = k /\ DOMAIN first = 1..k
        /\ \A i \in 1..k : first[i] = lines[i]
        /\ DOMAIN lines = 1..Len(lines) /\ Len(lines) \in Nat
        /\ 1..k \subseteq DOMAIN lines
    BY FirstLines
  <1> HIDE DEF first
  <1>2. Consistent(reg, first)
    BY <1>1 DEF Decodes, Consistent
  <1>3. Named(reg, first) \subseteq Named(reg, lines)
    BY <1>1 DEF Named
  <1>4. Cardinality(Named(reg, first)) <= Cardinality(Named(reg, lines))
    BY <1>3, SmallerNamed
  <1>5. Cardinality(Named(reg, first)) \in Nat /\ Cardinality(Named(reg, lines)) \in Nat
    BY <1>1, NamedFinite, FS_CardinalityType
  <1>6. Decodes(reg, first)
    BY <1>2, <1>4, <1>5 DEF Decodes
  <1> QED BY <1>6 DEF first

LEMMA EmptyDecodes ==
  ASSUME NEW reg \in Registries, Cardinality(Registered(reg)) <= MaxChains
  PROVE  Decodes(reg, <<>>)
  <1>1. DOMAIN <<>> = {} /\ Named(reg, <<>>) = Registered(reg)
    BY DEF Named
  <1> QED BY <1>1 DEF Decodes, Consistent

Fits(reg) == reg \in Registries /\ Cardinality(Registered(reg)) <= MaxChains

LEMMA AcceptedDecodes ==
  ASSUME stored \in Seq(Lines), MaxChains \in Nat, NEW reg, Fits(reg)
  PROVE  /\ Accepted(reg) \in 0..Len(stored)
         /\ Decodes(reg, SubSeq(stored, 1, Accepted(reg)))
         /\ Accepted(reg) < Len(stored) =>
              ~Decodes(reg, SubSeq(stored, 1, Accepted(reg) + 1))
  <1> DEFINE T == {k \in 0..Len(stored) : Decodes(reg, SubSeq(stored, 1, k))}
  <1>1. Len(stored) \in Nat /\ SubSeq(stored, 1, 0) = <<>>
    BY LenProperties, SubSeqEmpty
  <1>2. 0 \in T
    <2>1. Decodes(reg, <<>>)
      BY EmptyDecodes DEF Fits
    <2>2. Decodes(reg, SubSeq(stored, 1, 0))
      BY <1>1, <2>1, Zenon
    <2>3. 0 \in 0..Len(stored)
      BY <1>1
    <2> QED BY <2>2, <2>3
  <1>3. PICK k \in 0..Len(stored) : k \in T /\ (k < Len(stored) => k + 1 \notin T)
    <2> HIDE DEF T
    <2> QED BY <1>1, <1>2, LastInside
  <1>4. /\ Decodes(reg, SubSeq(stored, 1, k))
        /\ k < Len(stored) => ~Decodes(reg, SubSeq(stored, 1, k + 1))
    BY <1>1, <1>3
  <1> QED BY <1>4 DEF Accepted

(* A file whose lines are a history is accepted whole, and only then.      *)
LEMMA AcceptsAll ==
  ASSUME stored \in Seq(Lines), MaxChains \in Nat, NEW reg, Fits(reg)
  PROVE  Accepted(reg) = Len(stored) <=> Decodes(reg, stored)
  <1>1. Len(stored) \in Nat /\ SubSeq(stored, 1, Len(stored)) = stored
    BY LenProperties, SubSeqFull
  <1>2. ASSUME Accepted(reg) = Len(stored) PROVE Decodes(reg, stored)
    BY <1>1, <1>2, AcceptedDecodes
  <1>3. ASSUME Decodes(reg, stored), Accepted(reg) < Len(stored) PROVE FALSE
    <2>1. Accepted(reg) + 1 \in 0..Len(stored)
      BY <1>1, <1>3, AcceptedDecodes
    <2>2. Decodes(reg, SubSeq(stored, 1, Accepted(reg) + 1))
      BY <1>3, <2>1, PrefixDecodes DEF Fits
    <2> QED BY <1>3, <2>2, AcceptedDecodes
  <1> QED BY <1>1, <1>2, <1>3, AcceptedDecodes

(* The registry after the accepted lines: each chain is the registered one *)
(* or one that was stored, and extends the registered one.                 *)
LEMMA AbsorbedChain ==
  ASSUME stored \in Seq(Lines), MaxChains \in Nat, NEW reg, Fits(reg),
         NEW r \in Requests
  PROVE  /\ Absorbed(reg)[r] \in Seq(Envelopes)
         /\ IsPrefix(reg[r], Absorbed(reg)[r])
         /\ \/ Absorbed(reg)[r] = reg[r]
            \/ \E i \in 1..Accepted(reg) :
                 stored[i].request = r /\ Absorbed(reg)[r] = stored[i].diagnostics
  <1> DEFINE A == Accepted(reg)
             I == {i \in 1..A : stored[i].request = r}
             C == {reg[r]} \cup {stored[i].diagnostics : i \in I}
             chain(i) == IF i \in I THEN stored[i].diagnostics ELSE reg[r]
             f == [i \in 1..(A + 1) |-> Len(chain(i))]
  <1>1. A \in 0..Len(stored) /\ A \in Nat /\ Len(stored) \in Nat
    BY AcceptedDecodes, LenProperties
  <1>2. reg[r] \in Seq(Envelopes)
    BY DEF Fits, Registries
  <1>3. \A i \in I : i \in 1..Len(stored) /\ stored[i].diagnostics \in Seq(Envelopes)
    <2>1. \A i \in I : i \in 1..Len(stored)
      BY <1>1
    <2>2. \A i \in I : stored[i] \in Lines
      BY <2>1, ElementOfSeq
    <2> QED BY <2>1, <2>2 DEF Lines
  <1>4. C \subseteq Seq(Envelopes)
    BY <1>2, <1>3
  <1>5. PICK c \in C : \A d \in C : Len(d) <= Len(c)
    <2>1. \A i \in 1..(A + 1) : chain(i) \in Seq(Envelopes) /\ chain(i) \in C
      BY <1>2, <1>3
    <2>2. f \in [1..(A + 1) -> Nat]
      BY <2>1, LenProperties
    <2>3. PICK i \in 1..(A + 1) : \A j \in 1..(A + 1) : f[j] <= f[i]
      <3> DEFINE n == A + 1
      <3>1. n \in Nat /\ n # 0 /\ f \in [1..n -> Nat]
        BY <1>1, <2>2
      <3>2. \E i \in 1..n : \A j \in 1..n : f[j] <= f[i]
        <4> HIDE DEF f, n
        <4> QED BY <3>1, FamilyMaximum
      <3> QED BY <3>2
    <2>4. \A j \in 1..(A + 1) : Len(chain(j)) <= Len(chain(i))
      BY <2>3
    <2>5. ASSUME NEW d \in C PROVE \E j \in 1..(A + 1) : d = chain(j)
      <3>1. CASE d = reg[r]
        <4>1. A + 1 \in 1..(A + 1) /\ A + 1 \notin I
          BY <1>1
        <4> QED BY <3>1, <4>1
      <3>2. CASE d # reg[r]
        <4>1. PICK j \in I : d = stored[j].diagnostics
          BY <1>1, <3>2
        <4>2. j \in 1..(A + 1) /\ d = chain(j)
          BY <1>1, <4>1
        <4> QED BY <4>2
      <3> QED BY <3>1, <3>2
    <2>6. \A d \in C : Len(d) <= Len(chain(i))
      BY <2>4, <2>5
    <2> QED BY <2>1, <2>3, <2>6
  <1>6. Absorbed(reg)[r] = Longest(C)
    BY DEF Absorbed
  <1>7. Longest(C) \in C /\ \A d \in C : Len(d) <= Len(Longest(C))
    <2> HIDE DEF C
    <2> QED BY <1>5 DEF Longest
  <1>8. \/ Longest(C) = reg[r]
        \/ \E i \in 1..A : stored[i].request = r /\ Longest(C) = stored[i].diagnostics
    BY <1>7
  <1>9. IsPrefix(reg[r], Longest(C))
    <2>1. CASE Longest(C) = reg[r]
      BY <1>2, <2>1, PrefixSelf
    <2>2. CASE Longest(C) # reg[r]
      <3>1. PICK i \in 1..A : stored[i].request = r /\ Longest(C) = stored[i].diagnostics
        BY <1>8, <2>2
      <3>2. Consistent(reg, SubSeq(stored, 1, A))
        BY AcceptedDecodes DEF Decodes
      <3>3. DOMAIN SubSeq(stored, 1, A) = 1..A /\ SubSeq(stored, 1, A)[i] = stored[i]
        BY <1>1, FirstLines
      <3>4. Comparable(Longest(C), reg[r])
        BY <3>1, <3>2, <3>3 DEF Consistent
      <3>5. Len(reg[r]) <= Len(Longest(C))
        BY <1>7
      <3>6. Longest(C) \in Seq(Envelopes)
        BY <1>4, <1>7
      <3> HIDE DEF C
      <3> QED BY <1>2, <3>4, <3>5, <3>6, PrefixOfLonger DEF Comparable
    <2> QED BY <2>1, <2>2
  <1> HIDE DEF C
  <1>10. Longest(C) \in Seq(Envelopes)
    BY <1>4, <1>7
  <1> QED BY <1>6, <1>8, <1>9, <1>10

LEMMA AbsorbedFits ==
  ASSUME stored \in Seq(Lines), MaxChains \in Nat, NEW reg, Fits(reg)
  PROVE  Fits(Absorbed(reg))
  <1> DEFINE lines == SubSeq(stored, 1, Accepted(reg))
  <1>1. Absorbed(reg) \in Registries
    BY AbsorbedChain DEF Absorbed, Registries
  <1>2. /\ lines \in Seq(Lines) /\ DOMAIN lines = 1..Accepted(reg)
        /\ \A i \in 1..Accepted(reg) : lines[i] = stored[i]
    BY AcceptedDecodes, FirstLines
  <1>3. Decodes(reg, lines)
    BY AcceptedDecodes
  <1> HIDE DEF lines
  <1>4. Registered(Absorbed(reg)) \subseteq Named(reg, lines)
    BY <1>2, AbsorbedChain DEF Registered, Named
  <1>5. reg \in Registries
    BY DEF Fits
  <1>6. /\ Cardinality(Registered(Absorbed(reg))) <= Cardinality(Named(reg, lines))
        /\ Cardinality(Registered(Absorbed(reg))) \in Nat
        /\ Cardinality(Named(reg, lines)) \in Nat
    BY <1>2, <1>4, <1>5, SmallerNamed, NamedFinite, FS_CardinalityType
  <1>7. Cardinality(Named(reg, lines)) <= MaxChains
    BY <1>3 DEF Decodes
  <1> QED BY <1>1, <1>6, <1>7 DEF Fits

(* The last line of an audit chain.                                        *)
LEMMA LatestLine ==
  ASSUME NEW lines \in Seq(Lines), NEW c
  PROVE  \/ /\ \A i \in DOMAIN lines : lines[i].chain # c
            /\ Latest(lines, c) = <<>>
         \/ \E i \in DOMAIN lines :
              /\ lines[i].chain = c /\ Latest(lines, c) = lines[i].events
              /\ \A j \in DOMAIN lines : lines[j].chain = c => j <= i
  <1> DEFINE S == {i \in DOMAIN lines : lines[i].chain = c}
             T == {Len(lines) - i : i \in S}
             last == CHOOSE i \in S : \A j \in S : j <= i
  <1>1. Len(lines) \in Nat /\ DOMAIN lines = 1..Len(lines)
    BY LenProperties
  <1>2. CASE S = {}
    BY <1>2 DEF Latest
  <1>3. CASE S # {}
    <2>1. T \in SUBSET Nat /\ T # {}
      BY <1>1, <1>3
    <2>2. PICK m \in T : \A n \in T : m <= n
      <3> HIDE DEF T
      <3> QED BY <2>1, LeastNatural
    <2>3. PICK i \in S : m = Len(lines) - i
      OBVIOUS
    <2>4. \A j \in S : j <= i
      <3> SUFFICES ASSUME NEW j \in S PROVE j <= i
        OBVIOUS
      <3>1. m <= Len(lines) - j
        BY <2>2
      <3>2. i \in Int /\ j \in Int
        BY <1>1
      <3> QED BY <1>1, <2>3, <3>1, <3>2
    <2>5. last \in S /\ \A j \in S : j <= last
      <3> HIDE DEF S
      <3> QED BY <2>4
    <2>6. Latest(lines, c) = lines[last].events
      BY <1>3 DEF Latest
    <2> HIDE DEF last
    <2> QED BY <2>5, <2>6
  <1> QED BY <1>2, <1>3

LEMMA LatestAppended ==
  ASSUME NEW lines \in Seq(Lines), NEW line \in Lines, NEW c
  PROVE  Latest(Append(lines, line), c) =
           IF line.chain = c THEN line.events ELSE Latest(lines, c)
  <1> DEFINE more == Append(lines, line)  n == Len(lines)
  <1>1. /\ n \in Nat /\ DOMAIN lines = 1..n
        /\ more \in Seq(Lines) /\ DOMAIN more = 1..(n + 1)
        /\ \A i \in 1..n : more[i] = lines[i]
        /\ more[n + 1] = line
    BY LenProperties, AppendProperties
  <1> HIDE DEF more, n
  <1>2. \/ (\A i \in 1..(n + 1) : more[i].chain # c) /\ Latest(more, c) = <<>>
        \/ \E i \in 1..(n + 1) :
             /\ more[i].chain = c /\ Latest(more, c) = more[i].events
             /\ \A j \in 1..(n + 1) : more[j].chain = c => j <= i
    BY <1>1, LatestLine
  <1>3. \/ (\A i \in 1..n : lines[i].chain # c) /\ Latest(lines, c) = <<>>
        \/ \E i \in 1..n :
             /\ lines[i].chain = c /\ Latest(lines, c) = lines[i].events
             /\ \A j \in 1..n : lines[j].chain = c => j <= i
    BY <1>1, LatestLine
  <1>4. n + 1 \in 1..(n + 1) /\ \A i \in 1..(n + 1) : i \in 1..n \/ i = n + 1
    BY <1>1
  <1>5. CASE line.chain = c
    <2>1. PICK i \in 1..(n + 1) :
             /\ Latest(more, c) = more[i].events
             /\ \A j \in 1..(n + 1) : more[j].chain = c => j <= i
      BY <1>1, <1>2, <1>4, <1>5
    <2>2. n + 1 <= i
      BY <1>1, <1>4, <1>5, <2>1
    <2>3. i = n + 1
      BY <1>1, <2>2
    <2> QED BY <1>1, <1>5, <2>1, <2>3 DEF more
  <1>6. CASE line.chain # c
    <2>1. CASE \A i \in 1..n : lines[i].chain # c
      <3>1. \A i \in 1..(n + 1) : more[i].chain # c
        BY <1>1, <1>4, <1>6, <2>1
      <3> QED BY <1>2, <1>3, <1>6, <2>1, <3>1 DEF more
    <2>2. CASE ~(\A i \in 1..n : lines[i].chain # c)
      <3>1. PICK i \in 1..n :
             /\ lines[i].chain = c /\ Latest(lines, c) = lines[i].events
             /\ \A j \in 1..n : lines[j].chain = c => j <= i
        BY <1>3, <2>2
      <3>2. more[i].chain = c /\ i \in 1..(n + 1)
        BY <1>1, <3>1
      <3>3. PICK k \in 1..(n + 1) :
             /\ more[k].chain = c /\ Latest(more, c) = more[k].events
             /\ \A j \in 1..(n + 1) : more[j].chain = c => j <= k
        BY <1>2, <3>2
      <3>4. k \in 1..n /\ lines[k].chain = c
        BY <1>1, <1>4, <1>6, <3>3
      <3>5. k <= i /\ i <= k
        BY <3>1, <3>2, <3>3, <3>4
      <3>6. k = i
        BY <1>1, <3>1, <3>4, <3>5
      <3> QED BY <1>1, <1>6, <3>1, <3>3, <3>6 DEF more
    <2> QED BY <2>1, <2>2
  <1> QED BY <1>5, <1>6

(* An earlier line of the chain is a prefix of the last one.               *)
LEMMA LatestExtends ==
  ASSUME NEW lines \in Seq(Lines), NEW reg, Consistent(reg, lines),
         NEW i \in DOMAIN lines
  PROVE  IsPrefix(lines[i].events, Latest(lines, lines[i].chain))
  <1>1. PICK k \in DOMAIN lines :
          /\ lines[k].chain = lines[i].chain
          /\ Latest(lines, lines[i].chain) = lines[k].events
          /\ \A j \in DOMAIN lines : lines[j].chain = lines[i].chain => j <= k
    BY LatestLine
  <1>2. DOMAIN lines = 1..Len(lines) /\ Len(lines) \in Nat
    BY LenProperties
  <1>3. i <= k
    BY <1>1
  <1>4. k \in i..Len(lines)
    BY <1>2, <1>3
  <1> QED BY <1>1, <1>4 DEF Consistent

-------------------------------------------------------------------------------
(* What may be written: a history, and every part of it at its front.      *)

LEMMA GoodEmpty ==
  ASSUME layout \in Layouts
  PROVE  Good(<<>>)
  <1>1. MaxChains \in Nat /\ MaxLines \in Nat
    BY LayoutTypes
  <1>2. Registered(Unregistered) = {} /\ Unregistered \in Registries
    BY EmptySeq DEF Registered, Unregistered, Registries
  <1>3. Decodes(Unregistered, <<>>)
    BY <1>1, <1>2, EmptyDecodes, FS_EmptySet
  <1>4. Resolves(<<>>)
    BY DEF Resolves
  <1> QED BY <1>1, <1>3, <1>4, EmptySeq DEF Good

LEMMA GoodFront ==
  ASSUME layout \in Layouts, NEW lines \in Seq(Lines), NEW k \in 0..Len(lines),
         Good(lines)
  PROVE  Good(SubSeq(lines, 1, k))
  <1> DEFINE first == SubSeq(lines, 1, k)
  <1>1. MaxChains \in Nat /\ MaxLines \in Nat
    BY LayoutTypes
  <1>2. /\ Len(first) = k /\ DOMAIN first = 1..k
        /\ \A i \in 1..k : first[i] = lines[i]
        /\ 1..k \subseteq DOMAIN lines /\ Len(lines) \in Nat
    BY FirstLines
  <1>3. Decodes(Unregistered, first)
    <2>1. Unregistered \in Registries
      BY EmptySeq DEF Unregistered, Registries
    <2> QED BY <1>1, <2>1, PrefixDecodes DEF Good
  <1> HIDE DEF first
  <1>4. Resolves(first)
    BY <1>2 DEF Resolves, Good
  <1>5. Len(first) <= MaxLines
    BY <1>1, <1>2 DEF Good
  <1>6. Good(first)
    BY <1>3, <1>4, <1>5 DEF Good
  <1> QED BY <1>6 DEF first

(* The line persistChain adds: it continues the chain stored last and has  *)
(* the diagnostics of the sink's registry.                                 *)
LEMMA SnapshotTyped ==
  ASSUME TypeOK, NEW s \in Sinks
  PROVE  LET line == Snapshot(s, Absorbed(registry[s]))
         IN  /\ line \in Lines
             /\ line.chain = ChainOf[s] /\ line.request = RequestOf[s]
             /\ line.events = proposal[s]
             /\ line.diagnostics = Absorbed(registry[s])[RequestOf[s]]
  <1>1. ChainOf[s] \in Chains /\ RequestOf[s] \in Requests
    BY LayoutTypes DEF TypeOK
  <1>2. Absorbed(registry[s])[RequestOf[s]] \in Seq(Envelopes)
    <2>1. Fits(registry[s]) /\ MaxChains \in Nat
      BY LayoutTypes DEF TypeOK, Fits, Registries
    <2> QED BY <1>1, <2>1, AbsorbedChain DEF TypeOK
  <1>3. proposal[s] \in Seq(Events)
    BY DEF TypeOK
  <1> QED BY <1>1, <1>2, <1>3 DEF Snapshot, Lines

LEMMA GoodAppended ==
  ASSUME TypeOK, Registers, Good(stored), NEW s \in Sinks, pc[s] \in Stages,
         Readable(registry[s]), AppendOnly(s), Len(stored) < MaxLines
  PROVE  Good(Append(stored, Snapshot(s, Absorbed(registry[s]))))
  <1> DEFINE reg == registry[s]
             r == RequestOf[s]
             line == Snapshot(s, Absorbed(reg))
             lines == Append(stored, line)
             n == Len(stored)
  <1>0. /\ r \in Requests /\ MaxChains \in Nat /\ MaxLines \in Nat
        /\ Fits(reg) /\ stored \in Seq(Lines) /\ reg \in Registries
    BY LayoutTypes DEF TypeOK, Fits, Registries
  <1>1. /\ line \in Lines
        /\ line.chain = ChainOf[s] /\ line.request = r
        /\ line.events = proposal[s]
        /\ line.diagnostics = Absorbed(reg)[r]
    BY SnapshotTyped
  <1> HIDE DEF line
  <1>2. /\ n \in Nat /\ DOMAIN stored = 1..n
        /\ lines \in Seq(Lines) /\ DOMAIN lines = 1..(n + 1) /\ Len(lines) = n + 1
        /\ \A i \in 1..n : lines[i] = stored[i]
        /\ lines[n + 1] = line
        /\ \A i \in 1..(n + 1) : i \in 1..n \/ i = n + 1
    BY <1>0, <1>1, LenProperties, AppendProperties
  <1> HIDE DEF lines, n
  <1>3. \A i \in 1..n : /\ stored[i] \in Lines
                        /\ stored[i].diagnostics \in Seq(Envelopes)
                        /\ stored[i].events \in Seq(Events)
    <2>1. \A i \in 1..n : stored[i] \in Lines
      BY <1>0, ElementOfSeq DEF n
    <2> QED BY <2>1 DEF Lines
  <1>4. Decodes(reg, stored) /\ Accepted(reg) = n
    BY <1>0, AcceptsAll DEF Readable, n
  <1>5. Consistent(Unregistered, stored) /\ Consistent(reg, stored)
    BY <1>4 DEF Good, Decodes
  <1>6. line.diagnostics \in Seq(Envelopes) /\ line.events \in Seq(Events)
    BY <1>1 DEF Lines
  \* Its diagnostics are comparable with those stored for the request.
  <1>7. ASSUME NEW i \in 1..n, stored[i].request = r
        PROVE  Comparable(stored[i].diagnostics, line.diagnostics)
    <2>1. CASE line.diagnostics = reg[r]
      BY <1>2, <1>5, <1>7, <2>1 DEF Consistent
    <2>2. CASE \E k \in 1..n : stored[k].request = r
                               /\ line.diagnostics = stored[k].diagnostics
      <3>1. PICK k \in 1..n : stored[k].request = r
                              /\ line.diagnostics = stored[k].diagnostics
        BY <2>2
      <3>2. k \in i..n \/ i \in k..n
        BY <1>2
      <3> QED BY <1>2, <1>5, <1>7, <3>1, <3>2 DEF Consistent, Comparable, n
    <2> QED BY <1>0, <1>1, <1>4, <2>1, <2>2, AbsorbedChain
  \* It repeats the events stored for the audit chain.
  <1>8. ASSUME NEW i \in 1..n, stored[i].chain = ChainOf[s]
        PROVE  IsPrefix(stored[i].events, line.events)
    <2>1. IsPrefix(stored[i].events, Latest(stored, ChainOf[s]))
      BY <1>0, <1>2, <1>5, <1>8, LatestExtends
    <2>2. IsPrefix(Latest(stored, ChainOf[s]), line.events)
      BY <1>1 DEF AppendOnly
    <2>3. Latest(stored, ChainOf[s]) \in Seq(Events)
      BY <1>0, <1>2, <1>3, <1>8, LatestLine
    <2> QED BY <1>3, <1>6, <2>1, <2>2, <2>3, PrefixTransitive
  <1>9. Consistent(Unregistered, lines)
    <2>1. ASSUME NEW i \in 1..(n + 1)
          PROVE  Comparable(lines[i].diagnostics, Unregistered[lines[i].request])
      <3>1. lines[i] \in Lines
        BY <1>1, <1>2, <1>3
      <3>2. lines[i].diagnostics \in Seq(Envelopes) /\ lines[i].request \in Requests
        BY <3>1 DEF Lines
      <3>3. Unregistered[lines[i].request] = <<>>
        BY <3>2 DEF Unregistered
      <3>4. IsPrefix(<<>>, lines[i].diagnostics)
        BY <3>2, PrefixSelf
      <3> QED BY <3>3, <3>4, Zenon DEF Comparable
    <2>2. ASSUME NEW i \in 1..(n + 1), NEW j \in i..(n + 1)
          PROVE  /\ lines[i].request = lines[j].request =>
                      Comparable(lines[i].diagnostics, lines[j].diagnostics)
                 /\ lines[i].chain = lines[j].chain =>
                      IsPrefix(lines[i].events, lines[j].events)
      <3>1. CASE j \in 1..n
        <4>1. i \in 1..n /\ j \in i..n
          BY <1>2, <3>1
        <4> QED BY <1>2, <1>5, <4>1 DEF Consistent, n
      <3>2. CASE j = n + 1 /\ i \in 1..n
        BY <1>1, <1>2, <1>7, <1>8, <3>2
      <3>3. CASE j = n + 1 /\ i = n + 1
        <4>1. IsPrefix(line.events, line.events)
              /\ IsPrefix(line.diagnostics, line.diagnostics)
          BY <1>6, PrefixSelf
        <4> QED BY <1>2, <3>3, <4>1 DEF Comparable
      <3> QED BY <1>2, <3>1, <3>2, <3>3
    <2> QED BY <1>2, <2>1, <2>2 DEF Consistent
  <1>10. Cardinality(Named(Unregistered, lines)) <= MaxChains
    <2>1. reg[r] # <<>>
      BY DEF Registers
    <2>2. Named(Unregistered, lines) \subseteq Named(reg, stored)
      BY <1>0, <1>1, <1>2, <2>1 DEF Named, Registered, Unregistered
    <2>3. /\ Cardinality(Named(Unregistered, lines)) <= Cardinality(Named(reg, stored))
          /\ Cardinality(Named(Unregistered, lines)) \in Nat
      BY <1>0, <2>2, SmallerNamed
    <2>4. Cardinality(Named(reg, stored)) <= MaxChains
      BY <1>4 DEF Decodes
    <2>5. Cardinality(Named(reg, stored)) \in Nat
      BY <1>0, NamedFinite, FS_CardinalityType
    <2> QED BY <1>0, <2>3, <2>4, <2>5
  <1>11. Resolves(lines)
    <2>1. ASSUME NEW e \in Range(line.events)
          PROVE  e.envelope \in Range(line.diagnostics)
      <3>1. e.envelope \in Range(reg[r])
        BY <1>1, <2>1 DEF Registers, Refers
      <3>2. reg[r] \in Seq(Envelopes) /\ IsPrefix(reg[r], line.diagnostics)
        BY <1>0, <1>1, AbsorbedChain DEF Registries
      <3> QED BY <1>6, <3>1, <3>2, RangeOfPrefix
    <2>2. ASSUME NEW i \in 1..n, NEW e \in Range(stored[i].events)
          PROVE  e.envelope \in Range(stored[i].diagnostics)
      BY <1>2, <2>2 DEF Good, Resolves
    <2> QED BY <1>2, <2>1, <2>2 DEF Resolves
  <1>12. Len(lines) <= MaxLines
    BY <1>0, <1>2 DEF n
  <1>13. Good(lines)
    BY <1>9, <1>10, <1>11, <1>12 DEF Good, Decodes
  <1> QED BY <1>13 DEF lines, line

-------------------------------------------------------------------------------
(* Types.                                                                  *)

LEMMA DoneTyped ==
  ASSUME TypeOK, NEW s \in Sinks, Done(s)
  PROVE  /\ pc' = [pc EXCEPT ![s] = "idle"]
         /\ pc' \in [Sinks -> {"idle", "persist", "open", "write", "readback",
                               "confirm", "dead"}]
         /\ proposal' \in [Sinks -> Seq(Events)] /\ proposal'[s] = <<>>
         /\ \A t \in Sinks \ {s} : proposal'[t] = proposal[t]
         /\ next' \in [Sinks -> Seq(Lines)] /\ next'[s] = <<>>
         /\ \A t \in Sinks \ {s} : next'[t] = next[t]
  <1>1. <<>> \in Seq(Events) /\ <<>> \in Seq(Lines)
    BY EmptySeq
  <1> QED BY <1>1 DEF Done, Goto, TypeOK

LEMMA FailTyped ==
  ASSUME TypeOK, NEW s \in Sinks, Fail(s)
  PROVE  /\ Done(s)
         /\ failed' = failed \cup {s} /\ failed' \subseteq Sinks
         /\ lock' \in [Processes -> Sinks \cup {Nobody}]
         /\ UNCHANGED <<own, count, mem>>
  <1>1. ProcessOf[s] \in Processes
    BY LayoutTypes DEF TypeOK
  <1> QED BY <1>1 DEF Fail, Unlock, TypeOK

(* The registry of a sink after reading the file.                          *)
LEMMA AbsorbTyped ==
  ASSUME TypeOK, NEW s \in Sinks, registry' = [registry EXCEPT ![s] = Absorbed(@)]
  PROVE  /\ registry' \in [Sinks -> Registries]
         /\ \A t \in Sinks : Cardinality(Registered(registry'[t])) <= MaxChains
         /\ registry'[s] = Absorbed(registry[s])
         /\ \A t \in Sinks \ {s} : registry'[t] = registry[t]
  <1>1. \A t \in Sinks : Fits(registry[t])
    BY DEF TypeOK, Fits, Registries
  <1>2. Fits(Absorbed(registry[s]))
    BY <1>1, AbsorbedFits, LayoutTypes DEF TypeOK
  <1>3. /\ registry'[s] = Absorbed(registry[s])
        /\ \A t \in Sinks \ {s} : registry'[t] = registry[t]
    BY DEF TypeOK
  <1>4. \A t \in Sinks : Fits(registry'[t])
    BY <1>1, <1>2, <1>3
  <1>5. registry' = [t \in Sinks |-> registry'[t]]
    BY DEF TypeOK
  <1> QED BY <1>3, <1>4, <1>5 DEF Fits

(* The next chain of a session, and its registration.                      *)
LEMMA RecordTyped ==
  ASSUME TypeOK, NEW s \in Sinks, NEW by \in {s, RequestOf[s]}, Record(s, by)
  PROVE  /\ count[s] < MaxEvents /\ count' = [count EXCEPT ![s] = @ + 1]
         /\ own' \in [Sinks -> Seq(Envelopes)]
         /\ \A t \in Sinks \ {s} : own'[t] = own[t]
         /\ own'[s] \in {own[s], Append(own[s], <<by, Len(own[s])>>)}
         /\ IsPrefix(own[s], own'[s])
         /\ own[s] # <<>> => own'[s] # <<>>
  <1>1. RequestOf[s] \in Requests /\ MaxEvents \in Nat
    BY LayoutTypes DEF TypeOK
  <1>2. own[s] \in Seq(Envelopes) /\ Len(own[s]) \in Nat
    BY LenProperties DEF TypeOK
  <1>3. <<by, Len(own[s])>> \in Envelopes
    BY <1>1, <1>2 DEF Envelopes
  <1>4. /\ Append(own[s], <<by, Len(own[s])>>) \in Seq(Envelopes)
        /\ Append(own[s], <<by, Len(own[s])>>) # <<>>
    BY <1>2, <1>3, AppendProperties
  <1>5. /\ IsPrefix(own[s], own[s])
        /\ IsPrefix(own[s], Append(own[s], <<by, Len(own[s])>>))
    BY <1>2, <1>3, PrefixSelf, PrefixOfAppend
  <1>6. CASE own' = own
    BY <1>1, <1>2, <1>5, <1>6 DEF Record, TypeOK
  <1>7. CASE own' = [own EXCEPT ![s] = Append(@, <<by, Len(@)>>)]
    <2>1. own'[s] = Append(own[s], <<by, Len(own[s])>>)
      BY <1>7 DEF TypeOK
    <2>2. own' \in [Sinks -> Seq(Envelopes)]
      BY <1>4, <1>7 DEF TypeOK
    <2>3. \A t \in Sinks \ {s} : own'[t] = own[t]
      BY <1>7 DEF TypeOK
    <2> QED BY <1>1, <1>4, <1>5, <2>1, <2>2, <2>3 DEF Record, TypeOK
  <1> QED BY <1>6, <1>7 DEF Record

(* A record that is not refused: the event refers to the end of the chain, *)
(* which is registered.                                                    *)
LEMMA RecordedTyped ==
  ASSUME TypeOK, NEW s \in Sinks, NEW by \in {s, RequestOf[s]}, Record(s, by),
         own[s] # <<>>, Retains(registry[s], RequestOf[s], own'[s])
  PROVE  \E e \in Events :
           /\ e.by = s /\ e.n = count[s] + 1 /\ e.envelope \in Range(own'[s])
           /\ proposal' = [proposal EXCEPT ![s] = Append(mem[s], e)]
           /\ proposal' \in [Sinks -> Seq(Events)]
           /\ pc' = [pc EXCEPT ![s] = "persist"]
           /\ registry' = [registry EXCEPT ![s][RequestOf[s]] = own'[s]]
           /\ registry' \in [Sinks -> Registries]
           /\ \A t \in Sinks : Cardinality(Registered(registry'[t])) <= MaxChains
           /\ UNCHANGED failed
  <1> DEFINE e == [by |-> s, n |-> count'[s], envelope |-> Last(own'[s])]
             r == RequestOf[s]
             reg == registry[s]
  <1>1. r \in Requests /\ MaxChains \in Nat
    BY LayoutTypes DEF TypeOK
  <1>2. /\ own'[s] \in Seq(Envelopes) /\ own'[s] # <<>>
        /\ count' = [count EXCEPT ![s] = @ + 1]
    BY RecordTyped
  <1>3. count'[s] = count[s] + 1 /\ count'[s] \in Nat
    BY <1>2, LayoutTypes DEF TypeOK
  <1>4. Last(own'[s]) \in Range(own'[s]) /\ Last(own'[s]) \in Envelopes
    <2>1. /\ Len(own'[s]) \in Nat \ {0} /\ DOMAIN own'[s] = 1..Len(own'[s])
          /\ Len(own'[s]) \in DOMAIN own'[s]
      BY <1>2, LenProperties, EmptySeq
    <2> QED BY <1>2, <2>1, ElementOfSeq DEF Last, Range
  <1>5. e \in Events
    BY <1>3, <1>4 DEF Events
  <1>6. /\ proposal' = [proposal EXCEPT ![s] = Append(mem[s], e)]
        /\ pc' = [pc EXCEPT ![s] = "persist"]
        /\ registry' = [registry EXCEPT ![s][RequestOf[s]] = own'[s]]
        /\ UNCHANGED failed
    BY DEF Record, Goto
  <1>7. proposal' \in [Sinks -> Seq(Events)]
    <2>1. Append(mem[s], e) \in Seq(Events)
      BY <1>5, AppendProperties DEF TypeOK
    <2> HIDE DEF e
    <2> QED BY <1>6, <2>1 DEF TypeOK
  <1>8. /\ registry' \in [Sinks -> Registries]
        /\ registry'[s] = [reg EXCEPT ![r] = own'[s]]
        /\ \A t \in Sinks \ {s} : registry'[t] = registry[t]
    BY <1>1, <1>2, <1>6 DEF TypeOK, Registries
  <1>9. Cardinality(Registered(registry'[s])) <= MaxChains
    <2>1. Registered(registry'[s]) = Registered(reg) \cup {r}
      BY <1>1, <1>2, <1>8 DEF Registered, TypeOK
    <2>2. IsFiniteSet(Registered(reg)) /\ Cardinality(Registered(reg)) <= MaxChains
      <3>1. Registered(reg) \subseteq Requests
        BY DEF Registered
      <3> QED BY <3>1, FiniteAssumption, FS_Subset DEF TypeOK
    <2>3. /\ Cardinality(Registered(reg) \cup {r}) =
               IF r \in Registered(reg) THEN Cardinality(Registered(reg))
               ELSE Cardinality(Registered(reg)) + 1
          /\ Cardinality(Registered(reg)) \in Nat
      BY <2>2, FS_AddElement, FS_CardinalityType
    <2>4. r \notin Registered(reg) => Cardinality(Registered(reg)) < MaxChains
      BY <1>1 DEF Registered, Retains
    <2> QED BY <1>1, <2>1, <2>2, <2>3, <2>4
  <1>10. \A t \in Sinks : Cardinality(Registered(registry'[t])) <= MaxChains
    BY <1>8, <1>9 DEF TypeOK
  <1>11. e.by = s /\ e.n = count[s] + 1 /\ e.envelope \in Range(own'[s])
    BY <1>3, <1>4
  <1> HIDE DEF e
  <1> QED BY <1>5, <1>6, <1>7, <1>8, <1>10, <1>11

LEMMA RefusedTyped ==
  ASSUME TypeOK, NEW s \in Sinks, NEW by \in {s, RequestOf[s]}, Record(s, by),
         ~Retains(registry[s], RequestOf[s], own'[s])
  PROVE  failed' = failed \cup {s} /\ UNCHANGED <<pc, registry, proposal>>
  BY DEF Record

-------------------------------------------------------------------------------
(* StoreInv is inductive, one conjunct after the other.                    *)

LEMMA PartlyGood ==
  ASSUME TypeOK, Copies, NEW s \in Sinks, PartlyWritten(s)
  PROVE  stored' \in Seq(Lines) /\ Good(stored') /\ torn' \in BOOLEAN
  <1>1. next[s] \in Seq(Lines) /\ Len(next[s]) \in Nat /\ layout \in Layouts
    BY LenProperties DEF TypeOK
  <1>2. PICK k \in 0..(Len(next[s]) - 1) : stored' = SubSeq(next[s], 1, k)
    BY DEF PartlyWritten
  <1>3. k \in 0..Len(next[s])
    BY <1>1
  <1>4. Good(next[s])
    BY DEF Copies
  <1> QED BY <1>1, <1>2, <1>3, <1>4, FirstLines, GoodFront DEF PartlyWritten

LEMMA FileStep ==
  ASSUME StoreInv, [Next]_vars
  PROVE  stored' \in Seq(Lines) /\ Good(stored') /\ torn' \in BOOLEAN
  <1> USE DEF StoreInv
  <1>1. CASE UNCHANGED file
    BY <1>1 DEF file, TypeOK
  <1>2. ASSUME NEW s \in Sinks, OpenFile(s), ~UNCHANGED file
        PROVE  stored' \in Seq(Lines) /\ Good(stored') /\ torn' \in BOOLEAN
    <2>1. stored' = <<>> /\ torn' = FALSE
      BY <1>2 DEF OpenFile
    <2>2. <<>> \in Seq(Lines) /\ Good(<<>>)
      BY EmptySeq, GoodEmpty DEF TypeOK
    <2>3. Good(stored')
      BY <2>1, <2>2, Zenon
    <2> QED BY <2>1, <2>2, <2>3
  <1>3. ASSUME NEW s \in Sinks, WriteFile(s)
        PROVE  stored' \in Seq(Lines) /\ Good(stored') /\ torn' \in BOOLEAN
    <2>1. CASE stored' = next[s] /\ UNCHANGED torn
      BY <2>1 DEF TypeOK, Copies
    <2>2. CASE PartlyWritten(s)
      BY <2>2, PartlyGood
    <2> QED BY <1>3, <2>1, <2>2 DEF WriteFile
  <1>4. ASSUME NEW p \in Processes, Crash(p), ~UNCHANGED file
        PROVE  stored' \in Seq(Lines) /\ Good(stored') /\ torn' \in BOOLEAN
    <2>1. writer \in Sinks /\ PartlyWritten(writer)
      BY <1>4 DEF Crash, TypeOK
    <2> QED BY <2>1, PartlyGood
  <1>5. ASSUME NEW s \in Sinks, NEW by, Record(s, by)
        PROVE  UNCHANGED file
    BY <1>5 DEF Record
  <1>6. ASSUME NEW s \in Sinks,
               ReadExisting(s) \/ ReadFails(s) \/ Readback(s) \/ Confirm(s)
        PROVE  UNCHANGED file
    BY <1>6 DEF ReadExisting, ReadFails, Readback, Confirm
  <1>7. CASE UNCHANGED vars
    BY <1>1, <1>7 DEF vars
  <1>8. CASE Next
    BY <1>1, <1>2, <1>3, <1>4, <1>5, <1>6, <1>8 DEF Next, Step
  <1> QED BY <1>7, <1>8

(* The registries: they keep their capacity and their chains only grow.    *)
LEMMA RegistryStep ==
  ASSUME StoreInv, [Next]_vars
  PROVE  /\ registry' \in [Sinks -> Registries]
         /\ \A t \in Sinks : Cardinality(Registered(registry'[t])) <= MaxChains
         /\ \A t \in Sinks, r \in Requests : IsPrefix(registry[t][r], registry'[t][r])
  <1> USE DEF StoreInv
  <1>0. \A t \in Sinks : /\ Fits(registry[t])
                         /\ \A r \in Requests : registry[t][r] \in Seq(Envelopes)
    BY DEF TypeOK, Fits, Registries
  <1>1. CASE UNCHANGED registry
    BY <1>0, <1>1, PrefixSelf DEF TypeOK, Registries
  <1>2. ASSUME NEW s \in Sinks, registry' = [registry EXCEPT ![s] = Absorbed(@)]
        PROVE  /\ registry' \in [Sinks -> Registries]
               /\ \A t \in Sinks : Cardinality(Registered(registry'[t])) <= MaxChains
               /\ \A t \in Sinks, r \in Requests :
                    IsPrefix(registry[t][r], registry'[t][r])
    <2>1. \A r \in Requests : IsPrefix(registry[s][r], Absorbed(registry[s])[r])
      BY <1>0, AbsorbedChain, LayoutTypes DEF TypeOK
    <2>2. \A t \in Sinks, r \in Requests : IsPrefix(registry[t][r], registry[t][r])
      BY <1>0, PrefixSelf
    <2> QED BY <1>2, <2>1, <2>2, AbsorbTyped
  <1>3. ASSUME NEW s \in Sinks, NEW by \in {s, RequestOf[s]}, Record(s, by),
               Retains(registry[s], RequestOf[s], own'[s])
        PROVE  /\ registry' \in [Sinks -> Registries]
               /\ \A t \in Sinks : Cardinality(Registered(registry'[t])) <= MaxChains
               /\ \A t \in Sinks, r \in Requests :
                    IsPrefix(registry[t][r], registry'[t][r])
    <2>1. /\ registry' = [registry EXCEPT ![s][RequestOf[s]] = own'[s]]
          /\ registry' \in [Sinks -> Registries]
          /\ \A t \in Sinks : Cardinality(Registered(registry'[t])) <= MaxChains
      BY <1>3, RecordedTyped DEF Registers
    <2>2. IsPrefix(registry[s][RequestOf[s]], own'[s])
      BY <1>3 DEF Retains
    <2>3. \A t \in Sinks, r \in Requests : IsPrefix(registry[t][r], registry[t][r])
      BY <1>0, PrefixSelf
    <2>4. \A t \in Sinks, r \in Requests :
            registry'[t][r] = IF t = s /\ r = RequestOf[s] THEN own'[s] ELSE registry[t][r]
      BY <2>1 DEF TypeOK
    <2>5. ASSUME NEW t \in Sinks, NEW r \in Requests
          PROVE  IsPrefix(registry[t][r], registry'[t][r])
      <3>1. CASE t = s /\ r = RequestOf[s]
        <4>1. registry'[t][r] = own'[s]
          BY <2>4, <3>1
        <4> QED BY <2>2, <3>1, <4>1
      <3>2. CASE ~(t = s /\ r = RequestOf[s])
        <4>1. registry'[t][r] = registry[t][r]
          BY <2>4, <3>2
        <4> QED BY <2>3, <4>1
      <3> QED BY <3>1, <3>2
    <2> QED BY <2>1, <2>5
  <1>4. ASSUME NEW s \in Sinks, NEW by \in {s, RequestOf[s]}, Record(s, by),
               ~Retains(registry[s], RequestOf[s], own'[s])
        PROVE  UNCHANGED registry
    BY <1>4, RefusedTyped
  <1>5. CASE UNCHANGED vars
    BY <1>1, <1>5 DEF vars
  <1>6. ASSUME NEW s \in Sinks, Step(s)
        PROVE  UNCHANGED registry \/ registry' = [registry EXCEPT ![s] = Absorbed(@)]
    BY <1>6 DEF Step, ReadExisting, ReadFails, OpenFile, WriteFile, Readback, Confirm
  <1>7. ASSUME NEW p \in Processes, Crash(p)
        PROVE  UNCHANGED registry
    BY <1>7 DEF Crash
  <1> QED BY <1>1, <1>2, <1>3, <1>4, <1>5, <1>6, <1>7 DEF Next

(* What a sink is about to write.                                          *)
LEMMA CopyStep ==
  ASSUME StoreInv, [Next]_vars
  PROVE  next' \in [Sinks -> Seq(Lines)] /\ \A t \in Sinks : Good(next'[t])
  <1> USE DEF StoreInv
  <1>0. \A t \in Sinks : Good(next[t])
    BY DEF Copies
  <1>1. CASE UNCHANGED next
    BY <1>0, <1>1 DEF TypeOK
  <1>2. ASSUME NEW s \in Sinks, Done(s)
        PROVE  next' \in [Sinks -> Seq(Lines)] /\ \A t \in Sinks : Good(next'[t])
    <2>1. Good(<<>>)
      BY GoodEmpty DEF TypeOK
    <2>2. Good(next'[s])
      <3>1. next'[s] = <<>>
        BY <1>2, DoneTyped
      <3> QED BY <2>1, <3>1, Zenon
    <2> QED BY <1>0, <1>2, <2>2, DoneTyped
  <1>3. ASSUME NEW s \in Sinks, ReadExisting(s), ~Done(s)
        PROVE  next' \in [Sinks -> Seq(Lines)] /\ \A t \in Sinks : Good(next'[t])
    <2> DEFINE line == Snapshot(s, Absorbed(registry[s]))
    <2>1. registry'[s] = Absorbed(registry[s])
      BY <1>3, AbsorbTyped DEF ReadExisting
    <2>2. /\ Readable(registry[s]) /\ AppendOnly(s) /\ Len(stored) < MaxLines
          /\ next' = [next EXCEPT ![s] = Append(stored, line)]
      BY <1>3, <2>1 DEF ReadExisting, Fail
    <2>3. pc[s] \in Stages
      BY <1>3 DEF ReadExisting, Enter, Stages
    <2>4. Good(Append(stored, line))
      BY <2>2, <2>3, GoodAppended
    <2>5. line \in Lines
      BY SnapshotTyped
    <2> HIDE DEF line
    <2>6. Append(stored, line) \in Seq(Lines)
      BY <2>5, AppendProperties DEF TypeOK
    <2> QED BY <1>0, <2>2, <2>4, <2>6 DEF TypeOK
  <1>4. CASE UNCHANGED vars
    BY <1>1, <1>4 DEF vars
  <1>5. ASSUME NEW s \in Sinks, Step(s)
        PROVE  UNCHANGED next \/ Done(s) \/ ReadExisting(s)
    BY <1>5 DEF Step, ReadFails, OpenFile, WriteFile, Readback, Confirm, Fail
  <1>6. ASSUME NEW s \in Sinks, NEW by, Record(s, by)
        PROVE  UNCHANGED next
    BY <1>6 DEF Record
  <1>7. ASSUME NEW p \in Processes, Crash(p)
        PROVE  UNCHANGED next
    BY <1>7 DEF Crash
  <1> QED BY <1>1, <1>2, <1>3, <1>4, <1>5, <1>6, <1>7 DEF Next

(* The mutexes, the open file and the stages of the sinks.                 *)
LEMMA LockStep ==
  ASSUME StoreInv, [Next]_vars
  PROVE  /\ Locked'
         /\ pc' \in [Sinks -> {"idle", "persist", "open", "write", "readback",
                               "confirm", "dead"}]
         /\ lock' \in [Processes -> Sinks \cup {Nobody}]
         /\ writer' \in Sinks \cup {Nobody}
  <1> DEFINE Typed == /\ pc' \in [Sinks -> {"idle", "persist", "open", "write",
                                           "readback", "confirm", "dead"}]
                      /\ lock' \in [Processes -> Sinks \cup {Nobody}]
                      /\ writer' \in Sinks \cup {Nobody}
             Kept == \A t \in Sinks :
                       /\ pc'[t] \in Holding <=> lock'[ProcessOf[t]] = t
                       /\ pc'[t] = "write" <=> writer' = t
  <1> USE DEF StoreInv
  <1>0. /\ Nobody \notin Sinks /\ ProcessOf \in [Sinks -> Processes]
        /\ pc \in [Sinks -> {"idle", "persist", "open", "write", "readback",
                             "confirm", "dead"}]
        /\ lock \in [Processes -> Sinks \cup {Nobody}]
        /\ writer \in Sinks \cup {Nobody}
        /\ \A t \in Sinks : /\ pc[t] \in Holding <=> lock[ProcessOf[t]] = t
                            /\ pc[t] = "write" <=> writer = t
    BY LayoutTypes DEF TypeOK, Locked
  <1>1. SUFFICES Typed /\ Kept
    BY LayoutFixed DEF Locked, Holding
  <1>2. ASSUME NEW s \in Sinks, NEW by, Record(s, by)
        PROVE  Typed /\ Kept
    <2>1. pc[s] = "idle" /\ UNCHANGED <<lock, writer>>
      BY <1>2 DEF Record, file
    <2>2. pc' = pc \/ pc' = [pc EXCEPT ![s] = "persist"]
      BY <1>2 DEF Record, Goto
    <2> QED BY <1>0, <2>1, <2>2 DEF Holding
  <1>3. ASSUME NEW s \in Sinks, Fail(s), UNCHANGED writer, pc[s] # "write"
        PROVE  Typed /\ Kept
    <2>1. /\ pc' = [pc EXCEPT ![s] = "idle"]
          /\ lock' = [lock EXCEPT ![ProcessOf[s]] = IF @ = s THEN Nobody ELSE @]
      BY <1>3 DEF Fail, Done, Goto, Unlock
    <2> QED BY <1>0, <1>3, <2>1 DEF Holding
  <1>4. ASSUME NEW s \in Sinks, ReadExisting(s), ~Fail(s)
        PROVE  Typed /\ Kept
    <2>1. /\ pc[s] = "persist" /\ lock[ProcessOf[s]] = Nobody
          /\ pc' = [pc EXCEPT ![s] = "open"]
          /\ lock' = [lock EXCEPT ![ProcessOf[s]] = s]
          /\ UNCHANGED writer
      BY <1>4 DEF ReadExisting, Enter, Goto, file
    <2> QED BY <1>0, <2>1 DEF Holding
  <1>5. ASSUME NEW s \in Sinks, OpenFile(s), ~Fail(s)
        PROVE  Typed /\ Kept
    <2>1. /\ pc[s] = "open" /\ writer = Nobody /\ writer' = s
          /\ pc' = [pc EXCEPT ![s] = "write"] /\ UNCHANGED lock
      BY <1>5 DEF OpenFile, Goto
    <2> QED BY <1>0, <2>1 DEF Holding
  <1>6. ASSUME NEW s \in Sinks, WriteFile(s)
        PROVE  Typed /\ Kept
    <2>1. pc[s] = "write" /\ writer' = Nobody
      BY <1>6 DEF WriteFile
    <2>2. \/ pc' = [pc EXCEPT ![s] = "readback"] /\ UNCHANGED lock
          \/ /\ pc' = [pc EXCEPT ![s] = "idle"]
             /\ lock' = [lock EXCEPT ![ProcessOf[s]] = IF @ = s THEN Nobody ELSE @]
      BY <1>6 DEF WriteFile, Fail, Done, Goto, Unlock
    <2>3. writer = s
      BY <1>0, <2>1
    <2> QED BY <1>0, <2>1, <2>2, <2>3 DEF Holding
  <1>7. ASSUME NEW s \in Sinks, Readback(s), ~Fail(s)
        PROVE  Typed /\ Kept
    <2>1. /\ pc[s] = "readback" /\ UNCHANGED writer
          /\ pc' = [pc EXCEPT ![s] = "confirm"]
          /\ lock' = [lock EXCEPT ![ProcessOf[s]] = IF @ = s THEN Nobody ELSE @]
      BY <1>7 DEF Readback, Goto, Unlock, file
    <2> QED BY <1>0, <2>1 DEF Holding
  <1>8. ASSUME NEW s \in Sinks, Confirm(s), ~Fail(s)
        PROVE  Typed /\ Kept
    <2>1. /\ pc[s] = "confirm" /\ UNCHANGED <<lock, writer>>
          /\ pc' = [pc EXCEPT ![s] = "idle"]
      BY <1>8 DEF Confirm, Done, Goto, file
    <2> QED BY <1>0, <2>1 DEF Holding
  <1>9. ASSUME NEW p \in Processes, Crash(p)
        PROVE  Typed /\ Kept
    <2>1. /\ pc' = [s \in Sinks |-> IF ProcessOf[s] = p THEN "dead" ELSE pc[s]]
          /\ lock' = [lock EXCEPT ![p] = Nobody]
          /\ writer' = IF writer # Nobody /\ ProcessOf[writer] = p
                       THEN Nobody ELSE writer
      BY <1>9 DEF Crash, file
    <2> QED BY <1>0, <2>1 DEF Holding
  <1>10. CASE UNCHANGED vars
    <2>1. UNCHANGED <<pc, lock, writer>>
      BY <1>10 DEF vars, file
    <2> QED BY <1>0, <2>1
  <1>11. ASSUME NEW s \in Sinks, Fail(s), Step(s), ~WriteFile(s)
         PROVE  UNCHANGED writer /\ pc[s] # "write"
    <2>1. pc'[s] = "idle"
      BY <1>0, <1>11 DEF Fail, Done, Goto
    <2>2. CASE OpenFile(s)
      <3>1. pc[s] = "open" /\ (UNCHANGED file \/ pc' = [pc EXCEPT ![s] = "write"])
        BY <2>2 DEF OpenFile, Goto
      <3> QED BY <1>0, <2>1, <3>1 DEF file
    <2>3. CASE ReadExisting(s) \/ ReadFails(s) \/ Readback(s) \/ Confirm(s)
      BY <2>3 DEF ReadExisting, Enter, ReadFails, Readback, Confirm, file
    <2> QED BY <1>11, <2>2, <2>3 DEF Step
  <1>12. ASSUME NEW s \in Sinks, Step(s)
         PROVE  Typed /\ Kept
    <2> HIDE DEF Typed, Kept
    <2>1. CASE WriteFile(s)
      BY <1>6, <2>1
    <2>2. CASE ~WriteFile(s) /\ Fail(s)
      BY <1>3, <1>11, <1>12, <2>2
    <2>3. CASE ~WriteFile(s) /\ ~Fail(s)
      <3>1. ~ReadFails(s)
        BY <2>3 DEF ReadFails
      <3> QED BY <1>4, <1>5, <1>7, <1>8, <1>12, <2>3, <3>1 DEF Step
    <2> QED BY <2>1, <2>2, <2>3
  <1> HIDE DEF Typed, Kept
  <1> QED BY <1>2, <1>9, <1>10, <1>12 DEF Next

(* The chains of the sessions and the events they record.                  *)
LEMMA SessionStep ==
  ASSUME StoreInv, [Next]_vars
  PROVE  /\ own' \in [Sinks -> Seq(Envelopes)] /\ \A t \in Sinks : own'[t] # <<>>
         /\ count' \in [Sinks -> 0..MaxEvents]
         /\ mem' \in [Sinks -> Seq(Events)] /\ proposal' \in [Sinks -> Seq(Events)]
         /\ failed' \subseteq Sinks
  <1> USE DEF StoreInv
  <1>0. /\ own \in [Sinks -> Seq(Envelopes)] /\ \A t \in Sinks : own[t] # <<>>
        /\ count \in [Sinks -> 0..MaxEvents] /\ MaxEvents \in Nat
        /\ mem \in [Sinks -> Seq(Events)] /\ proposal \in [Sinks -> Seq(Events)]
        /\ failed \subseteq Sinks
    BY LayoutTypes DEF TypeOK, Registers
  <1>1. CASE UNCHANGED session
    BY <1>0, <1>1 DEF session
  <1>2. ASSUME NEW s \in Sinks, NEW by \in {s, RequestOf[s]}, Record(s, by)
        PROVE  /\ own' \in [Sinks -> Seq(Envelopes)] /\ \A t \in Sinks : own'[t] # <<>>
               /\ count' \in [Sinks -> 0..MaxEvents]
               /\ mem' \in [Sinks -> Seq(Events)]
               /\ proposal' \in [Sinks -> Seq(Events)]
               /\ failed' \subseteq Sinks
    <2>1. own' \in [Sinks -> Seq(Envelopes)] /\ \A t \in Sinks : own'[t] # <<>>
      BY <1>0, <1>2, RecordTyped
    <2>2. count' \in [Sinks -> 0..MaxEvents]
      <3>1. count[s] < MaxEvents /\ count' = [count EXCEPT ![s] = @ + 1]
        BY <1>2, RecordTyped
      <3>2. count[s] + 1 \in 0..MaxEvents
        BY <1>0, <3>1
      <3> QED BY <1>0, <3>1, <3>2
    <2>3. mem' = mem
      BY <1>2 DEF Record
    <2>4. CASE Retains(registry[s], RequestOf[s], own'[s])
      BY <1>0, <1>2, <2>1, <2>2, <2>3, <2>4, RecordedTyped
    <2>5. CASE ~Retains(registry[s], RequestOf[s], own'[s])
      BY <1>0, <1>2, <2>1, <2>2, <2>3, <2>5, RefusedTyped
    <2> QED BY <2>4, <2>5
  <1>3. ASSUME NEW s \in Sinks, Fail(s)
        PROVE  /\ UNCHANGED <<own, count, mem>> /\ failed' \subseteq Sinks
               /\ proposal' \in [Sinks -> Seq(Events)]
    BY <1>3, FailTyped, DoneTyped
  <1>4. ASSUME NEW s \in Sinks, Confirm(s), ~Fail(s)
        PROVE  /\ UNCHANGED <<own, count, failed>>
               /\ mem' \in [Sinks -> Seq(Events)]
               /\ proposal' \in [Sinks -> Seq(Events)]
    <2>1. /\ UNCHANGED <<own, count, failed>> /\ Done(s)
          /\ mem' = [mem EXCEPT ![s] = proposal[s]]
      BY <1>4 DEF Confirm
    <2> QED BY <1>0, <2>1, DoneTyped
  <1>5. ASSUME NEW s \in Sinks, Step(s)
        PROVE  UNCHANGED session \/ Fail(s) \/ Confirm(s)
    BY <1>5 DEF Step, ReadExisting, ReadFails, OpenFile, WriteFile, Readback
  <1>6. ASSUME NEW p \in Processes, Crash(p)
        PROVE  UNCHANGED session
    BY <1>6 DEF Crash
  <1>7. CASE UNCHANGED vars
    BY <1>1, <1>7 DEF vars
  <1> QED BY <1>0, <1>1, <1>2, <1>3, <1>4, <1>5, <1>6, <1>7 DEF Next

(* Events stay resolved by a chain that grows.                             *)
LEMMA RefersGrows ==
  ASSUME NEW es, NEW c \in Seq(Envelopes), NEW d \in Seq(Envelopes),
         Refers(es, c), IsPrefix(c, d)
  PROVE  Refers(es, d)
  BY RangeOfPrefix DEF Refers

LEMMA RefersEmpty == \A c : Refers(<<>>, c)
  BY DEF Refers, Range

LEMMA RegisterStep ==
  ASSUME StoreInv, [Next]_vars
  PROVE  \A t \in Sinks :
           /\ Refers(mem'[t], registry'[t][RequestOf[t]])
           /\ Refers(proposal'[t], registry'[t][RequestOf[t]])
           /\ pc'[t] \in Stages => registry'[t][RequestOf[t]] # <<>>
  <1> USE DEF StoreInv
  <1> DEFINE old(t) == registry[t][RequestOf[t]]
             new(t) == registry'[t][RequestOf[t]]
  <1>0. \A t \in Sinks : /\ old(t) \in Seq(Envelopes) /\ new(t) \in Seq(Envelopes)
                         /\ IsPrefix(old(t), new(t))
    <2>1. \A t \in Sinks : RequestOf[t] \in Requests
      BY LayoutTypes DEF TypeOK
    <2> QED BY <2>1, RegistryStep DEF TypeOK, Registries
  <1>1. \A t \in Sinks : /\ Refers(mem[t], new(t)) /\ Refers(proposal[t], new(t))
                         /\ pc[t] \in Stages => new(t) # <<>>
    <2>1. \A t \in Sinks : /\ Refers(mem[t], old(t)) /\ Refers(proposal[t], old(t))
                           /\ pc[t] \in Stages => old(t) # <<>>
      BY DEF Registers
    <2>2. \A t \in Sinks : old(t) # <<>> => new(t) # <<>>
      <3> SUFFICES ASSUME NEW t \in Sinks, old(t) # <<>> PROVE new(t) # <<>>
        OBVIOUS
      <3>1. Len(old(t)) # 0 /\ Len(old(t)) <= Len(new(t))
        BY <1>0, EmptySeq DEF IsPrefix
      <3>2. Len(old(t)) \in Nat /\ Len(new(t)) \in Nat /\ Len(new(t)) # 0
        BY <1>0, <3>1, LenProperties
      <3> QED BY <3>2, EmptySeq
    <2> HIDE DEF old, new
    <2>3. ASSUME NEW t \in Sinks
          PROVE  Refers(mem[t], new(t)) /\ Refers(proposal[t], new(t))
      BY <1>0, <2>1, RefersGrows
    <2> QED BY <2>1, <2>2, <2>3
  <1>2. /\ pc \in [Sinks -> {"idle", "persist", "open", "write", "readback",
                             "confirm", "dead"}]
        /\ mem \in [Sinks -> Seq(Events)] /\ proposal \in [Sinks -> Seq(Events)]
    BY DEF TypeOK
  <1> DEFINE Ok(t) == /\ Refers(mem'[t], new(t)) /\ Refers(proposal'[t], new(t))
                      /\ pc'[t] \in Stages => new(t) # <<>>
  <1>3. ASSUME NEW s \in Sinks, Done(s), mem' = mem \/ mem' = [mem EXCEPT ![s] = proposal[s]]
        PROVE  \A t \in Sinks : Ok(t)
    <2>1. /\ pc' = [pc EXCEPT ![s] = "idle"] /\ proposal'[s] = <<>>
          /\ \A t \in Sinks \ {s} : proposal'[t] = proposal[t]
      BY <1>3, DoneTyped
    <2> HIDE DEF new
    <2>2. Ok(s)
      <3>1. mem'[s] = mem[s] \/ mem'[s] = proposal[s]
        BY <1>2, <1>3
      <3>2. pc'[s] \notin Stages
        BY <1>2, <2>1 DEF Stages
      <3>3. Refers(proposal'[s], new(s))
        BY <2>1, RefersEmpty, Zenon
      <3> QED BY <1>1, <3>1, <3>2, <3>3
    <2>3. ASSUME NEW t \in Sinks \ {s} PROVE Ok(t)
      <3>1. mem'[t] = mem[t] /\ pc'[t] = pc[t] /\ proposal'[t] = proposal[t]
        BY <1>2, <1>3, <2>1
      <3> QED BY <1>1, <3>1
    <2> HIDE DEF Ok
    <2> QED BY <2>2, <2>3
  <1>4. ASSUME NEW s \in Sinks, NEW stage \in Stages, pc[s] \in Stages,
               pc' = [pc EXCEPT ![s] = stage], UNCHANGED <<mem, proposal>>
        PROVE  \A t \in Sinks : Ok(t)
    <2> HIDE DEF new
    <2> QED BY <1>1, <1>2, <1>4
  <1>5. ASSUME mem' = mem, proposal' = proposal,
               \A t \in Sinks : pc'[t] \in Stages => pc[t] \in Stages
        PROVE  \A t \in Sinks : Ok(t)
    <2> SUFFICES ASSUME NEW t \in Sinks PROVE Ok(t)
      OBVIOUS
    <2> HIDE DEF new
    <2>1. mem'[t] = mem[t] /\ proposal'[t] = proposal[t]
      BY <1>5
    <2> QED BY <1>1, <1>5, <2>1
  <1>6. ASSUME NEW s \in Sinks, NEW by \in {s, RequestOf[s]}, Record(s, by),
               Retains(registry[s], RequestOf[s], own'[s])
        PROVE  \A t \in Sinks : Ok(t)
    <2>1. PICK e \in Events :
             /\ e.envelope \in Range(own'[s])
             /\ proposal' = [proposal EXCEPT ![s] = Append(mem[s], e)]
             /\ pc' = [pc EXCEPT ![s] = "persist"]
             /\ registry' = [registry EXCEPT ![s][RequestOf[s]] = own'[s]]
      BY <1>6, RecordedTyped DEF Registers
    <2>2. mem' = mem
      BY <1>6 DEF Record
    <2>3. new(s) = own'[s] /\ own'[s] # <<>>
      <3>1. RequestOf[s] \in Requests
        BY LayoutTypes DEF TypeOK
      <3>2. own'[s] # <<>>
        BY <1>6, RecordTyped DEF Registers
      <3> QED BY <2>1, <3>1, <3>2 DEF TypeOK
    <2> HIDE DEF new
    <2>4. Refers(proposal'[s], new(s))
      <3>1. proposal'[s] = Append(mem[s], e) /\ mem[s] \in Seq(Events)
        BY <1>2, <2>1
      <3>2. Range(proposal'[s]) = Range(mem[s]) \cup {e}
        BY <3>1, RangeOfAppend
      <3> QED BY <1>1, <2>1, <2>3, <3>2 DEF Refers
    <2>5. Ok(s)
      BY <1>1, <2>2, <2>3, <2>4
    <2>6. ASSUME NEW t \in Sinks \ {s} PROVE Ok(t)
      <3>1. mem'[t] = mem[t] /\ pc'[t] = pc[t] /\ proposal'[t] = proposal[t]
        BY <1>2, <2>1, <2>2
      <3> QED BY <1>1, <3>1
    <2> HIDE DEF Ok
    <2> QED BY <2>5, <2>6
  <1>7. ASSUME NEW s \in Sinks, NEW by \in {s, RequestOf[s]}, Record(s, by),
               ~Retains(registry[s], RequestOf[s], own'[s])
        PROVE  UNCHANGED <<pc, mem, proposal>>
    BY <1>7, RefusedTyped DEF Record
  <1>8. ASSUME NEW p \in Processes, Crash(p)
        PROVE  /\ mem' = mem /\ proposal' = proposal
               /\ \A t \in Sinks : pc'[t] \in Stages => pc[t] \in Stages
    BY <1>8 DEF Crash, session, Stages
  <1>9. ASSUME NEW s \in Sinks, Step(s)
        PROVE  \/ Done(s) /\ (mem' = mem \/ mem' = [mem EXCEPT ![s] = proposal[s]])
               \/ /\ pc[s] \in Stages /\ UNCHANGED <<mem, proposal>>
                  /\ \E stage \in Stages : pc' = [pc EXCEPT ![s] = stage]
    BY <1>9 DEF Step, ReadExisting, Enter, ReadFails, OpenFile, WriteFile, Readback,
                Confirm, Fail, Goto, session, Stages
  <1>10. ASSUME UNCHANGED vars
         PROVE  \A t \in Sinks : Ok(t)
    <2>1. /\ mem' = mem /\ proposal' = proposal
          /\ \A t \in Sinks : pc'[t] \in Stages => pc[t] \in Stages
      BY <1>10 DEF vars, session
    <2> QED BY <1>5, <2>1
  <1> HIDE DEF Ok
  <1>11. ASSUME NEW s \in Sinks, Step(s)
         PROVE  \A t \in Sinks : Ok(t)
    BY <1>3, <1>4, <1>9, <1>11
  <1>12. ASSUME NEW s \in Sinks, NEW by \in {s, RequestOf[s]}, Record(s, by)
         PROVE  \A t \in Sinks : Ok(t)
    <2>1. CASE UNCHANGED <<pc, mem, proposal>>
      <3>1. /\ mem' = mem /\ proposal' = proposal
            /\ \A t \in Sinks : pc'[t] \in Stages => pc[t] \in Stages
        BY <2>1
      <3> QED BY <1>5, <3>1
    <2> QED BY <1>6, <1>7, <1>12, <2>1
  <1>13. ASSUME NEW p \in Processes, Crash(p)
         PROVE  \A t \in Sinks : Ok(t)
    BY <1>5, <1>8, <1>13
  <1>14. \A t \in Sinks : Ok(t)
    <2>1. CASE Next
      BY <1>11, <1>12, <1>13, <2>1 DEF Next
    <2> QED BY <1>10, <2>1
  <1> QED BY <1>14 DEF Ok

-------------------------------------------------------------------------------
LEMMA InitStoreInv == Init => StoreInv
  <1> SUFFICES ASSUME Init PROVE StoreInv
    OBVIOUS
  <1>0. layout \in Layouts
    BY DEF Init
  <1>1. /\ Nobody \notin Sinks /\ RequestOf \in [Sinks -> Requests]
        /\ ProcessOf \in [Sinks -> Processes]
        /\ MaxChains \in Nat /\ MaxLines \in Nat /\ MaxEvents \in Nat
    BY <1>0, LayoutTypes
  <1>2. \A s \in Sinks : << <<RequestOf[s], 0>> >> \in Seq(Envelopes)
    BY <1>1 DEF Envelopes
  <1>3. /\ Unregistered \in Registries /\ Registered(Unregistered) = {}
        /\ Cardinality(Registered(Unregistered)) <= MaxChains
    <2>1. Unregistered \in Registries /\ Registered(Unregistered) = {}
      BY EmptySeq DEF Unregistered, Registries, Registered
    <2> QED BY <1>1, <2>1, FS_EmptySet
  <1>4. <<>> \in Seq(Events) /\ <<>> \in Seq(Lines) /\ Len(<<>>) = 0
    BY EmptySeq
  <1>5. TypeOK
    <2>1. registry \in [Sinks -> Registries]
      BY <1>3 DEF Init
    <2>2. \A s \in Sinks : Cardinality(Registered(registry[s])) <= MaxChains
      BY <1>3 DEF Init
    <2>3. own \in [Sinks -> Seq(Envelopes)]
      BY <1>2 DEF Init
    <2>4. mem \in [Sinks -> Seq(Events)] /\ proposal \in [Sinks -> Seq(Events)]
          /\ next \in [Sinks -> Seq(Lines)]
      BY <1>4 DEF Init
    <2>5. /\ stored \in Seq(Lines) /\ Len(stored) <= MaxLines
          /\ torn \in BOOLEAN /\ writer \in Sinks \cup {Nobody} /\ failed \subseteq Sinks
      <3>1. stored = <<>> /\ torn = FALSE /\ writer = Nobody /\ failed = {}
        BY DEF Init
      <3>2. stored \in Seq(Lines) /\ Len(stored) = 0
        BY <1>4, <3>1, Zenon
      <3>3. torn \in BOOLEAN /\ writer \in Sinks \cup {Nobody} /\ failed \subseteq Sinks
        BY <3>1, Zenon
      <3>4. Len(stored) <= MaxLines
        BY <1>1, <3>2
      <3> QED BY <3>2, <3>3, <3>4
    <2>6. /\ pc \in [Sinks -> {"idle", "persist", "open", "write", "readback",
                              "confirm", "dead"}]
          /\ count \in [Sinks -> 0..MaxEvents]
          /\ lock \in [Processes -> Sinks \cup {Nobody}]
      BY <1>1 DEF Init
    <2> QED BY <1>0, <2>1, <2>2, <2>3, <2>4, <2>5, <2>6 DEF TypeOK, Registries
  <1>6. Locked
    BY <1>1 DEF Init, Locked, Holding
  <1>7. Registers
    <2>1. \A s \in Sinks : own[s] # <<>> /\ pc[s] \notin Stages
      BY DEF Init, Stages
    <2>2. \A s \in Sinks : mem[s] = <<>> /\ proposal[s] = <<>>
      BY DEF Init
    <2>3. ASSUME NEW s \in Sinks
          PROVE  /\ Refers(mem[s], registry[s][RequestOf[s]])
                 /\ Refers(proposal[s], registry[s][RequestOf[s]])
      BY <2>2, RefersEmpty, Zenon
    <2> QED BY <2>1, <2>3 DEF Registers
  <1>8. Copies /\ Good(stored)
    <2>1. Good(<<>>)
      BY <1>0, GoodEmpty
    <2>2. stored = <<>> /\ \A s \in Sinks : next[s] = <<>>
      BY DEF Init
    <2> QED BY <2>1, <2>2, Zenon DEF Copies
  <1> QED BY <1>5, <1>6, <1>7, <1>8 DEF StoreInv

LEMMA StoreInvStep ==
  ASSUME StoreInv, [Next]_vars
  PROVE  StoreInv'
  <1>1. TypeOK'
    <2>1. Len(stored') <= MaxLines
      BY FileStep DEF Good
    <2> QED BY <2>1, FileStep, RegistryStep, CopyStep, LockStep, SessionStep, LayoutFixed
            DEF StoreInv, TypeOK, Registries
  <1>2. Registers'
    <2>1. \A s \in Sinks' : /\ Refers(mem'[s], registry'[s][RequestOf[s]'])
                            /\ Refers(proposal'[s], registry'[s][RequestOf[s]'])
                            /\ pc'[s] \in Stages => registry'[s][RequestOf[s]'] # <<>>
      BY RegisterStep, LayoutFixed
    <2>2. \A s \in Sinks' : own'[s] # <<>>
      BY SessionStep, LayoutFixed
    <2> QED BY <2>1, <2>2 DEF Registers, Stages
  <1>3. Good(stored)'
    BY FileStep, LayoutFixed DEF Good, Decodes
  <1>4. Copies'
    BY CopyStep, LayoutFixed DEF Copies, Good, Decodes
  <1> QED BY <1>1, <1>2, <1>3, <1>4, LockStep DEF StoreInv

LEMMA StoreInvAlways == Spec => []StoreInv
  BY InitStoreInv, StoreInvStep, PTL DEF Spec

(* The sinks keep their capacities, the file is a history a new sink       *)
(* accepts and each event of it resolves (retainDiagnosticChain,           *)
(* decodeSnapshot, persistChain), whatever processes do to each other and  *)
(* wherever a write stops.                                                 *)
THEOREM StoredHistory == Spec => []StoreSound
  <1>1. StoreInv => StoreSound
    BY DEF StoreInv, StoreSound, Good, HistoryReadable, EventsResolve, Resolves
  <1> QED BY <1>1, StoreInvAlways, PTL

-------------------------------------------------------------------------------
(* One process: its mutex keeps the sinks apart.                           *)

LEMMA Alone ==
  ASSUME StoreInv, OneProcess, NEW s \in Sinks, pc[s] \in Holding
  PROVE  /\ \A t \in Sinks : pc[t] \in Holding => t = s
         /\ \A t \in Sinks : lock[ProcessOf[t]] = s /\ s # Nobody
         /\ writer \in {s, Nobody}
  <1>1. /\ Nobody \notin Sinks /\ writer \in Sinks \cup {Nobody}
        /\ \A t \in Sinks : /\ pc[t] \in Holding <=> lock[ProcessOf[t]] = t
                            /\ pc[t] = "write" <=> writer = t
    BY LayoutTypes DEF StoreInv, TypeOK, Locked
  <1>2. \A t \in Sinks : lock[ProcessOf[t]] = s
    BY <1>1 DEF OneProcess
  <1> QED BY <1>1, <1>2 DEF Holding

LEMMA Free ==
  ASSUME StoreInv, OneProcess, NEW s \in Sinks, lock[ProcessOf[s]] = Nobody
  PROVE  (\A t \in Sinks : pc[t] \notin Holding) /\ writer = Nobody
  <1>1. /\ Nobody \notin Sinks /\ writer \in Sinks \cup {Nobody}
        /\ \A t \in Sinks : /\ pc[t] \in Holding <=> lock[ProcessOf[t]] = t
                            /\ pc[t] = "write" <=> writer = t
    BY LayoutTypes DEF StoreInv, TypeOK, Locked
  <1>2. \A t \in Sinks : lock[ProcessOf[t]] = Nobody
    BY DEF OneProcess
  <1> QED BY <1>1, <1>2 DEF Holding

(* What the steps of a record do when they fail and when they do not.      *)
LEMMA FailedStep ==
  ASSUME StoreInv, NEW s \in Sinks, Step(s), Fail(s), ~WriteFile(s)
  PROVE  UNCHANGED file /\ pc[s] \in Stages /\ pc[s] # "write"
  <1>0. pc'[s] = "idle"
    BY FailTyped, DoneTyped DEF StoreInv, TypeOK
  <1>1. CASE OpenFile(s)
    <2>1. pc[s] = "open" /\ (UNCHANGED file \/ pc' = [pc EXCEPT ![s] = "write"])
      BY <1>1 DEF OpenFile, Goto
    <2> QED BY <1>0, <2>1 DEF StoreInv, TypeOK, Stages
  <1>2. CASE ReadExisting(s) \/ ReadFails(s) \/ Readback(s) \/ Confirm(s)
    BY <1>2 DEF ReadExisting, Enter, ReadFails, Readback, Confirm, Stages
  <1> QED BY <1>1, <1>2 DEF Step

LEMMA EnteredStep ==
  ASSUME StoreInv, NEW s \in Sinks, ReadExisting(s), ~Fail(s)
  PROVE  /\ pc[s] = "persist" /\ lock[ProcessOf[s]] = Nobody
         /\ pc' = [pc EXCEPT ![s] = "open"]
         /\ Readable(registry[s]) /\ AppendOnly(s) /\ Len(stored) < MaxLines
         /\ next' = [next EXCEPT ![s] =
                       Append(stored, Snapshot(s, Absorbed(registry[s])))]
         /\ registry' = [registry EXCEPT ![s] = Absorbed(@)]
         /\ UNCHANGED <<session, file>>
  <1>1. registry'[s] = Absorbed(registry[s])
    BY AbsorbTyped DEF ReadExisting, StoreInv
  <1> QED BY <1>1 DEF ReadExisting, Enter, Goto

LEMMA OpenedStep ==
  ASSUME NEW s \in Sinks, OpenFile(s), ~Fail(s)
  PROVE  /\ pc[s] = "open" /\ pc' = [pc EXCEPT ![s] = "write"]
         /\ stored' = <<>> /\ torn' = FALSE /\ writer' = s
         /\ UNCHANGED <<session, next, registry>>
  BY DEF OpenFile, Goto

LEMMA WrittenStep ==
  ASSUME NEW s \in Sinks, WriteFile(s)
  PROVE  /\ pc[s] = "write" /\ writer' = Nobody /\ UNCHANGED registry
         /\ \/ /\ stored' = next[s] /\ UNCHANGED torn
               /\ pc' = [pc EXCEPT ![s] = "readback"] /\ UNCHANGED <<session, next>>
            \/ Io /\ stored' = next[s] /\ UNCHANGED torn /\ Fail(s)
            \/ "torn" \in Faults /\ PartlyWritten(s) /\ Fail(s)
  BY DEF WriteFile, Goto

LEMMA ReadStep ==
  ASSUME NEW s \in Sinks, Readback(s), ~Fail(s)
  PROVE  /\ pc[s] = "readback" /\ pc' = [pc EXCEPT ![s] = "confirm"]
         /\ UNCHANGED <<session, next, registry, file>>
  BY DEF Readback, Goto

LEMMA ConfirmedStep ==
  ASSUME NEW s \in Sinks, Confirm(s), ~Fail(s)
  PROVE  /\ pc[s] = "confirm" /\ lock[ProcessOf[s]] = Nobody
         /\ registry' = [registry EXCEPT ![s] = Absorbed(@)]
         /\ Readable(registry[s]) /\ Latest(stored, ChainOf[s]) = proposal[s]
         /\ mem' = [mem EXCEPT ![s] = proposal[s]]
         /\ Done(s) /\ UNCHANGED <<own, count, failed, file>>
  BY DEF Confirm

(* A step of a sink is one of these.                                       *)
LEMMA StepKinds ==
  ASSUME NEW s \in Sinks, Step(s)
  PROVE  \/ WriteFile(s)
         \/ ~WriteFile(s) /\ Fail(s)
         \/ ReadExisting(s) /\ ~Fail(s)
         \/ OpenFile(s) /\ ~Fail(s)
         \/ Readback(s) /\ ~Fail(s)
         \/ Confirm(s) /\ ~Fail(s)
  BY DEF Step, ReadFails

LEMMA CrashedStep ==
  ASSUME StoreInv, OneProcess, NEW p \in Processes, Crash(p)
  PROVE  /\ pc' = [s \in Sinks |-> "dead"]
         /\ UNCHANGED <<session, registry, next>>
         /\ \/ UNCHANGED file
            \/ writer \in Sinks /\ pc[writer] = "write" /\ PartlyWritten(writer)
  <1>1. \A s \in Sinks : ProcessOf[s] = p
    BY DEF Crash, OneProcess
  <1>2. pc' = [s \in Sinks |-> "dead"]
    BY <1>1 DEF Crash
  <1>3. writer # Nobody => writer \in Sinks /\ pc[writer] = "write"
    BY DEF StoreInv, TypeOK, Locked
  <1> QED BY <1>2, <1>3 DEF Crash

-------------------------------------------------------------------------------
(* A file that is cut off.                                                 *)

LEMMA TornStep ==
  ASSUME StoreInv, TornInv, [Next]_vars
  PROVE  TornInv'
  <1> SUFFICES ASSUME OneProcess, torn', NEW t \in Sinks, pc'[t] \in Holding
               PROVE  FALSE
    BY LayoutFixed DEF TornInv, OneProcess, Holding
  <1>0. /\ pc \in [Sinks -> {"idle", "persist", "open", "write", "readback",
                             "confirm", "dead"}]
        /\ torn => \A s \in Sinks : pc[s] \notin Holding
    BY DEF StoreInv, TypeOK, TornInv
  <1>1. CASE UNCHANGED torn /\ pc[t] \in Holding
    BY <1>0, <1>1
  <1>2. ASSUME NEW s \in Sinks, NEW by, Record(s, by)
        PROVE  FALSE
    <2>1. UNCHANGED torn /\ (pc' = pc \/ pc' = [pc EXCEPT ![s] = "persist"])
      BY <1>2 DEF Record, Goto, file
    <2> QED BY <1>0, <1>1, <2>1 DEF Holding
  <1>3. ASSUME NEW s \in Sinks, Step(s)
        PROVE  FALSE
    <2>1. ASSUME WriteFile(s) PROVE FALSE
      <3>1. \/ pc[s] = "write" /\ UNCHANGED torn
            \/ Fail(s) /\ pc[s] = "write"
        BY <2>1, WrittenStep
      <3>2. ASSUME Fail(s) PROVE pc' = [pc EXCEPT ![s] = "idle"]
        BY <3>2 DEF Fail, Done, Goto
      <3>3. pc[s] = "write" => \A u \in Sinks : pc[u] \in Holding => u = s
        BY Alone DEF Holding
      <3>4. CASE Fail(s)
        <4>1. t # s
          BY <1>0, <3>2, <3>4 DEF Holding
        <4> QED BY <1>0, <3>1, <3>2, <3>3, <3>4, <4>1
      <3> QED BY <1>0, <3>1, <3>4 DEF Holding
    <2>2. ASSUME ~WriteFile(s), Fail(s) PROVE FALSE
      <3>1. UNCHANGED torn /\ pc' = [pc EXCEPT ![s] = "idle"]
        BY <1>3, <2>2, FailedStep DEF file, Fail, Done, Goto
      <3> QED BY <1>0, <1>1, <3>1 DEF Holding
    <2>3. ASSUME ReadExisting(s), ~Fail(s) PROVE FALSE
      <3>1. ~torn /\ UNCHANGED torn
        BY <2>3, EnteredStep DEF Readable, file
      <3> QED BY <3>1
    <2>4. ASSUME OpenFile(s), ~Fail(s) PROVE FALSE
      BY <2>4, OpenedStep
    <2>5. ASSUME Readback(s), ~Fail(s) PROVE FALSE
      <3>1. UNCHANGED torn /\ pc[s] \in Holding
        BY <2>5, ReadStep DEF file, Holding
      <3> QED BY <1>0, <3>1
    <2>6. ASSUME Confirm(s), ~Fail(s) PROVE FALSE
      <3>1. ~torn /\ UNCHANGED torn
        BY <2>6, ConfirmedStep DEF Readable, file
      <3> QED BY <3>1
    <2> QED BY <1>3, <2>1, <2>2, <2>3, <2>4, <2>5, <2>6, StepKinds
  <1>4. ASSUME NEW p \in Processes, Crash(p)
        PROVE  FALSE
    <2>1. pc'[t] = "dead"
      BY <1>4, CrashedStep
    <2> QED BY <2>1 DEF Holding
  <1>5. ASSUME UNCHANGED vars
        PROVE  FALSE
    BY <1>1, <1>5 DEF vars, file
  <1> QED BY <1>2, <1>3, <1>4, <1>5 DEF Next

LEMMA TornInvAlways == Spec => []TornInv
  <1>1. Init => TornInv
    BY DEF Init, TornInv
  <1> QED BY <1>1, TornStep, StoreInvAlways, PTL DEF Spec

(* Within one process a cut-off file is not written again and confirms     *)
(* nothing (persistChain, readChain): damage is never taken for an empty   *)
(* or a shorter history.                                                   *)
THEOREM CutOffIsFrozen == Spec => TornIsFrozen
  <1>1. ASSUME StoreInv, TornInv, [Next]_vars
        PROVE  [OneProcess /\ torn => UNCHANGED <<stored, torn, mem>>]_vars
    <2> SUFFICES ASSUME OneProcess, torn
                 PROVE  UNCHANGED <<stored, torn, mem>>
      OBVIOUS
    <2>0. \A s \in Sinks : pc[s] \notin Holding
      BY <1>1 DEF TornInv
    <2>1. ASSUME NEW s \in Sinks, Step(s)
          PROVE  UNCHANGED <<stored, torn, mem>>
      <3>1. ~WriteFile(s) /\ ~(OpenFile(s) /\ ~Fail(s)) /\ ~(Readback(s) /\ ~Fail(s))
        BY <2>0 DEF WriteFile, OpenFile, Readback, Holding
      <3>2. ~(ReadExisting(s) /\ ~Fail(s)) /\ ~(Confirm(s) /\ ~Fail(s))
        BY <1>1, EnteredStep, ConfirmedStep DEF Readable
      <3>3. Fail(s) /\ ~WriteFile(s)
        BY <2>1, <3>1, <3>2, StepKinds
      <3> QED BY <1>1, <2>1, <3>3, FailedStep DEF file, Fail
    <2>2. ASSUME NEW s \in Sinks, NEW by, Record(s, by)
          PROVE  UNCHANGED <<stored, torn, mem>>
      BY <2>2 DEF Record, file
    <2>3. ASSUME NEW p \in Processes, Crash(p)
          PROVE  UNCHANGED <<stored, torn, mem>>
      BY <1>1, <2>0, <2>3, CrashedStep DEF file, session, Holding
    <2>4. CASE UNCHANGED vars
      BY <2>4 DEF vars, file, session
    <2> QED BY <1>1, <2>1, <2>2, <2>3, <2>4 DEF Next
  <1> QED BY <1>1, StoreInvAlways, TornInvAlways, PTL DEF Spec, TornIsFrozen

-------------------------------------------------------------------------------
(* What was confirmed.                                                     *)

LEMMA LatestTyped ==
  ASSUME NEW lines \in Seq(Lines), NEW c
  PROVE  Latest(lines, c) \in Seq(Events)
  <1>1. \A i \in DOMAIN lines : lines[i].events \in Seq(Events)
    <2>1. \A i \in DOMAIN lines : lines[i] \in Lines
      BY LenProperties, ElementOfSeq
    <2> QED BY <2>1 DEF Lines
  <1>2. <<>> \in Seq(Events)
    BY EmptySeq
  <1>3. CASE Latest(lines, c) = <<>>
    BY <1>2, <1>3, Zenon
  <1> QED BY <1>1, <1>3, LatestLine

(* The file a sink is about to write holds what the file it read held.     *)
LEMMA KeptByAppending ==
  ASSUME StoreInv, NEW s \in Sinks, AppendOnly(s), Keeps(stored)
  PROVE  Keeps(Append(stored, Snapshot(s, Absorbed(registry[s]))))
  <1> DEFINE line == Snapshot(s, Absorbed(registry[s]))
  <1>1. /\ line \in Lines /\ line.chain = ChainOf[s] /\ line.events = proposal[s]
        /\ stored \in Seq(Lines)
    BY SnapshotTyped DEF StoreInv, TypeOK
  <1> HIDE DEF line
  <1>2. ASSUME NEW t \in Sinks
        PROVE  IsPrefix(mem[t], Latest(Append(stored, line), ChainOf[t]))
    <2>1. IsPrefix(mem[t], Latest(stored, ChainOf[t]))
      BY DEF Keeps
    <2>2. CASE ChainOf[t] = ChainOf[s]
      <3>1. IsPrefix(Latest(stored, ChainOf[t]), proposal[s])
        BY <2>2 DEF AppendOnly
      <3>2. /\ mem[t] \in Seq(Events) /\ proposal[s] \in Seq(Events)
            /\ Latest(stored, ChainOf[t]) \in Seq(Events)
        BY <1>1, LatestTyped DEF StoreInv, TypeOK
      <3>3. IsPrefix(mem[t], proposal[s])
        BY <2>1, <3>1, <3>2, PrefixTransitive
      <3>4. Latest(Append(stored, line), ChainOf[t]) = proposal[s]
        BY <1>1, <2>2, LatestAppended
      <3> QED BY <3>3, <3>4
    <2>3. CASE ChainOf[t] # ChainOf[s]
      <3>1. Latest(Append(stored, line), ChainOf[t]) = Latest(stored, ChainOf[t])
        BY <1>1, <2>3, LatestAppended
      <3> QED BY <2>1, <3>1
    <2> QED BY <2>2, <2>3
  <1> QED BY <1>2 DEF Keeps, line

LEMMA KeptStep ==
  ASSUME StoreInv, KeptInv, [Next]_vars
  PROVE  KeptInv'
  <1> DEFINE Kept(lines) == \A t \in Sinks : IsPrefix(mem'[t], Latest(lines, ChainOf[t]))
             Goal == /\ ~torn'
                     /\ writer' = Nobody => Kept(stored')
                     /\ \A s \in Sinks : pc'[s] \in {"open", "write"} => Kept(next'[s])
  <1>1. SUFFICES ASSUME OneProcess, Faults \subseteq {"io"}
                 PROVE  Goal
    BY LayoutFixed DEF KeptInv, Keeps, OneProcess
  <1>2. /\ pc \in [Sinks -> {"idle", "persist", "open", "write", "readback",
                             "confirm", "dead"}]
        /\ next \in [Sinks -> Seq(Lines)]
        /\ Nobody \notin Sinks
    BY LayoutTypes DEF StoreInv, TypeOK
  <1>3. /\ ~torn /\ (writer = Nobody => Keeps(stored))
        /\ \A s \in Sinks : pc[s] \in {"open", "write"} => Keeps(next[s])
    BY <1>1 DEF KeptInv
  <1>4. ASSUME mem' = mem, NEW lines, Keeps(lines)
        PROVE  Kept(lines)
    BY <1>4 DEF Keeps
  <1>5. ASSUME mem' = mem, UNCHANGED file,
               \A t \in Sinks : pc'[t] \in {"open", "write"} =>
                                  pc'[t] = pc[t] /\ next'[t] = next[t]
        PROVE  Goal
    <2> HIDE DEF Kept
    <2>1. ~torn' /\ (writer' = Nobody => Kept(stored'))
      <3>1. stored' = stored /\ torn' = torn /\ writer' = writer
        BY <1>5 DEF file
      <3> QED BY <1>3, <1>4, <1>5, <3>1
    <2>2. ASSUME NEW s \in Sinks, pc'[s] \in {"open", "write"} PROVE Kept(next'[s])
      <3>1. Kept(next[s])
        BY <1>3, <1>4, <1>5, <2>2
      <3> QED BY <1>5, <2>2, <3>1
    <2> QED BY <2>1, <2>2
  <1>6. ASSUME NEW s \in Sinks, NEW by, Record(s, by)
        PROVE  Goal
    <2>1. /\ mem' = mem /\ next' = next /\ UNCHANGED file
          /\ pc' = pc \/ pc' = [pc EXCEPT ![s] = "persist"]
      BY <1>6 DEF Record, Goto
    <2>2. \A t \in Sinks : pc'[t] \in {"open", "write"} =>
                             pc'[t] = pc[t] /\ next'[t] = next[t]
      BY <1>2, <2>1
    <2> HIDE DEF Goal
    <2> QED BY <1>5, <2>1, <2>2
  <1>7. ASSUME NEW s \in Sinks, Fail(s), UNCHANGED file
        PROVE  Goal
    <2>1. /\ mem' = mem /\ pc' = [pc EXCEPT ![s] = "idle"]
          /\ \A t \in Sinks \ {s} : next'[t] = next[t]
      BY <1>7, FailTyped, DoneTyped DEF StoreInv
    <2>2. \A t \in Sinks : pc'[t] \in {"open", "write"} =>
                             pc'[t] = pc[t] /\ next'[t] = next[t]
      BY <1>2, <2>1
    <2> HIDE DEF Goal
    <2> QED BY <1>5, <1>7, <2>1, <2>2
  <1>8. ASSUME NEW s \in Sinks, ReadExisting(s), ~Fail(s)
        PROVE  Goal
    <2> DEFINE lines == Append(stored, Snapshot(s, Absorbed(registry[s])))
    <2>1. /\ pc[s] = "persist" /\ lock[ProcessOf[s]] = Nobody
          /\ pc' = [pc EXCEPT ![s] = "open"] /\ AppendOnly(s)
          /\ next' = [next EXCEPT ![s] = lines]
          /\ mem' = mem /\ stored' = stored /\ torn' = torn /\ writer' = writer
      BY <1>8, EnteredStep DEF session, file
    <2>2. writer = Nobody /\ \A t \in Sinks : pc[t] \notin Holding
      BY <1>1, <2>1, Free
    <2>3. Keeps(stored) /\ Keeps(lines)
      BY <1>3, <2>1, <2>2, KeptByAppending
    <2>4. Kept(stored) /\ Kept(lines)
      BY <1>4, <2>1, <2>3
    <2> HIDE DEF Kept, lines
    <2>5. ASSUME NEW t \in Sinks, pc'[t] \in {"open", "write"} PROVE Kept(next'[t])
      <3>1. t = s
        BY <1>2, <2>1, <2>2, <2>5 DEF Holding
      <3>2. next'[s] = lines
        BY <1>2, <2>1
      <3> QED BY <2>4, <3>1, <3>2
    <2> QED BY <1>3, <2>1, <2>4, <2>5
  <1>9. ASSUME NEW s \in Sinks, OpenFile(s), ~Fail(s)
        PROVE  Goal
    <2>1. /\ pc[s] = "open" /\ pc' = [pc EXCEPT ![s] = "write"]
          /\ torn' = FALSE /\ writer' = s /\ mem' = mem /\ next' = next
      BY <1>9, OpenedStep DEF session
    <2> HIDE DEF Kept
    <2>2. ASSUME NEW t \in Sinks, pc'[t] \in {"open", "write"} PROVE Kept(next'[t])
      <3>1. pc[t] \in {"open", "write"}
        BY <1>2, <2>1, <2>2
      <3>2. Kept(next[t])
        BY <1>3, <1>4, <2>1, <3>1
      <3> QED BY <2>1, <3>2
    <2> QED BY <1>2, <2>1, <2>2
  <1>10. ASSUME NEW s \in Sinks, WriteFile(s)
         PROVE  Goal
    <2>1. pc[s] = "write" /\ "torn" \notin Faults
      BY <1>1, <1>10, WrittenStep
    <2>2. /\ writer' = Nobody /\ stored' = next[s] /\ torn' = torn
          /\ (Fail(s) \/ (pc' = [pc EXCEPT ![s] = "readback"] /\ UNCHANGED session))
      BY <1>10, <2>1, WrittenStep
    <2>3. ASSUME Fail(s) PROVE pc' = [pc EXCEPT ![s] = "idle"] /\ mem' = mem
      BY <2>3, FailTyped, DoneTyped DEF StoreInv
    <2>4. /\ mem' = mem
          /\ pc' = [pc EXCEPT ![s] = "readback"] \/ pc' = [pc EXCEPT ![s] = "idle"]
      BY <2>2, <2>3 DEF session
    <2>5. \A t \in Sinks : pc[t] \in Holding => t = s
      BY <1>1, <2>1, Alone DEF Holding
    <2> HIDE DEF Kept
    <2>6. \A t \in Sinks : pc'[t] \notin {"open", "write"}
      BY <1>2, <2>4, <2>5 DEF Holding
    <2>7. Kept(next[s])
      BY <1>3, <1>4, <2>1, <2>4
    <2> QED BY <1>3, <2>2, <2>6, <2>7
  <1>11. ASSUME NEW s \in Sinks, Readback(s), ~Fail(s)
         PROVE  Goal
    <2>1. /\ mem' = mem /\ next' = next /\ UNCHANGED file
          /\ pc' = [pc EXCEPT ![s] = "confirm"]
      BY <1>11, ReadStep DEF session
    <2>2. \A t \in Sinks : pc'[t] \in {"open", "write"} =>
                             pc'[t] = pc[t] /\ next'[t] = next[t]
      BY <1>2, <2>1
    <2> HIDE DEF Goal
    <2> QED BY <1>5, <2>1, <2>2
  <1>12. ASSUME NEW s \in Sinks, Confirm(s), ~Fail(s)
         PROVE  Goal
    <2>1. /\ lock[ProcessOf[s]] = Nobody /\ Latest(stored, ChainOf[s]) = proposal[s]
          /\ mem' = [mem EXCEPT ![s] = proposal[s]] /\ Done(s)
          /\ stored' = stored /\ torn' = torn /\ writer' = writer
      BY <1>12, ConfirmedStep DEF file
    <2>2. writer = Nobody /\ \A t \in Sinks : pc[t] \notin Holding
      BY <1>1, <2>1, Free
    <2>3. Kept(stored)
      <3>1. ASSUME NEW t \in Sinks, t # s
            PROVE  IsPrefix(mem'[t], Latest(stored, ChainOf[t]))
        <4>1. mem'[t] = mem[t]
          BY <2>1, <3>1 DEF StoreInv, TypeOK
        <4> QED BY <1>3, <2>2, <4>1 DEF Keeps
      <3>2. IsPrefix(mem'[s], Latest(stored, ChainOf[s]))
        <4>1. mem'[s] = proposal[s] /\ proposal[s] \in Seq(Events)
          BY <2>1 DEF StoreInv, TypeOK
        <4> QED BY <2>1, <4>1, PrefixSelf
      <3> QED BY <3>1, <3>2
    <2>4. \A t \in Sinks : pc'[t] \notin {"open", "write"}
      BY <1>2, <2>1, <2>2 DEF Done, Goto, Holding
    <2> HIDE DEF Kept
    <2> QED BY <1>3, <2>1, <2>3, <2>4
  <1>13. ASSUME UNCHANGED vars
         PROVE  Goal
    <2>1. mem' = mem /\ next' = next /\ UNCHANGED file /\ pc' = pc
      BY <1>13 DEF vars, session
    <2> HIDE DEF Goal
    <2> QED BY <1>5, <2>1
  <1>14. \A p \in Processes : ~Crash(p)
    BY <1>1 DEF Crash
  <1> HIDE DEF Goal
  <1>15. ASSUME NEW s \in Sinks, Step(s)
         PROVE  Goal
    <2>1. CASE ~WriteFile(s) /\ Fail(s)
      BY <1>7, <1>15, <2>1, FailedStep
    <2> QED BY <1>8, <1>9, <1>10, <1>11, <1>12, <1>15, <2>1, StepKinds
  <1> QED BY <1>6, <1>13, <1>14, <1>15 DEF Next

(* With one process and no cut-off write, what was confirmed to a session  *)
(* is in the file whenever nobody is writing it, although each session     *)
(* rewrites the whole file (persistChain).                                 *)
THEOREM ConfirmedIsKept == Spec => []AcknowledgedKept
  <1>1. Init => KeptInv
    <2> SUFFICES ASSUME Init PROVE KeptInv
      OBVIOUS
    <2>1. \A t \in Sinks : mem[t] = <<>> /\ pc[t] = "idle"
      BY DEF Init
    <2>2. stored \in Seq(Lines) /\ ~torn
      BY EmptySeq DEF Init
    <2>3. Keeps(stored)
      <3>1. ASSUME NEW t \in Sinks
            PROVE  IsPrefix(mem[t], Latest(stored, ChainOf[t]))
        <4>1. IsPrefix(<<>>, Latest(stored, ChainOf[t]))
          BY <2>2, LatestTyped, PrefixSelf
        <4> QED BY <2>1, <4>1, Zenon
      <3> QED BY <3>1 DEF Keeps
    <2> QED BY <2>1, <2>2, <2>3 DEF KeptInv
  <1>2. KeptInv => AcknowledgedKept
    BY DEF KeptInv, Keeps, AcknowledgedKept
  <1> QED BY <1>1, <1>2, KeptStep, StoreInvAlways, PTL DEF Spec

-------------------------------------------------------------------------------
(* Sessions of different requests and chains.                              *)

LEMMA ApartFixed ==
  ASSUME [Next]_vars
  PROVE  Apart' <=> Apart
  BY LayoutFixed DEF Apart, OneProcess

LEMMA OneOfItsKind ==
  ASSUME StoreInv, Apart, NEW s \in Sinks, NEW t \in Sinks
  PROVE  /\ RequestOf[s] = RequestOf[t] => s = t
         /\ ChainOf[s] = ChainOf[t] => s = t
  BY LayoutTypes DEF StoreInv, TypeOK, Apart, IsInjective

(* What happens to a session that does not fail: its chain and its events  *)
(* grow, and a new event has a new number.                                 *)
Grows(t) ==
  /\ IsPrefix(own[t], own'[t]) /\ count[t] <= count'[t]
  /\ t \notin failed' => t \notin failed /\ IsPrefix(Current(t), Current(t)')
  /\ pc'[t] = "persist" => \/ pc[t] = "persist" /\ count'[t] = count[t]
                           \/ count'[t] = count[t] + 1

LEMMA SessionsGrow ==
  ASSUME StoreInv, HealthyInv, Apart, [Next]_vars
  PROVE  \A t \in Sinks : Grows(t)
  <1>0. /\ pc \in [Sinks -> {"idle", "persist", "open", "write", "readback",
                             "confirm", "dead"}]
        /\ count \in [Sinks -> Nat]
        /\ \A t \in Sinks : /\ own[t] \in Seq(Envelopes) /\ mem[t] \in Seq(Events)
                            /\ proposal[t] \in Seq(Events)
                            /\ Current(t) \in Seq(Events)
    BY LayoutTypes DEF StoreInv, TypeOK, Current
  <1>1. ASSUME NEW t \in Sinks, own'[t] = own[t], count'[t] = count[t],
               mem'[t] = mem[t], proposal'[t] = proposal[t],
               t \notin failed' => t \notin failed,
               pc'[t] = "persist" => pc[t] = "persist"
        PROVE  Grows(t)
    <2>1. Current(t)' = Current(t)
      BY <1>1 DEF Current
    <2>2. IsPrefix(own[t], own[t]) /\ IsPrefix(Current(t), Current(t))
      BY <1>0, PrefixSelf
    <2> QED BY <1>0, <1>1, <2>1, <2>2 DEF Grows
  <1>2. ASSUME NEW t \in Sinks, t \in failed', own'[t] = own[t],
               count'[t] = count[t], pc'[t] # "persist"
        PROVE  Grows(t)
    <2>1. IsPrefix(own[t], own[t])
      BY <1>0, PrefixSelf
    <2> QED BY <1>0, <1>2, <2>1 DEF Grows
  <1>3. ASSUME UNCHANGED session, NEW s \in Sinks, pc[s] # "idle",
               \A t \in Sinks : pc'[t] = "persist" => pc[t] = "persist"
        PROVE  \A t \in Sinks : Grows(t)
    BY <1>1, <1>3 DEF session
  <1>4. ASSUME NEW s \in Sinks, NEW by \in {s, RequestOf[s]}, Record(s, by)
        PROVE  \A t \in Sinks : Grows(t)
    <2>1. /\ pc[s] = "idle" /\ mem' = mem
          /\ count' = [count EXCEPT ![s] = @ + 1]
          /\ IsPrefix(own[s], own'[s])
          /\ \A t \in Sinks \ {s} : own'[t] = own[t]
      BY <1>4, RecordTyped DEF StoreInv, Record
    <2>2. count'[s] = count[s] + 1 /\ \A t \in Sinks \ {s} : count'[t] = count[t]
      BY <1>0, <2>1
    <2>3. CASE Retains(registry[s], RequestOf[s], own'[s])
      <3>1. PICK e \in Events :
              /\ proposal' = [proposal EXCEPT ![s] = Append(mem[s], e)]
              /\ pc' = [pc EXCEPT ![s] = "persist"] /\ UNCHANGED failed
        BY <1>4, <2>3, RecordedTyped DEF StoreInv, Registers
      <3>2. Grows(s)
        <4>1. proposal[s] = <<>>
          BY <2>1 DEF HealthyInv
        <4>2. Current(s) = mem[s]
          BY <4>1 DEF Current
        <4>3. proposal'[s] = Append(mem[s], e)
          BY <3>1 DEF StoreInv, TypeOK
        <4>4. Append(mem[s], e) # <<>> /\ IsPrefix(mem[s], Append(mem[s], e))
          <5>1. mem[s] \in Seq(Events) /\ IsPrefix(mem[s], mem[s])
            BY <1>0, PrefixSelf
          <5>2. IsPrefix(mem[s], Append(mem[s], e))
            BY <5>1, PrefixOfAppend
          <5>3. Append(mem[s], e) # <<>>
            BY <5>1, AppendProperties
          <5> QED BY <5>2, <5>3
        <4>5. Current(s)' = Append(mem[s], e)
          BY <4>3, <4>4 DEF Current
        <4> QED BY <1>0, <2>1, <2>2, <3>1, <4>2, <4>4, <4>5 DEF Grows
      <3>3. ASSUME NEW t \in Sinks \ {s} PROVE Grows(t)
        <4>1. pc'[t] = pc[t] /\ proposal'[t] = proposal[t]
          BY <1>0, <3>1 DEF StoreInv, TypeOK
        <4> QED BY <1>1, <2>1, <2>2, <3>1, <4>1
      <3> QED BY <3>2, <3>3
    <2>4. CASE ~Retains(registry[s], RequestOf[s], own'[s])
      <3>1. failed' = failed \cup {s} /\ pc' = pc /\ proposal' = proposal
        BY <1>4, <2>4, RefusedTyped DEF StoreInv
      <3>2. Grows(s)
        BY <1>0, <2>1, <2>2, <3>1 DEF Grows
      <3>3. ASSUME NEW t \in Sinks \ {s} PROVE Grows(t)
        BY <1>1, <2>1, <2>2, <3>1
      <3> QED BY <3>2, <3>3
    <2> QED BY <2>3, <2>4
  <1>5. ASSUME NEW s \in Sinks, Fail(s)
        PROVE  \A t \in Sinks : Grows(t)
    <2>1. /\ failed' = failed \cup {s} /\ own' = own /\ count' = count /\ mem' = mem
          /\ pc' = [pc EXCEPT ![s] = "idle"]
          /\ \A t \in Sinks \ {s} : proposal'[t] = proposal[t]
      BY <1>5, FailTyped, DoneTyped DEF StoreInv
    <2>2. pc'[s] = "idle" /\ \A t \in Sinks \ {s} : pc'[t] = pc[t]
      BY <1>0, <2>1
    <2>3. Grows(s)
      BY <1>2, <2>1, <2>2
    <2>4. ASSUME NEW t \in Sinks \ {s} PROVE Grows(t)
      BY <1>1, <2>1, <2>2
    <2> QED BY <2>3, <2>4
  <1>6. ASSUME NEW s \in Sinks, Confirm(s), ~Fail(s)
        PROVE  \A t \in Sinks : Grows(t)
    <2>1. /\ pc[s] = "confirm" /\ mem' = [mem EXCEPT ![s] = proposal[s]]
          /\ own' = own /\ count' = count /\ failed' = failed
          /\ pc' = [pc EXCEPT ![s] = "idle"] /\ proposal'[s] = <<>>
          /\ \A t \in Sinks \ {s} : proposal'[t] = proposal[t]
      BY <1>6, ConfirmedStep, DoneTyped DEF StoreInv
    <2>2. /\ pc'[s] = "idle" /\ \A t \in Sinks \ {s} : pc'[t] = pc[t]
          /\ mem'[s] = proposal[s] /\ \A t \in Sinks \ {s} : mem'[t] = mem[t]
      BY <1>0, <2>1 DEF StoreInv, TypeOK
    <2>3. Grows(s)
      <3>1. Current(s)' = proposal[s]
        BY <2>1, <2>2 DEF Current
      <3>2. proposal[s] # <<>>
        BY <2>1 DEF HealthyInv, Stages
      <3>3. Current(s) = proposal[s]
        BY <3>2 DEF Current
      <3>4. IsPrefix(proposal[s], proposal[s]) /\ IsPrefix(own[s], own[s])
        BY <1>0, PrefixSelf
      <3> QED BY <1>0, <2>1, <2>2, <3>1, <3>3, <3>4 DEF Grows
    <2>4. ASSUME NEW t \in Sinks \ {s} PROVE Grows(t)
      BY <1>1, <2>1, <2>2
    <2> QED BY <2>3, <2>4
  <1>7. ASSUME NEW s \in Sinks, Step(s)
        PROVE  \A t \in Sinks : Grows(t)
    <2>1. CASE Fail(s)
      BY <1>5, <2>1
    <2>2. CASE ~Fail(s) /\ ~Confirm(s)
      <3>1. /\ UNCHANGED session /\ pc[s] # "idle"
            /\ \E stage \in {"open", "write", "readback", "confirm"} :
                 pc' = [pc EXCEPT ![s] = stage]
        BY <1>7, <2>2, StepKinds, EnteredStep, OpenedStep, WrittenStep, ReadStep
      <3> QED BY <1>0, <1>3, <3>1
    <2> QED BY <1>6, <2>1, <2>2
  <1>8. ASSUME NEW p \in Processes, Crash(p)
        PROVE  \A t \in Sinks : Grows(t)
    <2>1. UNCHANGED session /\ \A t \in Sinks : pc'[t] = "dead"
      BY <1>8, CrashedStep DEF Apart
    <2> QED BY <1>1, <2>1 DEF session
  <1>9. ASSUME UNCHANGED vars
        PROVE  \A t \in Sinks : Grows(t)
    BY <1>1, <1>9 DEF vars, session
  <1> QED BY <1>4, <1>7, <1>8, <1>9 DEF Next

(* Owned, of the lines in a step's next state.                             *)
WroteThen(t, line) ==
  /\ line.chain = ChainOf[t] /\ line.request = RequestOf[t]
  /\ IsPrefix(line.diagnostics, own'[t])
  /\ t \notin failed' => IsPrefix(line.events, Current(t)')
  /\ line.events # <<>> /\ Last(line.events).by = t
  /\ Last(line.events).n \in 1..count'[t]
  /\ pc'[t] = "persist" => Last(line.events).n # count'[t]
OwnedThen(lines) ==
  /\ \A i \in DOMAIN lines : \E t \in Sinks : WroteThen(t, lines[i])
  /\ \A i, j \in DOMAIN lines :
       i # j => Ends(lines[i]) # Ends(lines[j])

LEMMA WroteKept ==
  ASSUME StoreInv, StoreInv', [Next]_vars, NEW t \in Sinks, Grows(t),
         NEW line \in Lines, Wrote(t, line)
  PROVE  WroteThen(t, line)
  <1>0. /\ line.diagnostics \in Seq(Envelopes) /\ line.events \in Seq(Events)
        /\ own[t] \in Seq(Envelopes) /\ own'[t] \in Seq(Envelopes)
        /\ Current(t) \in Seq(Events)
        /\ count[t] \in Nat /\ count'[t] \in Nat
    BY LayoutTypes, SessionStep, LayoutFixed DEF StoreInv, TypeOK, Current, Lines
  <1>1. Current(t)' \in Seq(Events)
    <2>1. mem'[t] \in Seq(Events) /\ proposal'[t] \in Seq(Events)
      BY SessionStep
    <2> QED BY <2>1 DEF Current
  <1>2. IsPrefix(line.diagnostics, own'[t])
    BY <1>0, PrefixTransitive DEF Wrote, Grows
  <1>3. ASSUME t \notin failed' PROVE IsPrefix(line.events, Current(t)')
    <2>1. IsPrefix(line.events, Current(t)) /\ IsPrefix(Current(t), Current(t)')
      BY <1>3 DEF Wrote, Grows
    <2> QED BY <1>0, <1>1, <2>1, PrefixTransitive
  <1>4. /\ Last(line.events).n \in 1..count'[t]
        /\ pc'[t] = "persist" => Last(line.events).n # count'[t]
    BY <1>0 DEF Wrote, Grows
  <1> QED BY <1>2, <1>3, <1>4 DEF Wrote, WroteThen

LEMMA OwnedKept ==
  ASSUME StoreInv, StoreInv', [Next]_vars, \A t \in Sinks : Grows(t),
         NEW lines \in Seq(Lines), Owned(lines)
  PROVE  OwnedThen(lines)
  <1>1. \A i \in DOMAIN lines : lines[i] \in Lines
    BY LenProperties, ElementOfSeq
  <1>2. ASSUME NEW i \in DOMAIN lines
        PROVE  \E t \in Sinks : WroteThen(t, lines[i])
    <2>1. PICK t \in Sinks : Wrote(t, lines[i])
      BY DEF Owned
    <2> QED BY <1>1, <2>1, WroteKept
  <1> QED BY <1>2 DEF Owned, OwnedThen

LEMMA OwnedFront ==
  ASSUME NEW lines \in Seq(Lines), NEW k \in 0..Len(lines), OwnedThen(lines)
  PROVE  OwnedThen(SubSeq(lines, 1, k))
  BY FirstLines DEF OwnedThen

LEMMA OwnedEmpty == OwnedThen(<<>>)
  BY DEF OwnedThen

LEMMA OwnedAppended ==
  ASSUME NEW lines \in Seq(Lines), NEW line \in Lines, OwnedThen(lines),
         NEW s \in Sinks, WroteThen(s, line),
         \A i \in DOMAIN lines : Ends(lines[i]) # Ends(line)
  PROVE  OwnedThen(Append(lines, line))
  <1> DEFINE more == Append(lines, line)
             n == Len(lines)
  <1>1. /\ n \in Nat /\ DOMAIN lines = 1..n /\ DOMAIN more = 1..(n + 1)
        /\ \A i \in 1..n : more[i] = lines[i]
        /\ more[n + 1] = line
        /\ \A i \in 1..(n + 1) : i \in 1..n \/ i = n + 1
    BY LenProperties, AppendProperties
  <1> HIDE DEF more, n
  <1>2. \A i \in DOMAIN more : \E t \in Sinks : WroteThen(t, more[i])
    BY <1>1 DEF OwnedThen
  <1>3. ASSUME NEW i \in DOMAIN more, NEW j \in DOMAIN more, i # j
        PROVE  Ends(more[i]) # Ends(more[j])
    BY <1>1, <1>3 DEF OwnedThen
  <1>4. OwnedThen(more)
    BY <1>2, <1>3 DEF OwnedThen
  <1> QED BY <1>4 DEF more

(* Reading the file teaches a sink no more than the sessions have.         *)
LEMMA AbsorbedApart ==
  ASSUME StoreInv, HealthyInv, Apart, NEW s \in Sinks, NEW t \in Sinks
  PROVE  IsPrefix(Absorbed(registry[s])[RequestOf[t]], own[t])
  <1> DEFINE r == RequestOf[t]
  <1>1. /\ r \in Requests /\ MaxChains \in Nat /\ stored \in Seq(Lines)
        /\ Fits(registry[s])
    BY LayoutTypes DEF StoreInv, TypeOK, Fits, Registries
  <1>2. CASE Absorbed(registry[s])[r] = registry[s][r]
    BY <1>2 DEF HealthyInv
  <1>3. CASE \E i \in 1..Accepted(registry[s]) :
               /\ stored[i].request = r
               /\ Absorbed(registry[s])[r] = stored[i].diagnostics
    <2>1. PICK i \in 1..Accepted(registry[s]) :
               /\ stored[i].request = r
               /\ Absorbed(registry[s])[r] = stored[i].diagnostics
      BY <1>3
    <2>2. i \in DOMAIN stored
      BY <1>1, AcceptedDecodes, LenProperties
    <2>3. PICK u \in Sinks : Wrote(u, stored[i])
      BY <2>2 DEF HealthyInv, Owned
    <2>4. u = t
      BY <2>1, <2>3, OneOfItsKind DEF Wrote
    <2> QED BY <2>1, <2>3, <2>4 DEF Wrote
  <1> QED BY <1>1, <1>2, <1>3, AbsorbedChain

LEMMA RegistryApart ==
  ASSUME StoreInv, HealthyInv, Apart, [Next]_vars
  PROVE  \A s, t \in Sinks : IsPrefix(registry'[s][RequestOf[t]], own'[t])
  <1>0. /\ \A s, t \in Sinks : IsPrefix(registry[s][RequestOf[t]], own[t])
        /\ \A t \in Sinks : /\ RequestOf[t] \in Requests
                            /\ own[t] \in Seq(Envelopes)
                            /\ \A s \in Sinks :
                                 registry[s][RequestOf[t]] \in Seq(Envelopes)
    BY LayoutTypes DEF HealthyInv, StoreInv, TypeOK
  <1>1. CASE UNCHANGED <<registry, own>>
    BY <1>0, <1>1
  <1>2. ASSUME NEW s \in Sinks, registry' = [registry EXCEPT ![s] = Absorbed(@)],
               own' = own
        PROVE  \A u, t \in Sinks : IsPrefix(registry'[u][RequestOf[t]], own'[t])
    <2>1. /\ registry'[s] = Absorbed(registry[s])
          /\ \A u \in Sinks \ {s} : registry'[u] = registry[u]
      BY <1>2, AbsorbTyped DEF StoreInv
    <2> QED BY <1>0, <1>2, <2>1, AbsorbedApart
  <1>3. ASSUME NEW s \in Sinks, NEW by \in {s, RequestOf[s]}, Record(s, by)
        PROVE  \A u, t \in Sinks : IsPrefix(registry'[u][RequestOf[t]], own'[t])
    <2>1. /\ own'[s] \in Seq(Envelopes) /\ IsPrefix(own[s], own'[s])
          /\ \A t \in Sinks \ {s} : own'[t] = own[t]
      BY <1>3, RecordTyped DEF StoreInv
    <2>2. ASSUME NEW u \in Sinks, NEW t \in Sinks
          PROVE  IsPrefix(registry[u][RequestOf[t]], own'[t])
      BY <1>0, <2>1, PrefixTransitive
    <2>3. CASE Retains(registry[s], RequestOf[s], own'[s])
      <3>1. registry' = [registry EXCEPT ![s][RequestOf[s]] = own'[s]]
        BY <1>3, <2>3, RecordedTyped DEF StoreInv, Registers
      <3>2. ASSUME NEW u \in Sinks, NEW t \in Sinks
            PROVE  registry'[u][RequestOf[t]] =
                     IF u = s /\ t = s THEN own'[s] ELSE registry[u][RequestOf[t]]
        <4>1. RequestOf[t] = RequestOf[s] <=> t = s
          BY OneOfItsKind
        <4> QED BY <1>0, <3>1, <4>1 DEF StoreInv, TypeOK
      <3>3. IsPrefix(own'[s], own'[s])
        BY <2>1, PrefixSelf
      <3>4. ASSUME NEW u \in Sinks, NEW t \in Sinks
            PROVE  IsPrefix(registry'[u][RequestOf[t]], own'[t])
        <4>1. CASE u = s /\ t = s
          <5>1. registry'[u][RequestOf[t]] = own'[t]
            BY <3>2, <4>1
          <5> QED BY <3>3, <4>1, <5>1
        <4>2. CASE ~(u = s /\ t = s)
          <5>1. registry'[u][RequestOf[t]] = registry[u][RequestOf[t]]
            BY <3>2, <4>2
          <5> QED BY <2>2, <5>1
        <4> QED BY <4>1, <4>2
      <3> QED BY <3>4
    <2>4. CASE ~Retains(registry[s], RequestOf[s], own'[s])
      <3>1. registry' = registry
        BY <1>3, <2>4, RefusedTyped DEF StoreInv
      <3> QED BY <2>2, <3>1
    <2> QED BY <2>3, <2>4
  <1>4. ASSUME NEW s \in Sinks, Step(s)
        PROVE  /\ own' = own
               /\ registry' = registry \/ registry' = [registry EXCEPT ![s] = Absorbed(@)]
    BY <1>4 DEF Step, ReadExisting, ReadFails, OpenFile, WriteFile, Readback,
                Confirm, Fail, session
  <1>5. ASSUME NEW p \in Processes, Crash(p)
        PROVE  UNCHANGED <<registry, own>>
    BY <1>5 DEF Crash, session
  <1>6. CASE UNCHANGED vars
    BY <1>1, <1>6 DEF vars, session
  <1> QED BY <1>1, <1>2, <1>3, <1>4, <1>5, <1>6 DEF Next

(* The event a session is recording, and the file it has just written.     *)
StageThen(t) ==
  /\ pc'[t] = "idle" => proposal'[t] = <<>>
  /\ pc'[t] \in Stages =>
       /\ proposal'[t] # <<>> /\ IsPrefix(mem'[t], proposal'[t])
       /\ Last(proposal'[t]).by = t /\ Last(proposal'[t]).n = count'[t]
       /\ count'[t] # 0
ReadbackThen(t) == pc'[t] = "readback" => stored' = next'[t]

LEMMA StageStep ==
  ASSUME StoreInv, HealthyInv, Apart, [Next]_vars
  PROVE  \A t \in Sinks : StageThen(t)
  <1>0. /\ pc \in [Sinks -> {"idle", "persist", "open", "write", "readback",
                             "confirm", "dead"}]
        /\ count \in [Sinks -> Nat]
        /\ mem \in [Sinks -> Seq(Events)] /\ proposal \in [Sinks -> Seq(Events)]
    BY LayoutTypes DEF StoreInv, TypeOK
  <1>1. ASSUME NEW t \in Sinks, pc'[t] = pc[t], mem'[t] = mem[t],
               proposal'[t] = proposal[t], count'[t] = count[t] \/ pc[t] \notin Stages
        PROVE  StageThen(t)
    BY <1>1 DEF HealthyInv, StageThen
  <1>2. ASSUME NEW t \in Sinks, pc'[t] = "dead" \/ (pc'[t] = "idle" /\ proposal'[t] = <<>>)
        PROVE  StageThen(t)
    BY <1>2 DEF StageThen, Stages
  <1>3. ASSUME NEW s \in Sinks, NEW by \in {s, RequestOf[s]}, Record(s, by)
        PROVE  \A t \in Sinks : StageThen(t)
    <2>1. /\ pc[s] = "idle" /\ mem' = mem
          /\ count' = [count EXCEPT ![s] = @ + 1]
      BY <1>3 DEF Record
    <2>2. count'[s] = count[s] + 1 /\ \A t \in Sinks \ {s} : count'[t] = count[t]
      BY <1>0, <2>1
    <2>3. CASE Retains(registry[s], RequestOf[s], own'[s])
      <3>1. PICK e \in Events :
              /\ e.by = s /\ e.n = count[s] + 1
              /\ proposal' = [proposal EXCEPT ![s] = Append(mem[s], e)]
              /\ pc' = [pc EXCEPT ![s] = "persist"]
        BY <1>3, <2>3, RecordedTyped DEF StoreInv, Registers
      <3>2. StageThen(s)
        <4>1. mem[s] \in Seq(Events) /\ IsPrefix(mem[s], mem[s])
          BY <1>0, PrefixSelf
        <4>2. IsPrefix(mem[s], Append(mem[s], e))
          BY <4>1, PrefixOfAppend
        <4>3. Append(mem[s], e) # <<>> /\ Last(Append(mem[s], e)) = e
          <5>1. /\ Len(mem[s]) \in Nat /\ Append(mem[s], e) # <<>>
                /\ Len(Append(mem[s], e)) = Len(mem[s]) + 1
                /\ Append(mem[s], e)[Len(mem[s]) + 1] = e
            BY <4>1, AppendProperties, LenProperties
          <5> QED BY <5>1 DEF Last
        <4>4. proposal'[s] = Append(mem[s], e) /\ mem'[s] = mem[s] /\ pc'[s] = "persist"
          BY <1>0, <2>1, <3>1
        <4>5. count'[s] # 0 /\ e.n = count'[s] /\ e.by = s
          BY <1>0, <2>2, <3>1
        <4> QED BY <4>2, <4>3, <4>4, <4>5 DEF StageThen
      <3>3. ASSUME NEW t \in Sinks \ {s} PROVE StageThen(t)
        <4>1. pc'[t] = pc[t] /\ proposal'[t] = proposal[t] /\ mem'[t] = mem[t]
          BY <1>0, <2>1, <3>1
        <4> QED BY <1>1, <2>2, <4>1
      <3> QED BY <3>2, <3>3
    <2>4. CASE ~Retains(registry[s], RequestOf[s], own'[s])
      <3>1. pc' = pc /\ proposal' = proposal
        BY <1>3, <2>4, RefusedTyped DEF StoreInv
      <3>2. ASSUME NEW t \in Sinks PROVE StageThen(t)
        BY <1>1, <2>1, <2>2, <3>1 DEF Stages
      <3> QED BY <3>2
    <2> QED BY <2>3, <2>4
  <1>4. ASSUME NEW s \in Sinks, Done(s), count' = count,
               \A t \in Sinks \ {s} : mem'[t] = mem[t]
        PROVE  \A t \in Sinks : StageThen(t)
    <2>1. /\ pc'[s] = "idle" /\ proposal'[s] = <<>>
          /\ \A t \in Sinks \ {s} : pc'[t] = pc[t] /\ proposal'[t] = proposal[t]
      BY <1>0, <1>4, DoneTyped DEF StoreInv
    <2>2. StageThen(s)
      BY <1>2, <2>1
    <2>3. ASSUME NEW t \in Sinks \ {s} PROVE StageThen(t)
      BY <1>1, <1>4, <2>1
    <2> QED BY <2>2, <2>3
  <1>5. ASSUME NEW s \in Sinks, pc[s] \in Stages, UNCHANGED session,
               NEW stage \in Stages, pc' = [pc EXCEPT ![s] = stage]
        PROVE  \A t \in Sinks : StageThen(t)
    <2>1. pc'[s] \in Stages /\ pc'[s] # "idle" /\ \A t \in Sinks \ {s} : pc'[t] = pc[t]
      BY <1>0, <1>5 DEF Stages
    <2>2. UNCHANGED <<mem, proposal, count>>
      BY <1>5 DEF session
    <2>3. StageThen(s)
      BY <1>5, <2>1, <2>2 DEF HealthyInv, StageThen
    <2>4. ASSUME NEW t \in Sinks \ {s} PROVE StageThen(t)
      BY <1>1, <2>1, <2>2
    <2> QED BY <2>3, <2>4
  <1>6. ASSUME NEW s \in Sinks, Step(s)
        PROVE  \A t \in Sinks : StageThen(t)
    <2>1. CASE Fail(s)
      <3>1. Done(s) /\ count' = count /\ mem' = mem
        BY <2>1, FailTyped DEF StoreInv
      <3> QED BY <1>4, <3>1
    <2>2. CASE Confirm(s) /\ ~Fail(s)
      <3>1. Done(s) /\ count' = count /\ mem' = [mem EXCEPT ![s] = proposal[s]]
        BY <2>2, ConfirmedStep
      <3>2. \A t \in Sinks \ {s} : mem'[t] = mem[t]
        BY <1>0, <3>1
      <3> QED BY <1>4, <3>1, <3>2
    <2>3. CASE ~Fail(s) /\ ~Confirm(s)
      <3>1. /\ UNCHANGED session /\ pc[s] \in Stages
            /\ \E stage \in Stages : pc' = [pc EXCEPT ![s] = stage]
        BY <1>6, <2>3, StepKinds, EnteredStep, OpenedStep, WrittenStep, ReadStep
           DEF Stages
      <3> QED BY <1>5, <3>1
    <2> QED BY <2>1, <2>2, <2>3
  <1>7. ASSUME NEW p \in Processes, Crash(p)
        PROVE  \A t \in Sinks : StageThen(t)
    <2>1. \A t \in Sinks : pc'[t] = "dead"
      BY <1>7, CrashedStep DEF Apart
    <2> QED BY <1>2, <2>1
  <1>8. ASSUME UNCHANGED vars
        PROVE  \A t \in Sinks : StageThen(t)
    BY <1>1, <1>8 DEF vars, session
  <1> QED BY <1>3, <1>6, <1>7, <1>8 DEF Next

LEMMA ReadbackStep ==
  ASSUME StoreInv, HealthyInv, Apart, [Next]_vars
  PROVE  \A t \in Sinks : ReadbackThen(t)
  <1>0. /\ pc \in [Sinks -> {"idle", "persist", "open", "write", "readback",
                             "confirm", "dead"}]
        /\ next \in [Sinks -> Seq(Lines)]
        /\ OneProcess
        /\ \A t \in Sinks : pc[t] = "readback" => stored = next[t]
    BY DEF StoreInv, TypeOK, HealthyInv, Apart
  <1> SUFFICES ASSUME NEW t \in Sinks, pc'[t] = "readback"
               PROVE  stored' = next'[t]
    BY DEF ReadbackThen
  <1>1. CASE pc[t] = "readback" /\ UNCHANGED file /\ next'[t] = next[t]
    BY <1>0, <1>1 DEF file
  <1>2. ASSUME NEW s \in Sinks, NEW by, Record(s, by)
        PROVE  stored' = next'[t]
    <2>1. /\ UNCHANGED <<next, file>>
          /\ pc' = pc \/ pc' = [pc EXCEPT ![s] = "persist"]
      BY <1>2 DEF Record, Goto
    <2> QED BY <1>0, <1>1, <2>1
  <1>3. ASSUME NEW s \in Sinks, WriteFile(s)
        PROVE  stored' = next'[t]
    <2>1. pc[s] = "write" /\ \A u \in Sinks : pc[u] \in Holding => u = s
      <3>1. pc[s] = "write"
        BY <1>3, WrittenStep
      <3> QED BY <1>0, <3>1, Alone DEF Holding
    <2>2. CASE Fail(s)
      <3>1. pc' = [pc EXCEPT ![s] = "idle"]
        BY <2>2, FailTyped, DoneTyped DEF StoreInv
      <3>2. t # s /\ pc[t] = "readback"
        BY <1>0, <3>1
      <3> QED BY <2>1, <3>2 DEF Holding
    <2>3. CASE ~Fail(s)
      <3>1. stored' = next[s] /\ next' = next /\ pc' = [pc EXCEPT ![s] = "readback"]
        BY <1>3, <2>3, WrittenStep
      <3>2. t = s
        BY <1>0, <2>1, <3>1 DEF Holding
      <3> QED BY <3>1, <3>2
    <2> QED BY <2>2, <2>3
  <1>4. ASSUME NEW s \in Sinks, Step(s), ~WriteFile(s), Done(s), UNCHANGED file
        PROVE  stored' = next'[t]
    <2>1. /\ pc' = [pc EXCEPT ![s] = "idle"]
          /\ \A u \in Sinks \ {s} : next'[u] = next[u]
      BY <1>4, DoneTyped DEF StoreInv
    <2>2. t # s /\ pc[t] = "readback"
      BY <1>0, <2>1
    <2> QED BY <1>1, <1>4, <2>1, <2>2
  <1>5. ASSUME NEW s \in Sinks, ReadExisting(s), ~Fail(s)
        PROVE  stored' = next'[t]
    <2>1. lock[ProcessOf[s]] = Nobody /\ pc' = [pc EXCEPT ![s] = "open"]
      BY <1>5, EnteredStep
    <2>2. pc[t] \notin Holding
      BY <1>0, <2>1, Free
    <2> QED BY <1>0, <2>1, <2>2 DEF Holding
  <1>6. ASSUME NEW s \in Sinks, OpenFile(s), ~Fail(s)
        PROVE  stored' = next'[t]
    <2>1. pc[s] = "open" /\ pc' = [pc EXCEPT ![s] = "write"]
      BY <1>6, OpenedStep
    <2>2. t # s /\ pc[t] = "readback"
      BY <1>0, <2>1
    <2>3. pc[t] \in Holding => t = s
      BY <1>0, <2>1, Alone DEF Holding
    <2> QED BY <2>2, <2>3 DEF Holding
  <1>7. ASSUME NEW s \in Sinks, Readback(s), ~Fail(s)
        PROVE  stored' = next'[t]
    <2>1. UNCHANGED <<next, file>> /\ pc' = [pc EXCEPT ![s] = "confirm"]
      BY <1>7, ReadStep
    <2> QED BY <1>0, <1>1, <2>1
  <1>8. ASSUME NEW s \in Sinks, Step(s)
        PROVE  stored' = next'[t]
    <2>1. CASE ~WriteFile(s) /\ Fail(s)
      BY <1>4, <1>8, <2>1, FailedStep, FailTyped DEF StoreInv
    <2>2. CASE Confirm(s) /\ ~Fail(s) /\ ~WriteFile(s)
      BY <1>4, <1>8, <2>2, ConfirmedStep
    <2> QED BY <1>3, <1>5, <1>6, <1>7, <1>8, <2>1, <2>2, StepKinds
  <1>9. ASSUME NEW p \in Processes, Crash(p)
        PROVE  stored' = next'[t]
    BY <1>0, <1>9, CrashedStep
  <1>10. ASSUME UNCHANGED vars
         PROVE  stored' = next'[t]
    BY <1>1, <1>10 DEF vars
  <1> QED BY <1>2, <1>8, <1>9, <1>10 DEF Next

(* The line a sink adds is its own and new.                                *)
LEMMA NewLine ==
  ASSUME StoreInv, HealthyInv, Apart, [Next]_vars,
         NEW s \in Sinks, ReadExisting(s), ~Fail(s)
  PROVE  LET line == Snapshot(s, Absorbed(registry[s]))
         IN  /\ WroteThen(s, line)
             /\ \A i \in DOMAIN stored : Ends(stored[i]) # Ends(line)
  <1> DEFINE line == Snapshot(s, Absorbed(registry[s]))
  <1>1. /\ pc[s] = "persist" /\ pc' = [pc EXCEPT ![s] = "open"]
        /\ registry' = [registry EXCEPT ![s] = Absorbed(@)]
        /\ UNCHANGED session
    BY EnteredStep
  <1>2. /\ line.chain = ChainOf[s] /\ line.request = RequestOf[s]
        /\ line.events = proposal[s]
        /\ line.diagnostics = Absorbed(registry[s])[RequestOf[s]]
    BY SnapshotTyped DEF StoreInv
  <1> HIDE DEF line
  <1>3. /\ proposal[s] # <<>> /\ Last(proposal[s]).by = s
        /\ Last(proposal[s]).n = count[s] /\ count[s] # 0
    BY <1>1 DEF HealthyInv, Stages
  <1>4. IsPrefix(line.diagnostics, own'[s])
    <2>1. registry'[s] = Absorbed(registry[s])
      BY <1>1, AbsorbTyped DEF StoreInv
    <2> QED BY <1>2, <2>1, RegistryApart
  <1>5. IsPrefix(line.events, Current(s)')
    <2>1. Current(s)' = proposal[s]
      BY <1>1, <1>3 DEF Current, session
    <2>2. proposal[s] \in Seq(Events)
      BY DEF StoreInv, TypeOK
    <2> QED BY <1>2, <2>1, <2>2, PrefixSelf
  <1>6. count'[s] = count[s] /\ count[s] \in Nat /\ count[s] \in 1..count'[s]
    <2>1. count'[s] = count[s] /\ count[s] \in Nat
      BY <1>1, LayoutTypes DEF session, StoreInv, TypeOK
    <2> QED BY <1>3, <2>1
  <1>7. pc'[s] # "persist"
    BY <1>1 DEF StoreInv, TypeOK
  <1>8. WroteThen(s, line)
    BY <1>2, <1>3, <1>4, <1>5, <1>6, <1>7 DEF WroteThen
  <1>9. ASSUME NEW i \in DOMAIN stored, Ends(stored[i]) = Ends(line)
        PROVE  FALSE
    <2>1. PICK t \in Sinks : Wrote(t, stored[i])
      BY DEF HealthyInv, Owned
    <2>2. t = s /\ Last(stored[i].events).n = count[s]
      BY <1>2, <1>3, <1>9, <2>1 DEF Wrote, Ends
    <2> QED BY <1>1, <2>1, <2>2 DEF Wrote
  <1> QED BY <1>8, <1>9 DEF line

LEMMA OwnedStep ==
  ASSUME StoreInv, StoreInv', HealthyInv, Apart, [Next]_vars
  PROVE  OwnedThen(stored') /\ \A t \in Sinks : OwnedThen(next'[t])
  <1>0. /\ stored \in Seq(Lines) /\ next \in [Sinks -> Seq(Lines)]
        /\ \A t \in Sinks : next[t] \in Seq(Lines)
    BY DEF StoreInv, TypeOK
  <1>1. OwnedThen(stored) /\ \A t \in Sinks : OwnedThen(next[t])
    <2>1. Owned(stored) /\ \A t \in Sinks : Owned(next[t])
      BY DEF HealthyInv
    <2>2. \A t \in Sinks : Grows(t)
      BY SessionsGrow
    <2> QED BY <1>0, <2>1, <2>2, OwnedKept
  <1>2. ASSUME NEW s \in Sinks, PartlyWritten(s)
        PROVE  OwnedThen(stored')
    <2>1. PICK k \in 0..(Len(next[s]) - 1) : stored' = SubSeq(next[s], 1, k)
      BY <1>2 DEF PartlyWritten
    <2>2. k \in 0..Len(next[s])
      BY <1>0, LenProperties
    <2> QED BY <1>0, <1>1, <2>1, <2>2, OwnedFront
  <1>3. ASSUME NEW s \in Sinks, Done(s)
        PROVE  \A t \in Sinks : OwnedThen(next'[t])
    <2>1. next'[s] = <<>> /\ \A t \in Sinks \ {s} : next'[t] = next[t]
      BY <1>3, DoneTyped DEF StoreInv
    <2>2. OwnedThen(next'[s])
      BY <2>1, OwnedEmpty, Zenon
    <2> QED BY <1>1, <2>1, <2>2
  <1>4. ASSUME NEW s \in Sinks, Step(s)
        PROVE  OwnedThen(stored') /\ \A t \in Sinks : OwnedThen(next'[t])
    <2>1. CASE WriteFile(s)
      <3>1. \/ stored' = next[s]
            \/ PartlyWritten(s)
        BY <2>1, WrittenStep
      <3>2. next' = next \/ Done(s)
        BY <2>1, WrittenStep DEF Fail
      <3> QED BY <1>1, <1>2, <1>3, <3>1, <3>2
    <2>2. CASE ~WriteFile(s) /\ Fail(s)
      BY <1>1, <1>3, <1>4, <2>2, FailedStep DEF Fail, file
    <2>3. CASE ReadExisting(s) /\ ~Fail(s)
      <3> DEFINE line == Snapshot(s, Absorbed(registry[s]))
      <3>1. /\ next' = [next EXCEPT ![s] = Append(stored, line)]
            /\ stored' = stored
        BY <2>3, EnteredStep DEF file
      <3>2. /\ line \in Lines /\ WroteThen(s, line)
            /\ \A i \in DOMAIN stored : Ends(stored[i]) # Ends(line)
        BY <2>3, NewLine, SnapshotTyped DEF StoreInv
      <3> HIDE DEF line
      <3>3. OwnedThen(Append(stored, line))
        BY <1>0, <1>1, <3>2, OwnedAppended
      <3>4. next'[s] = Append(stored, line) /\ \A t \in Sinks \ {s} : next'[t] = next[t]
        BY <1>0, <3>1
      <3> QED BY <1>1, <3>1, <3>3, <3>4
    <2>4. CASE OpenFile(s) /\ ~Fail(s)
      <3>1. stored' = <<>> /\ next' = next
        BY <2>4, OpenedStep
      <3>2. OwnedThen(stored')
        BY <3>1, OwnedEmpty, Zenon
      <3> QED BY <1>1, <3>1, <3>2
    <2>5. CASE Readback(s) /\ ~Fail(s)
      BY <1>1, <2>5, ReadStep DEF file
    <2>6. CASE Confirm(s) /\ ~Fail(s)
      BY <1>1, <1>3, <2>6, ConfirmedStep DEF file
    <2> QED BY <1>4, <2>1, <2>2, <2>3, <2>4, <2>5, <2>6, StepKinds
  <1>5. ASSUME NEW s \in Sinks, NEW by, Record(s, by)
        PROVE  stored' = stored /\ next' = next
    BY <1>5 DEF Record, file
  <1>6. ASSUME NEW p \in Processes, Crash(p)
        PROVE  OwnedThen(stored') /\ \A t \in Sinks : OwnedThen(next'[t])
    <2>1. /\ next' = next
          /\ stored' = stored \/ (writer \in Sinks /\ PartlyWritten(writer))
      BY <1>6, CrashedStep DEF Apart, file
    <2> QED BY <1>1, <1>2, <2>1
  <1>7. CASE UNCHANGED vars
    BY <1>1, <1>7 DEF vars, file
  <1> QED BY <1>1, <1>4, <1>5, <1>6, <1>7 DEF Next

LEMMA HealthyStep ==
  ASSUME StoreInv, StoreInv', HealthyInv, [Next]_vars
  PROVE  HealthyInv'
  <1> SUFFICES ASSUME Apart
               PROVE  /\ \A s, t \in Sinks :
                           IsPrefix(registry'[s][RequestOf[t]], own'[t])
                      /\ \A s \in Sinks :
                           StageThen(s) /\ ReadbackThen(s) /\ OwnedThen(next'[s])
                      /\ OwnedThen(stored')
    BY LayoutFixed, ApartFixed
       DEF HealthyInv, StageThen, ReadbackThen, Owned, OwnedThen, Wrote, WroteThen,
           Stages
  <1> QED BY RegistryApart, StageStep, ReadbackStep, OwnedStep

LEMMA HealthyInvAlways == Spec => []HealthyInv
  <1>1. Init => HealthyInv
    <2> SUFFICES ASSUME Init, Apart PROVE HealthyInv
      BY DEF HealthyInv
    <2>0. /\ pc = [s \in Sinks |-> "idle"] /\ stored = <<>>
          /\ \A s \in Sinks : /\ own[s] = << <<RequestOf[s], 0>> >>
                              /\ registry[s] = Unregistered
                              /\ proposal[s] = <<>> /\ next[s] = <<>>
      BY DEF Init
    <2>1. Owned(<<>>)
      BY DEF Owned
    <2>2. Owned(stored) /\ \A s \in Sinks : Owned(next[s])
      BY <2>0, <2>1, Zenon
    <2>3. ASSUME NEW s \in Sinks, NEW t \in Sinks
          PROVE  IsPrefix(registry[s][RequestOf[t]], own[t])
      <3>1. RequestOf[t] \in Requests
        BY LayoutTypes DEF Init
      <3>2. registry[s][RequestOf[t]] = <<>>
        BY <2>0, <3>1 DEF Unregistered
      <3>3. own[t] \in Seq({<<RequestOf[t], 0>>})
        BY <2>0
      <3>4. IsPrefix(<<>>, own[t])
        BY <3>3, PrefixSelf
      <3> QED BY <3>2, <3>4, Zenon
    <2> QED BY <2>0, <2>2, <2>3 DEF HealthyInv, Stages
  <1> QED BY <1>1, HealthyStep, StoreInvAlways, PTL DEF Spec

(* Sessions of different requests have room for a chain each.              *)
LEMMA RecordAccepted ==
  ASSUME StoreInv, HealthyInv, Healthy,
         NEW s \in Sinks, NEW by \in {s, RequestOf[s]}, Record(s, by)
  PROVE  Retains(registry[s], RequestOf[s], own'[s])
  <1> DEFINE r == RequestOf[s]
             reg == registry[s]
  <1>1. r \in Requests /\ reg \in Registries /\ own[s] \in Seq(Envelopes) /\ MaxChains \in Nat
    BY LayoutTypes DEF StoreInv, TypeOK, Registries
  <1>2. IsPrefix(reg[r], own'[s])
    <2>1. IsPrefix(reg[r], own[s]) /\ reg[r] \in Seq(Envelopes)
      BY <1>1 DEF HealthyInv, Healthy, Apart, Registries
    <2>2. IsPrefix(own[s], own'[s]) /\ own'[s] \in Seq(Envelopes)
      BY RecordTyped DEF StoreInv
    <2> QED BY <1>1, <2>1, <2>2, PrefixTransitive
  <1>3. ASSUME reg[r] = <<>>
        PROVE  Cardinality(Registered(reg)) < MaxChains
    <2>1. Registered(reg) \subseteq Requests \ {r}
      BY <1>3 DEF Registered
    <2>2. /\ IsFiniteSet(Requests \ {r})
          /\ Cardinality(Requests \ {r}) = Cardinality(Requests) - 1
          /\ Cardinality(Requests) \in Nat
      BY <1>1, FiniteAssumption, FS_RemoveElement, FS_CardinalityType
    <2>3. /\ Cardinality(Registered(reg)) <= Cardinality(Requests \ {r})
          /\ IsFiniteSet(Registered(reg))
      BY <2>1, <2>2, FS_Subset
    <2>4. Cardinality(Registered(reg)) \in Nat /\ Cardinality(Requests) <= MaxChains
      BY <2>3, FS_CardinalityType DEF Healthy
    <2> QED BY <1>1, <2>2, <2>3, <2>4
  <1> QED BY <1>2, <1>3 DEF Retains

(* What one of them reads agrees with what it has registered.              *)
LEMMA ReadAccepted ==
  ASSUME StoreInv, HealthyInv, Healthy, ~torn, NEW s \in Sinks
  PROVE  Readable(registry[s])
  <1> DEFINE reg == registry[s]
  <1>1. /\ stored \in Seq(Lines) /\ MaxChains \in Nat /\ Fits(reg)
        /\ reg \in Registries
    BY LayoutTypes DEF StoreInv, TypeOK, Fits, Registries
  <1>2. ASSUME NEW i \in DOMAIN stored
        PROVE  Comparable(stored[i].diagnostics, reg[stored[i].request])
    <2>1. PICK t \in Sinks : Wrote(t, stored[i])
      BY DEF HealthyInv, Healthy, Apart, Owned
    <2>2. stored[i] \in Lines
      BY <1>1, LenProperties, ElementOfSeq
    <2>3. /\ stored[i].request = RequestOf[t]
          /\ IsPrefix(stored[i].diagnostics, own[t])
          /\ IsPrefix(reg[RequestOf[t]], own[t])
      BY <2>1 DEF Wrote, HealthyInv, Healthy, Apart
    <2>4. /\ stored[i].diagnostics \in Seq(Envelopes) /\ own[t] \in Seq(Envelopes)
          /\ reg[stored[i].request] \in Seq(Envelopes)
      BY <1>1, <2>2 DEF Lines, Registries, StoreInv, TypeOK
    <2> QED BY <2>3, <2>4, PrefixesComparable DEF Comparable
  <1>3. Consistent(reg, stored)
    BY <1>2 DEF StoreInv, Good, Decodes, Consistent
  <1>4. Cardinality(Named(reg, stored)) <= MaxChains
    <2>1. Named(reg, stored) \in SUBSET Requests /\ IsFiniteSet(Named(reg, stored))
      BY <1>1, NamedFinite
    <2>2. /\ Cardinality(Named(reg, stored)) <= Cardinality(Requests)
          /\ Cardinality(Named(reg, stored)) \in Nat
          /\ Cardinality(Requests) \in Nat
      BY <2>1, FiniteAssumption, FS_Subset, FS_CardinalityType
    <2> QED BY <1>1, <2>2 DEF Healthy
  <1>5. Decodes(reg, stored)
    BY <1>3, <1>4 DEF Decodes
  <1> QED BY <1>1, <1>5, AcceptsAll DEF Readable

LEMMA AppendAccepted ==
  ASSUME StoreInv, HealthyInv, Healthy, NEW s \in Sinks, s \notin failed,
         pc[s] \in Stages
  PROVE  AppendOnly(s)
  <1>1. stored \in Seq(Lines) /\ proposal[s] \in Seq(Events)
    BY DEF StoreInv, TypeOK
  <1>2. CASE Latest(stored, ChainOf[s]) = <<>>
    <2>1. IsPrefix(<<>>, proposal[s])
      BY <1>1, PrefixSelf
    <2>2. IsPrefix(Latest(stored, ChainOf[s]), proposal[s])
      BY <1>2, <2>1, Zenon
    <2> QED BY <2>2 DEF AppendOnly
  <1>3. CASE Latest(stored, ChainOf[s]) # <<>>
    <2>1. PICK i \in DOMAIN stored :
            /\ stored[i].chain = ChainOf[s]
            /\ Latest(stored, ChainOf[s]) = stored[i].events
      BY <1>1, <1>3, LatestLine
    <2>2. PICK t \in Sinks : Wrote(t, stored[i])
      BY DEF HealthyInv, Healthy, Apart, Owned
    <2>3. t = s
      BY <2>1, <2>2, OneOfItsKind DEF Wrote, Healthy, Apart
    <2>4. Current(s) = proposal[s]
      BY DEF HealthyInv, Healthy, Apart, Current
    <2> QED BY <2>1, <2>2, <2>3, <2>4 DEF Wrote, AppendOnly
  <1> QED BY <1>2, <1>3

(* Each line ends with an event of its own, and the one being recorded     *)
(* ends none yet.                                                          *)
LEMMA RoomLeft ==
  ASSUME StoreInv, HealthyInv, Healthy, NEW s \in Sinks, pc[s] = "persist"
  PROVE  Len(stored) < MaxLines
  <1> DEFINE n == Len(stored)
             T == Sinks \X (1..MaxEvents)
             end(i) == IF i = n + 1 THEN <<s, count[s]>> ELSE Ends(stored[i])
             f == [i \in 1..(n + 1) |-> end(i)]
  <1>1. /\ n \in Nat /\ DOMAIN stored = 1..n
        /\ MaxEvents \in Nat /\ MaxLines \in Nat /\ Sinks \subseteq AllSinks
        /\ \A t \in Sinks : count[t] \in 0..MaxEvents
    BY LayoutTypes, LenProperties DEF StoreInv, TypeOK
  <1>2. count[s] \in 1..MaxEvents
    BY <1>1 DEF HealthyInv, Healthy, Apart, Stages
  <1>3. ASSUME NEW i \in 1..n
        PROVE  Ends(stored[i]) \in T /\ Ends(stored[i]) # <<s, count[s]>>
    <2>1. PICK t \in Sinks : Wrote(t, stored[i])
      BY <1>1 DEF HealthyInv, Healthy, Apart, Owned
    <2>2. /\ Last(stored[i].events).by = t /\ Last(stored[i].events).n \in 1..MaxEvents
          /\ t = s => Last(stored[i].events).n # count[s]
      BY <1>1, <2>1 DEF Wrote
    <2> QED BY <2>2 DEF Ends
  <1>4. \A i, j \in 1..n : i # j => Ends(stored[i]) # Ends(stored[j])
    BY <1>1 DEF HealthyInv, Healthy, Apart, Owned
  <1> HIDE DEF n, T
  <1>5. <<s, count[s]>> \in T
    BY <1>2 DEF T
  <1>6. /\ f \in [1..(n + 1) -> T]
        /\ \A i, j \in 1..(n + 1) : f[i] = f[j] => i = j
    <2>1. \A i \in 1..(n + 1) : i \in 1..n \/ i = n + 1
      BY <1>1
    <2>2. \A i \in 1..n : i # n + 1
      BY <1>1
    <2>3. \A i \in 1..(n + 1) : end(i) \in T
      BY <1>3, <1>5, <2>1
    <2>4. \A i, j \in 1..(n + 1) : end(i) = end(j) => i = j
      BY <1>3, <1>4, <2>1, <2>2
    <2> QED BY <2>3, <2>4
  <1>7. f \in Injection(1..(n + 1), T)
    <2> HIDE DEF f
    <2> QED BY <1>6 DEF Injection, IsInjective
  <1>8. /\ IsFiniteSet(T) /\ Cardinality(T) = Cardinality(Sinks) * MaxEvents
    <2>1. IsFiniteSet(Sinks)
      BY <1>1, FiniteAssumption, FS_Subset
    <2>2. IsFiniteSet(1..MaxEvents) /\ Cardinality(1..MaxEvents) = MaxEvents
      BY <1>1, FS_Interval
    <2> QED BY <2>1, <2>2, FS_Product DEF T
  <1>9. Cardinality(1..(n + 1)) <= Cardinality(T)
    <2> HIDE DEF f
    <2> QED BY <1>7, <1>8, FS_Injection
  <1>10. Cardinality(1..(n + 1)) = n + 1
    BY <1>1, FS_Interval
  <1>11. Cardinality(T) \in Nat /\ Cardinality(T) <= MaxLines
    BY <1>8, FS_CardinalityType DEF Healthy
  <1>12. n < MaxLines
    BY <1>1, <1>9, <1>10, <1>11
  <1> QED BY <1>12 DEF n

(* Sessions of different requests and chains that share a file within its  *)
(* capacity do not refuse each other's events (retainDiagnosticChain,      *)
(* requireAppendOnly, persistChain): a session that has not failed fails   *)
(* in its own broken write, when the file has been torn, or when such a    *)
(* write lost its line before it was read again.                           *)
THEOREM SessionsDoNotMeet == Spec => HealthyNeverRefused
  <1>1. ASSUME StoreInv, HealthyInv, [Next]_vars
        PROVE  [Healthy /\ ~torn =>
                  \A s \in failed' \ failed : pc[s] \in {"write", "confirm"}]_vars
    <2> SUFFICES ASSUME Healthy, ~torn, NEW s \in failed', s \notin failed,
                        pc[s] \notin {"write", "confirm"}
                 PROVE  FALSE
      OBVIOUS
    <2>0. ~Io /\ OneProcess /\ Nobody \notin Sinks
      BY <1>1, LayoutTypes DEF Healthy, Io, StoreInv, TypeOK
    <2>1. ASSUME NEW u \in Sinks, NEW by \in {u, RequestOf[u]}, Record(u, by)
          PROVE  FALSE
      <3>1. UNCHANGED failed
        BY <1>1, <2>1, RecordAccepted DEF Record
      <3> QED BY <3>1
    <2>2. ASSUME NEW u \in Sinks, Step(u)
          PROVE  FALSE
      <3>1. CASE ~Fail(u)
        <4>1. failed' = failed
          BY <1>1, <2>2, <3>1, StepKinds, EnteredStep, OpenedStep, WrittenStep,
             ReadStep, ConfirmedStep DEF session
        <4> QED BY <4>1
      <3>2. CASE Fail(u)
        <4>1. u = s /\ pc'[s] = "idle"
          BY <1>1, <3>2, FailTyped, DoneTyped DEF StoreInv, TypeOK
        <4>2. CASE ReadExisting(s)
          <5>1. pc[s] = "persist" /\ registry' = [registry EXCEPT ![s] = Absorbed(@)]
            BY <4>2 DEF ReadExisting, Enter
          <5>2. Readable(registry[s]) /\ AppendOnly(s) /\ Len(stored) < MaxLines
            BY <1>1, <4>1, <5>1, ReadAccepted, AppendAccepted, RoomLeft DEF Stages
          <5>3. pc' = [pc EXCEPT ![s] = "open"]
            BY <4>2, <5>2 DEF ReadExisting, Goto
          <5> QED BY <1>1, <4>1, <5>3 DEF StoreInv, TypeOK
        <4>3. CASE OpenFile(s)
          <5>1. pc[s] = "open" /\ (writer # Nobody \/ pc' = [pc EXCEPT ![s] = "write"])
            BY <2>0, <4>3 DEF OpenFile, Goto
          <5>2. writer \in {s, Nobody} /\ (pc[s] = "write" <=> writer = s)
            BY <1>1, <2>0, <4>1, <5>1, Alone DEF Holding, StoreInv, Locked
          <5> QED BY <1>1, <4>1, <5>1, <5>2 DEF StoreInv, TypeOK
        <4>4. CASE Readback(s)
          <5>1. pc[s] = "readback" /\ stored = next[s]
            BY <1>1, <4>1, <4>4 DEF Readback, HealthyInv, Healthy, Apart
          <5>2. pc' = [pc EXCEPT ![s] = "confirm"]
            BY <2>0, <4>4, <5>1 DEF Readback, Goto
          <5> QED BY <1>1, <4>1, <5>2 DEF StoreInv, TypeOK
        <4>5. ~ReadFails(s) /\ ~WriteFile(s) /\ ~Confirm(s)
          BY <2>0 DEF ReadFails, WriteFile, Confirm
        <4> QED BY <2>2, <4>1, <4>2, <4>3, <4>4, <4>5 DEF Step
      <3> QED BY <3>1, <3>2
    <2>3. ASSUME NEW p \in Processes, Crash(p)
          PROVE  FALSE
      BY <2>3 DEF Crash, session
    <2>4. CASE UNCHANGED vars
      BY <2>4 DEF vars, session
    <2> QED BY <1>1, <2>1, <2>2, <2>3, <2>4 DEF Next
  <1> QED BY <1>1, StoreInvAlways, HealthyInvAlways, PTL DEF Spec, HealthyNeverRefused
===============================================================================
