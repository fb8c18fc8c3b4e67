-------------------------- MODULE DiagnosticExport_proofs --------------------------
(***************************************************************************)
(* Proofs about what a host does with diagnostics.  About the export, for  *)
(* any number of calls: the destination holds a whole pair or nothing of   *)
(* ours, a completed export stays there, and a failed one says where its   *)
(* files are.  About the chains, for any contents and any number of them:  *)
(* what the factories make is accepted, what is accepted tells one story,  *)
(* and a reference resolves where it belongs.  About the report, for any   *)
(* events and any edits of the snapshot: it says nothing that is not on    *)
(* the lists, it repeats what was captured, and what is missing is counted.*)
(***************************************************************************)
EXTENDS DiagnosticExport, DiagnosticChains, DiagnosticReport, SharedLemmas, TLAPS

(* A call past its rename owns the destination, and has no staging left.   *)
Placed ==
  \A c \in Calls :
    /\ pc[c] = "renamed" \/ result[c].complete =>
         destination # Absent /\ destination.by = c /\ staging[c] = Absent
    /\ result[c].complete => pc[c] = "returned"

(* A staging directory is reported from its creation to its rename.        *)
Located == \A c \in Calls : staging[c] # Absent => result[c].staged

IInv == TypeOK /\ PairWhole /\ Placed /\ Located

LEMMA InitInv == Init => IInv
  BY DEF Init, IInv, TypeOK, OwnPair, PairWhole, Placed, Located

(* The steps at the destination.                                           *)
LEMMA MoveInv ==
  ASSUME IInv, NEW c \in Calls, pc[c] = "rename", destination = Absent, Move(c),
         pc' \in {[pc EXCEPT ![c] = "renamed"], [pc EXCEPT ![c] = "returned"]},
         result' = result
  PROVE  IInv'
  <1> USE DEF IInv
  <1>1. /\ destination' = staging[c] /\ staging[c] \in Directories /\ Absent \notin Directories
        /\ staging[c].by = c /\ Whole(staging[c])
        /\ staging' = [staging EXCEPT ![c] = Absent]
    BY CallsAssumption DEF Move, TypeOK, OwnPair, Whole, Files
  <1>2. \A d \in Calls : pc[d] # "renamed" /\ ~result[d].complete
    BY DEF Placed
  <1>3. TypeOK'
    BY <1>1 DEF TypeOK, OwnPair
  <1>4. PairWhole'
    BY <1>1 DEF PairWhole, Whole
  <1>5. Placed'
    BY <1>1, <1>2 DEF Placed, TypeOK
  <1>6. Located'
    BY <1>1 DEF Located, TypeOK
  <1> QED BY <1>3, <1>4, <1>5, <1>6

(* A call that ends by an exception, or dies, leaves everything in place.  *)
LEMMA EndInv ==
  ASSUME IInv, NEW c \in Calls, pc[c] \notin {"returned", "dead"},
         pc' \in {[pc EXCEPT ![c] = "returned"], [pc EXCEPT ![c] = "dead"]},
         UNCHANGED <<destination, staging, result>>
  PROVE  IInv'
  <1> USE DEF IInv
  <1>1. TypeOK'
    BY DEF TypeOK, OwnPair
  <1>2. /\ pc'[c] \in {"returned", "dead"}
        /\ \A d \in Calls \ {c} : pc'[d] = pc[d]
    BY DEF TypeOK
  <1>3. ~result[c].complete
    BY DEF Placed
  <1>4. Placed'
    BY <1>2, <1>3 DEF Placed
  <1> QED BY <1>1, <1>4 DEF PairWhole, Located, Whole

LEMMA NextInv ==
  ASSUME IInv, [Next]_vars
  PROVE  IInv'
  <1> USE DEF IInv
  <1>1. ASSUME NEW c \in Calls, Exists(c) PROVE IInv'
    <2>1. CASE Fail(c)
      BY <1>1, <2>1, EndInv DEF Exists, Fail, Goto
    <2>2. CASE Goto(c, "create") /\ UNCHANGED result
      <3>1. TypeOK'
        BY <1>1, <2>2 DEF Exists, Goto, TypeOK, OwnPair
      <3>2. UNCHANGED <<destination, staging, result>>
        BY <1>1, <2>2 DEF Exists
      <3>3. PairWhole' /\ Located'
        BY <3>2 DEF PairWhole, Located, Whole
      <3>4. pc'[c] = "create" /\ \A d \in Calls \ {c} : pc'[d] = pc[d]
        BY <2>2 DEF Goto, TypeOK
      <3>5. ~result[c].complete
        BY <1>1 DEF Exists, Placed
      <3>6. Placed'
        BY <3>2, <3>4, <3>5 DEF Placed
      <3> QED BY <3>1, <3>3, <3>6
    <2> QED BY <1>1, <2>1, <2>2 DEF Exists
  <1>2. ASSUME NEW c \in Calls, CreateStaging(c) PROVE IInv'
    <2> DEFINE new == [by |-> c, holds |-> [f \in Files |-> "none"]]
    <2>1. CASE Fail(c) /\ UNCHANGED staging
      BY <1>2, <2>1, EndInv DEF CreateStaging, Fail, Goto
    <2>2. CASE /\ staging' = [staging EXCEPT ![c] = new]
               /\ result' = [result EXCEPT ![c].staged = TRUE]
               /\ Goto(c, "json")
      <3>1. new \in Directories /\ new # Absent /\ new.by = c
        BY CallsAssumption DEF Directories
      <3> HIDE DEF new
      <3>2. pc[c] = "create" /\ destination' = destination
        BY <1>2 DEF CreateStaging
      <3>3. TypeOK'
        <4>1. /\ staging' = [staging EXCEPT ![c] = new]
              /\ pc' = [pc EXCEPT ![c] = "json"]
          BY <2>2 DEF Goto
        <4>2. result' \in [Calls -> [complete : BOOLEAN, staged : BOOLEAN,
                                     files : SUBSET Files]]
          BY <2>2 DEF TypeOK
        <4> QED BY <3>1, <3>2, <4>1, <4>2 DEF TypeOK, OwnPair
      <3>4. Placed'
        BY <2>2, <3>2 DEF Goto, TypeOK, Placed
      <3>5. Located'
        BY <2>2 DEF TypeOK, Located
      <3> QED BY <3>2, <3>3, <3>4, <3>5 DEF PairWhole, Whole
    <2> QED BY <1>2, <2>1, <2>2 DEF CreateStaging
  <1>3. ASSUME NEW c \in Calls, NEW f \in Files, Write(c, f) PROVE IInv'
    <2>1. PICK content \in {"none", "part", "whole"} :
            /\ staging' = [staging EXCEPT ![c].holds[f] = content]
            /\ \/ Goto(c, Checking(f)) /\ UNCHANGED result
               \/ Fail(c)
      BY <1>3 DEF Write
    <2>2. /\ pc[c] = f /\ destination' = destination /\ result' = result
          /\ f \in {"json", "markdown"}
      BY <1>3, <2>1 DEF Write, Fail, Files
    <2>3. staging[c] \in Directories /\ staging[c].by = c /\ Absent \notin Directories
      BY <2>2, CallsAssumption DEF TypeOK, OwnPair
    <2> DEFINE new == [staging[c] EXCEPT !.holds[f] = content]
    <2>4. /\ staging' = [staging EXCEPT ![c] = new]
          /\ new \in Directories /\ new # Absent /\ new.by = c
          /\ \A g \in Files \ {f} : new.holds[g] = staging[c].holds[g]
      <3>1. staging' = [staging EXCEPT ![c] = new]
        BY <2>1
      <3>2. new.by = staging[c].by /\ new.holds = [staging[c].holds EXCEPT ![f] = content]
        BY <2>3 DEF Directories
      <3>3. new \in Directories
        BY <2>3 DEF Directories
      <3> QED BY <2>3, <3>1, <3>2, <3>3 DEF Directories
    <2> HIDE DEF new
    <2>5. \/ f = "json" /\ pc' = [pc EXCEPT ![c] = "check json"]
          \/ f = "markdown" /\ pc' = [pc EXCEPT ![c] = "check markdown"]
          \/ pc' = [pc EXCEPT ![c] = "returned"]
      BY <2>1, <2>2 DEF Goto, Fail, Checking
    <2>6. TypeOK'
      <3>1. /\ staging' \in [Calls -> Directories \cup {Absent}]
            /\ \A d \in Calls \ {c} : staging'[d] = staging[d] /\ pc'[d] = pc[d]
            /\ staging'[c] = new
        BY <2>4, <2>5 DEF TypeOK
      <3>2. f = "markdown" => new.holds["json"] = "whole"
        BY <2>2, <2>4 DEF TypeOK, OwnPair, Files
      <3>3. /\ pc'[c] \in {"check json", "check markdown", "returned"}
            /\ pc'[c] = "check markdown" => f = "markdown"
        BY <2>5 DEF TypeOK
      <3>4. pc' \in [Calls -> {"exists", "create", "json", "check json", "markdown",
                       "check markdown", "rename", "renamed", "returned", "dead"}]
        BY <2>5 DEF TypeOK
      <3>5. OwnPair(c)'
        BY <2>4, <3>1, <3>2, <3>3 DEF OwnPair
      <3>6. \A d \in Calls \ {c} : OwnPair(d)'
        BY <3>1 DEF TypeOK, OwnPair
      <3> QED BY <2>2, <3>1, <3>4, <3>5, <3>6 DEF TypeOK
    <2>7. Placed'
      <3>1. ~result[c].complete /\ pc[c] # "renamed"
        BY <2>2 DEF Placed
      <3>2. /\ pc'[c] # "renamed"
            /\ \A d \in Calls \ {c} : pc'[d] = pc[d] /\ staging'[d] = staging[d]
        BY <2>4, <2>5 DEF TypeOK
      <3> QED BY <2>2, <3>1, <3>2 DEF Placed
    <2>8. Located'
      BY <2>2, <2>3, <2>4, CallsAssumption DEF TypeOK, Located
    <2> QED BY <2>2, <2>6, <2>7, <2>8 DEF PairWhole, Whole
  <1>4. ASSUME NEW c \in Calls, NEW f \in Files, Check(c, f) PROVE IInv'
    <2>1. CASE Fail(c)
      BY <1>4, <2>1, EndInv DEF Check, Fail, Goto, Files, Checking
    <2>2. CASE /\ Matches(c, f) /\ Goto(c, AfterCheck(f))
               /\ result' = [result EXCEPT ![c].files = @ \cup {f}]
      <3>1. \/ /\ f = "json" /\ pc[c] = "check json"
               /\ pc' = [pc EXCEPT ![c] = "markdown"]
            \/ /\ f = "markdown" /\ pc[c] = "check markdown"
               /\ pc' = [pc EXCEPT ![c] = "rename"]
        BY <1>4, <2>2 DEF Check, Goto, Files, Checking, AfterCheck
      <3>2. UNCHANGED <<destination, staging>> /\ staging[c].holds[f] = "whole"
        BY <1>4, <2>2 DEF Check, Matches
      <3>3. result' \in [Calls -> [complete : BOOLEAN, staged : BOOLEAN,
                                   files : SUBSET Files]]
        BY <2>2 DEF TypeOK
      <3>4. \A d \in Calls : /\ result'[d].complete = result[d].complete
                             /\ result'[d].staged = result[d].staged
        BY <2>2 DEF TypeOK
      <3>5. TypeOK'
        BY <3>1, <3>2, <3>3 DEF TypeOK, OwnPair
      <3>6. Placed'
        <4>1. ~result[c].complete
          BY <3>1 DEF Placed
        <4>2. /\ pc'[c] # "renamed"
              /\ \A d \in Calls \ {c} : pc'[d] = pc[d]
          BY <3>1 DEF TypeOK
        <4> QED BY <3>2, <3>4, <4>1, <4>2 DEF Placed
      <3>7. Located'
        BY <3>2, <3>4 DEF Located
      <3> QED BY <3>2, <3>5, <3>6, <3>7 DEF PairWhole, Whole
    <2> QED BY <1>4, <2>1, <2>2 DEF Check
  <1>5. ASSUME NEW c \in Calls, Rename(c) PROVE IInv'
    <2>1. CASE destination = Absent /\ Move(c)
               /\ pc' \in {[pc EXCEPT ![c] = "renamed"], [pc EXCEPT ![c] = "returned"]}
               /\ result' = result
      BY <1>5, <2>1, MoveInv DEF Rename
    <2>2. CASE Fail(c) /\ UNCHANGED <<destination, staging>>
      BY <1>5, <2>2, EndInv DEF Rename, Fail, Goto
    <2> QED BY <1>5, <2>1, <2>2 DEF Rename, Fail, Goto
  <1>6. ASSUME NEW c \in Calls, Report(c) PROVE IInv'
    <2>1. /\ pc[c] = "renamed" /\ pc' = [pc EXCEPT ![c] = "returned"]
          /\ UNCHANGED <<destination, staging>>
      BY <1>6 DEF Report, Goto
    <2>2. /\ result' \in [Calls -> [complete : BOOLEAN, staged : BOOLEAN,
                                    files : SUBSET Files]]
          /\ \A d \in Calls \ {c} : result'[d] = result[d]
      BY <1>6 DEF Report, TypeOK
    <2>3. /\ destination # Absent /\ destination.by = c /\ staging[c] = Absent
      BY <2>1 DEF Placed
    <2>4. TypeOK'
      BY <2>1, <2>2 DEF TypeOK, OwnPair
    <2>5. Placed'
      <3>1. /\ pc'[c] = "returned"
            /\ \A d \in Calls \ {c} : pc'[d] = pc[d]
        BY <2>1 DEF TypeOK
      <3> QED BY <2>1, <2>2, <2>3, <3>1 DEF Placed
    <2>6. Located'
      BY <2>1, <2>2, <2>3 DEF Located
    <2> QED BY <2>1, <2>4, <2>5, <2>6 DEF PairWhole, Whole
  <1>7. ASSUME NEW c \in Calls, Crash(c) PROVE IInv'
    BY <1>7, EndInv DEF Crash, Goto
  <1>8. CASE OtherCreates
    <2> DEFINE new == [by |-> Other, holds |-> [f \in Files |-> "none"]]
    <2>1. /\ destination = Absent /\ destination' = new
          /\ UNCHANGED <<staging, pc, result>>
      BY <1>8 DEF OtherCreates
    <2>2. new \in Directories /\ new.by = Other /\ Other \notin Calls
      BY CallsAssumption DEF Directories
    <2> HIDE DEF new
    <2>3. TypeOK'
      BY <2>1, <2>2 DEF TypeOK, OwnPair
    <2>4. Placed'
      BY <2>1 DEF Placed
    <2> QED BY <2>1, <2>2, <2>3, <2>4 DEF PairWhole, Located
  <1>9. CASE UNCHANGED vars
    BY <1>9 DEF vars, TypeOK, OwnPair, PairWhole, Placed, Located, Whole
  <1> QED
    BY <1>1, <1>2, <1>3, <1>4, <1>5, <1>6, <1>7, <1>8, <1>9 DEF Next, Step

LEMMA AlwaysInv == Spec => []IInv
  BY InitInv, NextInv, PTL DEF Spec

-------------------------------------------------------------------------------
(* The variables keep their types: what is at the destination is nothing,  *)
(* a directory of another process, or one that a call has made.            *)
THEOREM TypeCorrect == Spec => []TypeOK
  BY AlwaysInv, PTL DEF IInv

(* For any number of calls that race, fail or die, what one of them puts   *)
(* at the destination is the verified pair (exportDiagnosticBundle).       *)
THEOREM PairAlwaysWhole == Spec => []PairWhole
  BY AlwaysInv, PTL DEF IInv

(* A report whose export said complete stays at the destination: no other  *)
(* call's rename succeeds.                                                 *)
THEOREM CompletedStays == Spec => []CompleteStays
  <1>1. IInv => CompleteStays
    BY DEF IInv, Placed, CompleteStays
  <1> QED BY <1>1, AlwaysInv, PTL

(* A call that failed reports the staging directory it left.               *)
THEOREM FailureAlwaysLocates == Spec => []FailureLocates
  <1>1. IInv => FailureLocates
    BY DEF IInv, Placed, Located, FailureLocates, TypeOK
  <1> QED BY <1>1, AlwaysInv, PTL

(* Together: an export of any number of racing calls is sound.             *)
THEOREM ExportStaysSound == Spec => []ExportSound
  BY PairAlwaysWhole, CompletedStays, FailureAlwaysLocates, PTL DEF ExportSound

-------------------------------------------------------------------------------
(* Diagnostic chains.                                                      *)

(* A chain is a record with a sequence of diagnostics, of whatever kind.   *)
IsChain(chain) ==
  /\ chain = [id |-> chain.id, root |-> chain.root, diagnostics |-> chain.diagnostics]
  /\ \E S : chain.diagnostics \in Seq(S)

(* The ranks of the stages.                                                *)
LEMMA StageRanks ==
  /\ ToSet(Stages) = {"DETECTION", "CLASSIFICATION", "RECOVERY", "ESCALATION", "TERMINAL"}
  /\ StageRank("DETECTION") = 1 /\ StageRank("CLASSIFICATION") = 2 /\ StageRank("RECOVERY") = 3
  /\ StageRank("ESCALATION") = 4 /\ StageRank("TERMINAL") = 5
  <1>1. Len(Stages) = 5 /\ DOMAIN Stages = 1..5
    BY DEF Stages
  <1>2. /\ Stages[1] = "DETECTION" /\ Stages[2] = "CLASSIFICATION" /\ Stages[3] = "RECOVERY"
        /\ Stages[4] = "ESCALATION" /\ Stages[5] = "TERMINAL"
    BY DEF Stages
  <1>3. 1..5 = {1, 2, 3, 4, 5}
    OBVIOUS
  <1>4. ASSUME NEW i \in 1..5 PROVE StageRank(Stages[i]) = i
    <2>1. \A j \in 1..5 : Stages[j] = Stages[i] => j = i
      BY <1>2, <1>3
    <2>2. \E j \in 1..Len(Stages) : Stages[j] = Stages[i]
      BY <1>1
    <2>3. StageRank(Stages[i]) \in 1..Len(Stages) /\ Stages[StageRank(Stages[i])] = Stages[i]
      BY <2>2 DEF StageRank
    <2> QED BY <1>1, <2>1, <2>3
  <1>5. ToSet(Stages) = {Stages[i] : i \in 1..5}
    BY <1>1 DEF ToSet
  <1>6. ToSet(Stages) = {"DETECTION", "CLASSIFICATION", "RECOVERY", "ESCALATION", "TERMINAL"}
    BY <1>5, <1>3, <1>2
  <1> QED BY <1>2, <1>3, <1>4, <1>6

(* In an ASH chain every diagnostic follows the one before.                *)
LEMMA StagesFollow ==
  ASSUME NEW chain, IsChain(chain), AllAsh(chain)
  PROVE  LET entry == chain.diagnostics
             stage(i) == entry[i].ash[1].stage
             last == Len(entry)
         IN  /\ last \in Nat
             /\ \A i \in 1..last : stage(i) \in ToSet(Stages)
             /\ last > 0 => stage(1) \notin {"ESCALATION", "TERMINAL"}
             /\ \A i \in 1..last : i > 1 =>
                  /\ stage(i - 1) # "TERMINAL"
                  /\ StageRank(stage(i)) >= StageRank(stage(i - 1))
                  /\ stage(i) = "ESCALATION" => stage(i - 1) \in {"RECOVERY", "CLASSIFICATION"}
  <1> DEFINE entry == chain.diagnostics
             last == Len(entry)
  <1>1. last \in Nat /\ DOMAIN entry = 1..last
    BY LenProperties DEF IsChain
  <1>2. ASSUME NEW i \in 1..last
        PROVE  /\ entry[i].ash # <<>>
               /\ entry[i].ash[1].stage \in ToSet(Stages)
               /\ Successor(entry[i].ash[1], IF i = 1 THEN <<>> ELSE entry[i - 1].ash)
    BY <1>1 DEF AllAsh, ValidAsh
  <1>3. last > 0 => entry[1].ash[1].stage \notin {"ESCALATION", "TERMINAL"}
    <2>1. last > 0 => 1 \in 1..last
      BY <1>1
    <2> QED BY <1>2, <2>1 DEF Successor
  <1>4. ASSUME NEW i \in 1..last, i > 1
        PROVE  /\ entry[i - 1].ash[1].stage # "TERMINAL"
               /\ StageRank(entry[i].ash[1].stage) >= StageRank(entry[i - 1].ash[1].stage)
               /\ entry[i].ash[1].stage = "ESCALATION" =>
                    entry[i - 1].ash[1].stage \in {"RECOVERY", "CLASSIFICATION"}
    <2>1. i - 1 \in 1..last
      BY <1>1, <1>4
    <2>2. entry[i - 1].ash # <<>> /\ Successor(entry[i].ash[1], entry[i - 1].ash)
      BY <1>2, <1>4, <2>1
    <2> QED BY <2>2 DEF Successor
  <1> QED BY <1>1, <1>2, <1>3, <1>4

(* ... and so forwards over any distance.                                  *)
LEMMA StagesForwards ==
  ASSUME NEW chain, IsChain(chain), AllAsh(chain)
  PROVE  LET stage(i) == chain.diagnostics[i].ash[1].stage
             last == Len(chain.diagnostics)
         IN  \A i, j \in 1..last : i <= j => StageRank(stage(i)) <= StageRank(stage(j))
  <1> DEFINE stage(i) == chain.diagnostics[i].ash[1].stage
             last == Len(chain.diagnostics)
             T == {n \in Nat : \A i \in 1..last : i + n \in 1..last => StageRank(stage(i)) <= StageRank(stage(i + n))}
  <1>1. last \in Nat
    BY StagesFollow
  <1>2. \A i \in 1..last : StageRank(stage(i)) \in Nat
    BY StagesFollow, StageRanks
  <1>3. 0 \in T
    BY <1>1, <1>2
  <1>4. ASSUME NEW n \in Nat, n \in T PROVE n + 1 \in T
    <2> SUFFICES ASSUME NEW i \in 1..last, i + (n + 1) \in 1..last
                 PROVE  StageRank(stage(i)) <= StageRank(stage(i + (n + 1)))
      OBVIOUS
    <2>1. i + n \in 1..last /\ (i + (n + 1)) - 1 = i + n /\ i + (n + 1) > 1
      BY <1>1
    <2>2. StageRank(stage(i)) <= StageRank(stage(i + n))
      BY <1>4, <2>1
    <2>3. StageRank(stage(i + (n + 1))) >= StageRank(stage(i + n))
      <3>1. StageRank(stage(i + (n + 1))) >= StageRank(stage((i + (n + 1)) - 1))
        BY <2>1, StagesFollow
      <3> QED BY <3>1, <2>1
    <2>4. /\ StageRank(stage(i)) \in Nat /\ StageRank(stage(i + n)) \in Nat
          /\ StageRank(stage(i + (n + 1))) \in Nat
      BY <1>2, <2>1
    <2> HIDE DEF stage, last, T
    <2> QED BY <2>2, <2>3, <2>4
  <1>5. Nat \subseteq T
    <2> HIDE DEF T
    <2> QED BY <1>3, <1>4, SetInduction
  <1>6. ASSUME NEW i \in 1..last, NEW j \in 1..last, i <= j
        PROVE  StageRank(stage(i)) <= StageRank(stage(j))
    <2>1. j - i \in Nat /\ i + (j - i) = j
      BY <1>1, <1>6
    <2>2. j - i \in T
      BY <1>5, <2>1
    <2>3. StageRank(stage(i)) <= StageRank(stage(i + (j - i)))
      BY <2>1, <2>2
    <2> QED BY <2>1, <2>3
  <1> QED BY <1>6

(* What is accepted as an ASH chain tells one story.                       *)
LEMMA AcceptedAdvances ==
  ASSUME NEW chain, IsChain(chain), AllAsh(chain)
  PROVE  LET stage(i) == chain.diagnostics[i].ash[1].stage
             last == Len(chain.diagnostics)
         IN  /\ \A i, j \in 1..last : i < j => StageRank(stage(i)) <= StageRank(stage(j))
             /\ \A i, j \in 1..last : i # j /\ stage(i) = "ESCALATION" => stage(j) # "ESCALATION"
             /\ \A i \in 1..last : stage(i) = "TERMINAL" => i = last /\ i > 1
  <1> DEFINE stage(i) == chain.diagnostics[i].ash[1].stage
             last == Len(chain.diagnostics)
  <1>1. last \in Nat
    BY StagesFollow
  <1>2. \A i, j \in 1..last : i <= j => StageRank(stage(i)) <= StageRank(stage(j))
    BY StagesForwards
  <1>3. \A i \in 1..last : stage(i) \in ToSet(Stages)
    BY StagesFollow
  <1>4. \A i \in 1..last : i > 1 =>
                  /\ stage(i - 1) # "TERMINAL"
                  /\ stage(i) = "ESCALATION" => stage(i - 1) \in {"RECOVERY", "CLASSIFICATION"}
    BY StagesFollow
  <1>5. last > 0 => stage(1) \notin {"ESCALATION", "TERMINAL"}
    BY StagesFollow
  <1> HIDE DEF stage, last
  <1>6. ASSUME NEW i \in 1..last, NEW j \in 1..last, i < j, stage(i) = "ESCALATION", stage(j) = "ESCALATION"
        PROVE  FALSE
    <2>1. j - 1 \in 1..last /\ i <= j - 1 /\ j > 1
      BY <1>1, <1>6
    <2>2. StageRank(stage(j - 1)) >= 4
      <3>1. StageRank(stage(i)) <= StageRank(stage(j - 1))
        BY <1>2, <2>1
      <3>2. StageRank(stage(i)) = 4
        BY <1>6, StageRanks
      <3>3. StageRank(stage(j - 1)) \in Nat
        BY <1>3, <2>1, StageRanks
      <3> QED BY <3>1, <3>2, <3>3
    <2>3. stage(j - 1) \in {"RECOVERY", "CLASSIFICATION"}
      BY <1>4, <1>6, <2>1
    <2> QED BY <2>2, <2>3, StageRanks
  <1>7. ASSUME NEW i \in 1..last, stage(i) = "TERMINAL" PROVE i = last /\ i > 1
    <2>1. i # 1
      BY <1>1, <1>5, <1>7
    <2>2. CASE i < last
      <3>1. i + 1 \in 1..last /\ (i + 1) - 1 = i /\ i + 1 > 1
        BY <1>1, <2>2
      <3> QED BY <1>4, <1>7, <3>1
    <2> QED BY <1>1, <2>1, <2>2
  <1>8. \A i, j \in 1..last : i # j => i < j \/ j < i
    BY <1>1
  <1>9. \A i, j \in 1..last : i # j /\ stage(i) = "ESCALATION" => stage(j) # "ESCALATION"
    BY <1>6, <1>8
  <1>10. \A i, j \in 1..last : i < j => StageRank(stage(i)) <= StageRank(stage(j))
    BY <1>1, <1>2
  <1> QED BY <1>7, <1>9, <1>10 DEF stage, last

-------------------------------------------------------------------------------
(* What the factories put together.                                        *)

Longer(chain, e) ==
  [id |-> chain.id, root |-> chain.root, diagnostics |-> Append(chain.diagnostics, e)]

(* The identity and the envelope of a diagnostic with contents c after     *)
(* those of a chain, and of one that starts a chain.                       *)
NextId(chain, c, ash) == [diagnostic |-> [after |-> chain, content |-> c, ash |-> ash]]
FirstId(c, ash) == [diagnostic |-> [content |-> c, ash |-> ash]]

Following(chain, c, ash, said) ==
  Envelope(c, said, NextId(chain, c, ash), chain.id, <<Last(chain.diagnostics).id>>)
Founding(c, ash, said) ==
  Envelope(c, said, FirstId(c, ash), [chain |-> FirstId(c, ash)], <<>>)

Founded(c, ash, said) ==
  [id |-> [chain |-> FirstId(c, ash)], root |-> FirstId(c, ash), diagnostics |-> <<Founding(c, ash, said)>>]

(* The ASH diagnostic as it is put in, with its root.                      *)
Rooted(ash, root) == [ash EXCEPT !.root = <<root>>]

(* A record of this shape, changed in one place.                           *)
LEMMA ChainExcept ==
  ASSUME NEW i, NEW r, NEW q, NEW p, NEW chain, chain = [id |-> i, root |-> r, diagnostics |-> q]
  PROVE  [chain EXCEPT !.diagnostics = p] = [id |-> i, root |-> r, diagnostics |-> p]
  <1>1. [[id |-> i, root |-> r, diagnostics |-> q] EXCEPT !.diagnostics = p]
          = [id |-> i, root |-> r, diagnostics |-> p]
    OBVIOUS
  <1> QED BY <1>1, Zenon

LEMMA RootExcept ==
  ASSUME NEW i, NEW r, NEW q, NEW p, NEW chain, chain = [id |-> i, root |-> r, diagnostics |-> q]
  PROVE  [chain EXCEPT !.root = p] = [id |-> i, root |-> p, diagnostics |-> q]
  <1>1. [[id |-> i, root |-> r, diagnostics |-> q] EXCEPT !.root = p]
          = [id |-> i, root |-> p, diagnostics |-> q]
    OBVIOUS
  <1> QED BY <1>1, Zenon

LEMMA KindExcept ==
  ASSUME NEW i, NEW r, NEW q, NEW n, NEW x, NEW chain, chain = [id |-> i, root |-> r, diagnostics |-> q]
  PROVE  [chain EXCEPT !.diagnostics[n].kind = x] =
           [id |-> i, root |-> r, diagnostics |-> [q EXCEPT ![n].kind = x]]
  BY SMT

LEMMA StageExcept ==
  ASSUME NEW i, NEW r, NEW q, NEW n, NEW x, NEW chain, chain = [id |-> i, root |-> r, diagnostics |-> q]
  PROVE  [chain EXCEPT !.diagnostics[n].ash[1].stage = x] =
           [id |-> i, root |-> r, diagnostics |-> [q EXCEPT ![n].ash[1].stage = x]]
  BY SMT

LEMMA BundleExcept ==
  ASSUME NEW i, NEW r, NEW q, NEW ref, NEW n, NEW x, NEW b,
         b = [chain |-> [id |-> i, root |-> r, diagnostics |-> q], reference |-> ref]
  PROVE  [b EXCEPT !.chain.diagnostics[n].ash = x] =
           [chain |-> [id |-> i, root |-> r, diagnostics |-> [q EXCEPT ![n].ash = x]], reference |-> ref]
  BY SMT

LEMMA LongerIsChain ==
  ASSUME NEW chain, IsChain(chain), NEW e
  PROVE  /\ IsChain(Longer(chain, e))
         /\ Len(chain.diagnostics) \in Nat
         /\ DOMAIN chain.diagnostics = 1..Len(chain.diagnostics)
         /\ Len(Longer(chain, e).diagnostics) = Len(chain.diagnostics) + 1
         /\ DOMAIN Longer(chain, e).diagnostics = 1..(Len(chain.diagnostics) + 1)
         /\ \A i \in 1..Len(chain.diagnostics) : Longer(chain, e).diagnostics[i] = chain.diagnostics[i]
         /\ Longer(chain, e).diagnostics[Len(chain.diagnostics) + 1] = e
         /\ Last(Longer(chain, e).diagnostics) = e
  <1> DEFINE q == chain.diagnostics
             r == Append(q, e)
  <1>1. PICK S : q \in Seq(S)
    BY DEF IsChain
  <1>2. q \in Seq(S \cup {e})
    BY <1>1
  <1>3. /\ r \in Seq(S \cup {e}) /\ Len(q) \in Nat /\ Len(r) = Len(q) + 1
        /\ DOMAIN q = 1..Len(q) /\ DOMAIN r = 1..(Len(q) + 1)
        /\ \A i \in 1..Len(q) : r[i] = q[i]
        /\ r[Len(q) + 1] = e
    BY <1>2, AppendProperties, LenProperties
  <1>4. Longer(chain, e).diagnostics = r
    BY DEF Longer
  <1>5. IsChain(Longer(chain, e))
    BY <1>3, <1>4 DEF IsChain, Longer
  <1>6. Last(r) = e
    BY <1>3 DEF Last
  <1> QED BY <1>3, <1>4, <1>5, <1>6

LEMMA FoundedIsChain ==
  ASSUME NEW c, NEW ash, NEW said
  PROVE  LET chain == Founded(c, ash, said)
         IN  /\ IsChain(chain) /\ Len(chain.diagnostics) = 1 /\ DOMAIN chain.diagnostics = {1}
             /\ chain.diagnostics[1] = Founding(c, ash, said)
             /\ Last(chain.diagnostics) = Founding(c, ash, said)
             /\ chain.diagnostics # <<>>
             /\ ValidChain(chain)
  <1> DEFINE e == Founding(c, ash, said)
             chain == Founded(c, ash, said)
  <1>1. chain.diagnostics = <<e>>
    BY DEF Founded
  <1>2. <<e>> \in Seq({e}) /\ Len(<<e>>) = 1 /\ DOMAIN <<e>> = {1} /\ <<e>>[1] = e /\ <<e>> # <<>>
    OBVIOUS
  <1>3. IsChain(chain)
    BY <1>1, <1>2 DEF IsChain, Founded
  <1>4. Last(<<e>>) = e
    BY <1>2 DEF Last
  <1>5. e.id = chain.root /\ e.parent = <<>> /\ e.chain = chain.id
    BY DEF Founding, Envelope, Founded
  <1>6. ValidChain(chain)
    <2>1. 2..Len(chain.diagnostics) = {}
      BY <1>1, <1>2
    <2> HIDE DEF e, chain
    <2> QED BY <1>1, <1>2, <1>5, <2>1 DEF ValidChain
  <1> QED BY <1>1, <1>2, <1>3, <1>4, <1>6

(* A diagnostic added to a chain.                                          *)
LEMMA AppendYields ==
  ASSUME NEW chain, IsChain(chain), NEW c, NEW ash, NEW b \in AppendDiagnosticBundle(chain, c, ash)
  PROVE  LET e == Following(chain, c, ash, ash)
         IN  /\ ValidChain(chain) /\ b = Bundle(e, Longer(chain, e)) /\ ValidChain(b.chain)
  <1> DEFINE e == Following(chain, c, ash, ash)
             longer == [chain EXCEPT !.diagnostics = Append(@, e)]
  <1>1. longer = Longer(chain, e)
    <2>1. chain = [id |-> chain.id, root |-> chain.root, diagnostics |-> chain.diagnostics]
      BY DEF IsChain
    <2> HIDE DEF e
    <2>2. \A p : [chain EXCEPT !.diagnostics = p] = [id |-> chain.id, root |-> chain.root, diagnostics |-> p]
      BY <2>1, ChainExcept
    <2> QED BY <2>2, Zenon DEF Longer
  <1>2. ValidChain(chain) /\ MeetsContract(c)
    BY DEF AppendDiagnosticBundle
  <1>3. AppendDiagnosticBundle(chain, c, ash) = IF ValidChain(longer) THEN {Bundle(e, longer)} ELSE {}
    BY <1>2 DEF AppendDiagnosticBundle, Following, NextId
  <1>4. ValidChain(longer) /\ b = Bundle(e, longer)
    <2> HIDE DEF longer, e
    <2> QED BY <1>3
  <1>5. b.chain = longer
    BY <1>4 DEF Bundle
  <1> QED BY <1>1, <1>2, <1>4, <1>5

(* An ASH diagnostic added to a chain.                                     *)
LEMMA AshYields ==
  ASSUME NEW chain, IsChain(chain), NEW c, NEW b \in MakeAshDiagnosticBundle(<<chain>>, c)
  PROVE  LET ash == AshOf(c, <<Last(chain.diagnostics).id>>, <<chain.root>>)
             said == Rooted(ash, chain.root)
             e == Following(chain, c, <<ash>>, <<said>>)
         IN  /\ ValidChain(chain) /\ AllAsh(chain)
             /\ b.chain = Longer(chain, e)
             /\ b.reference = Bundle(e, Longer(chain, e)).reference
             /\ ValidAsh(said, e, chain.root, Last(chain.diagnostics).ash)
             /\ ValidChain(b.chain)
  <1> DEFINE ash == AshOf(c, <<Last(chain.diagnostics).id>>, <<chain.root>>)
             said == Rooted(ash, chain.root)
             e == Following(chain, c, <<ash>>, <<said>>)
             f == Following(chain, c, <<ash>>, <<ash>>)
             previous == Last(chain.diagnostics).ash
             final(d) == [ash EXCEPT !.root = <<d.chain.root>>]
             made == AppendDiagnosticBundle(chain, c, <<ash>>)
             based == IF ValidChain(chain) /\ AllAsh(chain) THEN made ELSE {}
  <1>1. /\ b \in {WithAsh(d, final(d)) : d \in based}
        /\ ValidAsh(final(b), Last(b.chain.diagnostics), b.chain.root, previous)
        /\ ValidChain(b.chain)
    <2>1. <<chain>> # <<>> /\ <<chain>>[1] = chain
      OBVIOUS
    <2> HIDE DEF made
    <2> QED BY <2>1 DEF MakeAshDiagnosticBundle, made
  <1>2. PICK d \in based : b = WithAsh(d, final(d))
    BY <1>1
  <1>3. ValidChain(chain) /\ AllAsh(chain) /\ d \in made
    BY <1>2
  <1>4. d = Bundle(f, Longer(chain, f))
    BY <1>3, AppendYields
  <1>5. d.chain = Longer(chain, f) /\ d.chain.root = chain.root
    BY <1>4 DEF Bundle, Longer
  <1>6. final(d) = said
    BY <1>5 DEF Rooted
  <1>7. b.chain = Longer(chain, e) /\ b.reference = d.reference
    <2> DEFINE q == chain.diagnostics
               r == Append(q, f)
               n == Len(q) + 1
    <2>1. /\ Len(q) \in Nat /\ r[n] = f /\ Len(r) = n /\ DOMAIN r = 1..n
          /\ \A i \in 1..Len(q) : r[i] = q[i] /\ Append(q, e)[i] = q[i]
          /\ DOMAIN Append(q, e) = 1..n /\ Append(q, e)[n] = e
      BY LongerIsChain DEF Longer
    <2>2. [f EXCEPT !.ash = <<said>>] = e
      BY DEF Following, Envelope
    <2>3. [r EXCEPT ![n] = e] = Append(q, e)
      <3>1. Append(q, e) = [i \in 1..n |-> Append(q, e)[i]]
        <4>1. PICK S : q \in Seq(S)
          BY DEF IsChain
        <4>2. q \in Seq(S \cup {e})
          BY <4>1
        <4>3. Append(q, e) \in Seq(S \cup {e}) /\ Len(Append(q, e)) = n
          BY <4>2, AppendProperties
        <4> QED BY <4>3
      <3>2. \A i \in 1..n : i = n \/ i \in 1..Len(q)
        BY <2>1
      <3> HIDE DEF r, e, f, n, q
      <3>3. [r EXCEPT ![n] = e] = [i \in 1..n |-> Append(q, e)[i]]
        BY <2>1, <3>2
      <3> QED BY <3>1, <3>3
    <2>4. d = [chain |-> [id |-> chain.id, root |-> chain.root, diagnostics |-> r], reference |-> d.reference]
      BY <1>4 DEF Bundle, Longer
    <2>5. b = [d EXCEPT !.chain.diagnostics[Len(d.chain.diagnostics)].ash = <<said>>]
      BY <1>2, <1>6 DEF WithAsh
    <2>6. d.chain.diagnostics = r /\ Len(d.chain.diagnostics) = n
      BY <2>1, <2>4
    <2>7. b = [chain |-> [id |-> chain.id, root |-> chain.root,
                          diagnostics |-> [r EXCEPT ![n] = [r[n] EXCEPT !.ash = <<said>>]]],
               reference |-> d.reference]
      <3> HIDE DEF r, said, n
      <3>1. b = [d EXCEPT !.chain.diagnostics[n].ash = <<said>>]
        BY <2>5, <2>6
      <3>2. [r EXCEPT ![n].ash = <<said>>] = [r EXCEPT ![n] = [r[n] EXCEPT !.ash = <<said>>]]
        OBVIOUS
      <3> QED BY <2>4, <3>1, <3>2, BundleExcept
    <2> QED BY <2>1, <2>2, <2>3, <2>7 DEF Longer
  <1>8. b.reference = Bundle(e, Longer(chain, e)).reference
    BY <1>4, <1>7 DEF Bundle, Longer, Following, Envelope
  <1>9. b.chain.root = chain.root /\ Last(b.chain.diagnostics) = e /\ final(b) = said
    BY <1>7, LongerIsChain DEF Longer, Rooted
  <1> QED BY <1>1, <1>3, <1>7, <1>8, <1>9

(* A chain is started.                                                     *)
LEMMA MakeYields ==
  ASSUME NEW c, NEW ash, NEW b \in MakeDiagnosticBundle(c, ash)
  PROVE  b = Bundle(Founding(c, ash, ash), Founded(c, ash, ash))
  BY DEF MakeDiagnosticBundle, Founding, Founded, FirstId

(* ... with an ASH diagnostic.                                             *)
LEMMA AshFounds ==
  ASSUME NEW c, NEW b \in MakeAshDiagnosticBundle(<<>>, c)
  PROVE  LET ash == AshOf(c, <<>>, <<>>)
             said == Rooted(ash, FirstId(c, <<ash>>))
             e == Founding(c, <<ash>>, <<said>>)
         IN  /\ b.chain = Founded(c, <<ash>>, <<said>>)
             /\ b.reference = Bundle(e, b.chain).reference
             /\ ValidAsh(said, e, b.chain.root, <<>>)
  <1> DEFINE ash == AshOf(c, <<>>, <<>>)
             root == FirstId(c, <<ash>>)
             said == Rooted(ash, root)
             e == Founding(c, <<ash>>, <<said>>)
             f == Founding(c, <<ash>>, <<ash>>)
             final(d) == [ash EXCEPT !.root = <<d.chain.root>>]
             made == MakeDiagnosticBundle(c, <<ash>>)
  <1>1. /\ b \in {WithAsh(d, final(d)) : d \in made}
        /\ ValidAsh(final(b), Last(b.chain.diagnostics), b.chain.root, <<>>)
    <2> HIDE DEF made
    <2> QED BY DEF MakeAshDiagnosticBundle, made
  <1>2. PICK d \in made : b = WithAsh(d, final(d))
    BY <1>1
  <1>3. d = Bundle(f, Founded(c, <<ash>>, <<ash>>))
    BY <1>2, MakeYields
  <1>4. d.chain.root = root /\ d.chain.diagnostics = <<f>>
    BY <1>3 DEF Bundle, Founded
  <1>5. final(d) = said
    BY <1>4 DEF Rooted
  <1>6. b.chain = Founded(c, <<ash>>, <<said>>) /\ b.reference = d.reference
    <2>1. Len(<<f>>) = 1 /\ <<f>>[1] = f
      OBVIOUS
    <2>2. d = [chain |-> [id |-> [chain |-> root], root |-> root, diagnostics |-> <<f>>],
               reference |-> d.reference]
      BY <1>3 DEF Bundle, Founded
    <2>3. b = [d EXCEPT !.chain.diagnostics[1].ash = <<said>>]
      <3>1. b = [d EXCEPT !.chain.diagnostics[Len(d.chain.diagnostics)].ash = <<said>>]
        BY <1>2, <1>5 DEF WithAsh
      <3> QED BY <3>1, <1>4, <2>1
    <2>4. b = [chain |-> [id |-> [chain |-> root], root |-> root, diagnostics |-> [<<f>> EXCEPT ![1].ash = <<said>>]],
               reference |-> d.reference]
      <3> HIDE DEF f, root, said
      <3> QED BY <2>2, <2>3, BundleExcept
    <2>5. [<<f>> EXCEPT ![1].ash = <<said>>] = <<[f EXCEPT !.ash = <<said>>]>>
      <3> HIDE DEF f, said
      <3> QED OBVIOUS
    <2>6. [f EXCEPT !.ash = <<said>>] = e
      BY DEF Founding, Envelope
    <2> QED BY <2>4, <2>5, <2>6 DEF Founded
  <1>7. b.reference = Bundle(e, b.chain).reference
    BY <1>3, <1>6 DEF Bundle, Founded, Founding, Envelope
  <1>8. b.chain.root = root /\ Last(b.chain.diagnostics) = e /\ final(b) = said
    <2>1. b.chain.root = root
      <3> HIDE DEF e, root, said
      <3> QED BY <1>6 DEF Founded, root
    <2>2. Last(b.chain.diagnostics) = e
      <3>1. Last(Founded(c, <<ash>>, <<said>>).diagnostics) = e
        BY FoundedIsChain
      <3> HIDE DEF e, said, ash
      <3> QED BY <1>6, <3>1
    <2>3. final(b) = said
      <3> HIDE DEF root, ash
      <3> QED BY <2>1 DEF Rooted
    <2> QED BY <2>1, <2>2, <2>3
  <1> QED BY <1>1, <1>6, <1>7, <1>8

-------------------------------------------------------------------------------
(* What every bundle of the factories is.                                  *)

(* The ASH diagnostic of an identity, as it stands in the chain.           *)
Settled(ash, root) == IF ash = <<>> THEN <<>> ELSE <<Rooted(ash[1], root)>>

Cut(chain, n) ==
  [id |-> chain.id, root |-> chain.root, diagnostics |-> SubSeq(chain.diagnostics, 1, n)]

(* A diagnostic of a chain is what its identity says, and the identity     *)
(* says what came before.                                                  *)
Spelled(chain, i) ==
  LET e == chain.diagnostics[i]
      said == e.id.diagnostic
  IN  /\ e.id = IF i = 1 THEN FirstId(said.content, said.ash)
                ELSE NextId(Cut(chain, i - 1), said.content, said.ash)
      /\ e = Envelope(said.content, Settled(said.ash, chain.root), e.id, chain.id,
                      IF i = 1 THEN <<>> ELSE <<chain.diagnostics[i - 1].id>>)

Genuine(chain) ==
  /\ IsChain(chain) /\ ValidChain(chain)
  /\ chain.id = [chain |-> chain.root]
  /\ \A i \in 1..Len(chain.diagnostics) : Spelled(chain, i)

NoAsh(chain) == \A i \in DOMAIN chain.diagnostics : chain.diagnostics[i].ash = <<>>

(* The mark of a bundle says which factories made its chain.               *)
Marked(b) ==
  /\ b.made \in {"ash", "plain", "both"}
  /\ b.made = "ash" <=> AllAsh(b.chain)
  /\ b.made = "plain" <=> NoAsh(b.chain)

Refers(b) == b.reference = Bundle(Last(b.chain.diagnostics), b.chain).reference

BundlesInv == \A b \in bundles : Genuine(b.chain) /\ Marked(b) /\ Refers(b)

ChainsInv == BundlesInv /\ \A chain \in foreign : IsChain(chain)

(* A chain may be cut after any of its diagnostics.                        *)
LEMMA CutIs ==
  ASSUME NEW chain, IsChain(chain), NEW n \in 0..Len(chain.diagnostics)
  PROVE  /\ Len(Cut(chain, n).diagnostics) = n
         /\ \A i \in 1..n : Cut(chain, n).diagnostics[i] = chain.diagnostics[i]
  <1>1. PICK S : chain.diagnostics \in Seq(S)
    BY DEF IsChain
  <1>2. Len(chain.diagnostics) \in Nat
    BY <1>1, LenProperties
  <1>3. \A i \in 1..n : chain.diagnostics[i] \in S
    BY <1>1, <1>2, ElementOfSeq
  <1>4. /\ Len(SubSeq(chain.diagnostics, 1, n)) = n
        /\ \A i \in 1..n : SubSeq(chain.diagnostics, 1, n)[i] = chain.diagnostics[i]
    BY <1>1, <1>2, <1>3, SubSeqProperties
  <1> QED BY <1>4 DEF Cut

(* What comes before an entry is the same when the chain gets longer.      *)
LEMMA CutOfLonger ==
  ASSUME NEW chain, IsChain(chain), NEW e, NEW n \in 0..Len(chain.diagnostics)
  PROVE  /\ Cut(Longer(chain, e), n) = Cut(chain, n)
         /\ Cut(chain, Len(chain.diagnostics)) = chain
  <1> DEFINE q == chain.diagnostics
  <1>1. PICK S : q \in Seq(S)
    BY DEF IsChain
  <1>2. q \in Seq(S \cup {e}) /\ e \in S \cup {e}
    BY <1>1, SeqMonotonic
  <1>3. Len(q) \in Nat
    BY <1>1, LenProperties
  <1>4. SubSeq(Append(q, e), 1, n) = SubSeq(q, 1, n)
    <2> DEFINE s == SubSeq(q, 1, n)
               t == SubSeq(Append(q, e), 1, n)
    <2>1. \A i \in 1..n : q[i] \in S \cup {e} /\ Append(q, e)[i] = q[i]
      BY <1>2, <1>3, ElementOfSeq, AppendProperties
    <2>2. Append(q, e) \in Seq(S \cup {e}) /\ Len(Append(q, e)) = Len(q) + 1
      BY <1>2, AppendProperties
    <2>3. s \in Seq(S \cup {e}) /\ Len(s) = n /\ \A i \in 1..n : s[i] = q[i]
      BY <1>2, <1>3, <2>1, SubSeqProperties
    <2>4. t \in Seq(S \cup {e}) /\ Len(t) = n /\ \A i \in 1..n : t[i] = q[i]
      BY <1>3, <2>1, <2>2, SubSeqProperties
    <2> HIDE DEF s, t
    <2> QED BY <2>3, <2>4, SeqEqual
  <1>5. SubSeq(q, 1, Len(q)) = q
    BY <1>1, SubSeqFull
  <1> QED BY <1>4, <1>5 DEF Cut, Longer, IsChain

LEMMA LongerGenuine ==
  ASSUME NEW chain, Genuine(chain), NEW c, NEW ash, NEW e,
         e = Following(chain, c, ash, Settled(ash, chain.root)), ValidChain(Longer(chain, e))
  PROVE  Genuine(Longer(chain, e))
  <1> DEFINE q == chain.diagnostics
             long == Longer(chain, e)
  <1>1. IsChain(chain) /\ q # <<>> /\ Len(q) \in Nat
    BY LongerIsChain DEF Genuine, ValidChain
  <1>2. Len(q) # 0
    BY <1>1, EmptySeq DEF IsChain
  <1>3. /\ IsChain(long) /\ Len(long.diagnostics) = Len(q) + 1
        /\ \A i \in 1..Len(q) : long.diagnostics[i] = q[i]
        /\ long.diagnostics[Len(q) + 1] = e
    BY <1>1, LongerIsChain
  <1>4. long.id = chain.id /\ long.root = chain.root
    BY DEF Longer
  <1>5. ASSUME NEW i \in 1..Len(q) PROVE Spelled(long, i)
    <2>1. Spelled(chain, i)
      BY DEF Genuine
    <2>2. long.diagnostics[i] = q[i]
      BY <1>3
    <2>3. i # 1 => /\ i - 1 \in 1..Len(q) /\ long.diagnostics[i - 1] = q[i - 1]
                   /\ Cut(long, i - 1) = Cut(chain, i - 1)
      <3>1. i # 1 => i - 1 \in 1..Len(q) /\ i - 1 \in 0..Len(q)
        BY <1>1
      <3> QED BY <3>1, <1>1, <1>3, CutOfLonger
    <2> HIDE DEF long
    <2> QED BY <2>1, <2>2, <2>3, <1>4 DEF Spelled
  <1>6. Spelled(long, Len(q) + 1)
    <2>1. (Len(q) + 1) - 1 = Len(q) /\ Len(q) + 1 # 1 /\ Len(q) \in 1..Len(q) /\ Len(q) \in 0..Len(q)
      BY <1>1, <1>2
    <2>2. Cut(long, Len(q)) = chain
      BY <1>1, <2>1, CutOfLonger
    <2>3. e.id = NextId(chain, c, ash) /\ e.id.diagnostic.content = c /\ e.id.diagnostic.ash = ash
      BY DEF Following, Envelope, NextId
    <2>4. e = Envelope(c, Settled(ash, long.root), e.id, long.id, <<long.diagnostics[Len(q)].id>>)
      BY <1>3, <1>4, <2>1, <2>3 DEF Following, Last
    <2> HIDE DEF long
    <2> QED BY <1>3, <2>1, <2>2, <2>3, <2>4 DEF Spelled
  <1>7. \A i \in 1..Len(long.diagnostics) : i \in 1..Len(q) \/ i = Len(q) + 1
    BY <1>1, <1>3
  <1>8. \A i \in 1..Len(long.diagnostics) : Spelled(long, i)
    BY <1>5, <1>6, <1>7
  <1>9. long.id = [chain |-> long.root]
    BY <1>4 DEF Genuine
  <1> HIDE DEF long
  <1> QED BY <1>3, <1>8, <1>9 DEF Genuine, long

LEMMA FoundedGenuine ==
  ASSUME NEW c, NEW ash
  PROVE  Genuine(Founded(c, ash, Settled(ash, FirstId(c, ash))))
  <1> DEFINE said == Settled(ash, FirstId(c, ash))
             chain == Founded(c, ash, said)
             e == Founding(c, ash, said)
  <1>1. /\ IsChain(chain) /\ ValidChain(chain) /\ Len(chain.diagnostics) = 1
        /\ chain.diagnostics[1] = e
    BY FoundedIsChain
  <1>2. chain.id = [chain |-> chain.root] /\ chain.root = FirstId(c, ash)
    BY DEF Founded
  <1>3. e.id = FirstId(c, ash) /\ e.id.diagnostic.content = c /\ e.id.diagnostic.ash = ash
    BY DEF Founding, Envelope, FirstId
  <1>4. e = Envelope(c, Settled(ash, chain.root), e.id, chain.id, <<>>)
    BY <1>2, <1>3 DEF Founding
  <1> HIDE DEF chain, e
  <1>5. Spelled(chain, 1)
    BY <1>1, <1>3, <1>4 DEF Spelled
  <1> QED BY <1>1, <1>2, <1>5 DEF Genuine, chain

(* A longer chain is of ASH diagnostics, or of none, if it was and the new *)
(* one is.                                                                 *)
LEMMA LongerMarks ==
  ASSUME NEW chain, IsChain(chain), chain.diagnostics # <<>>, NEW e
  PROVE  /\ AllAsh(Longer(chain, e)) <=>
              /\ AllAsh(chain) /\ e.ash # <<>>
              /\ ValidAsh(e.ash[1], e, chain.root, Last(chain.diagnostics).ash)
         /\ NoAsh(Longer(chain, e)) <=> NoAsh(chain) /\ e.ash = <<>>
  <1> DEFINE q == chain.diagnostics
             long == Longer(chain, e)
             r == long.diagnostics
             fits(s, root, i) == s[i].ash # <<>> /\ ValidAsh(s[i].ash[1], s[i], root, IF i = 1 THEN <<>> ELSE s[i - 1].ash)
  <1>1. /\ Len(q) \in Nat /\ Len(q) # 0 /\ DOMAIN q = 1..Len(q)
        /\ DOMAIN r = 1..(Len(q) + 1) /\ r[Len(q) + 1] = e
        /\ \A i \in 1..Len(q) : r[i] = q[i]
    BY LongerIsChain, EmptySeq DEF IsChain
  <1>2. long.root = chain.root
    BY DEF Longer
  <1>3. AllAsh(chain) <=> \A i \in 1..Len(q) : fits(q, chain.root, i)
    BY <1>1 DEF AllAsh
  <1>4. AllAsh(long) <=> \A i \in 1..(Len(q) + 1) : fits(r, chain.root, i)
    <2> HIDE DEF long
    <2> QED BY <1>1, <1>2 DEF AllAsh
  <1>5. ASSUME NEW i \in 1..Len(q) PROVE fits(r, chain.root, i) <=> fits(q, chain.root, i)
    <2>1. i # 1 => i - 1 \in 1..Len(q)
      BY <1>1
    <2>2. r[i] = q[i] /\ (i # 1 => r[i - 1] = q[i - 1])
      BY <1>1, <2>1
    <2> HIDE DEF r, q
    <2> QED BY <2>2
  <1>6. fits(r, chain.root, Len(q) + 1) <=>
          e.ash # <<>> /\ ValidAsh(e.ash[1], e, chain.root, Last(chain.diagnostics).ash)
    <2>1. (Len(q) + 1) - 1 = Len(q) /\ Len(q) + 1 # 1 /\ Len(q) \in 1..Len(q)
      BY <1>1
    <2>2. r[Len(q)] = Last(chain.diagnostics) /\ r[Len(q) + 1] = e
      BY <1>1, <2>1 DEF Last
    <2> HIDE DEF r, q
    <2> QED BY <2>1, <2>2
  <1>7. /\ \A i \in 1..(Len(q) + 1) : i \in 1..Len(q) \/ i = Len(q) + 1
        /\ \A i \in 1..Len(q) : i \in 1..(Len(q) + 1)
        /\ Len(q) + 1 \in 1..(Len(q) + 1)
    BY <1>1
  <1>8. AllAsh(long) <=> /\ AllAsh(chain) /\ e.ash # <<>>
                         /\ ValidAsh(e.ash[1], e, chain.root, Last(chain.diagnostics).ash)
    <2> HIDE DEF fits, long, q, r
    <2> QED BY <1>3, <1>4, <1>5, <1>6, <1>7
  <1>9. NoAsh(long) <=> NoAsh(chain) /\ e.ash = <<>>
    <2> HIDE DEF long
    <2> QED BY <1>1, <1>7 DEF NoAsh
  <1> QED BY <1>8, <1>9

(* An identity that occurs in two chains of one root says that they are    *)
(* the same up to there.                                                   *)
LEMMA SameTrail ==
  ASSUME NEW x, Genuine(x), NEW y, Genuine(y), x.id = y.id,
         NEW i \in 1..Len(x.diagnostics), NEW j \in 1..Len(y.diagnostics),
         x.diagnostics[i].id = y.diagnostics[j].id
  PROVE  i = j /\ \A k \in 1..i : x.diagnostics[k] = y.diagnostics[k]
  <1> DEFINE p == x.diagnostics
             q == y.diagnostics
             said == p[i].id.diagnostic
  <1>1. /\ IsChain(x) /\ IsChain(y) /\ Spelled(x, i) /\ Spelled(y, j)
        /\ Len(p) \in Nat /\ Len(q) \in Nat
    BY LongerIsChain DEF Genuine
  <1>2. x.root = y.root
    <2>1. [chain |-> x.root] = [chain |-> y.root]
      BY DEF Genuine
    <2>2. [chain |-> x.root].chain = [chain |-> y.root].chain
      BY <2>1
    <2> QED BY <2>2
  <1>3. /\ p[i].id = IF i = 1 THEN FirstId(said.content, said.ash)
                     ELSE NextId(Cut(x, i - 1), said.content, said.ash)
        /\ p[i].id = IF j = 1 THEN FirstId(said.content, said.ash)
                     ELSE NextId(Cut(y, j - 1), said.content, said.ash)
        /\ p[i] = Envelope(said.content, Settled(said.ash, x.root), p[i].id, x.id,
                           IF i = 1 THEN <<>> ELSE <<p[i - 1].id>>)
        /\ q[j] = Envelope(said.content, Settled(said.ash, x.root), p[i].id, x.id,
                           IF j = 1 THEN <<>> ELSE <<q[j - 1].id>>)
    BY <1>1, <1>2 DEF Spelled
  <1> HIDE DEF said
  <1>4. \A z, c, a : FirstId(c, a) # NextId(z, c, a)
    <2> SUFFICES ASSUME NEW z, NEW c, NEW a, FirstId(c, a) = NextId(z, c, a) PROVE FALSE
      OBVIOUS
    <2>1. FirstId(c, a).diagnostic = [content |-> c, ash |-> a]
      BY DEF FirstId
    <2>2. NextId(z, c, a).diagnostic = [after |-> z, content |-> c, ash |-> a]
      BY DEF NextId
    <2>3. DOMAIN FirstId(c, a).diagnostic = {"content", "ash"}
      BY <2>1
    <2>4. DOMAIN NextId(z, c, a).diagnostic = {"after", "content", "ash"}
      BY <2>2
    <2>5. "after" \in {"after", "content", "ash"} /\ "after" \notin {"content", "ash"}
      OBVIOUS
    <2>6. FirstId(c, a).diagnostic = NextId(z, c, a).diagnostic
      OBVIOUS
    <2> QED BY <2>3, <2>4, <2>5, <2>6
  <1>5. CASE i = 1 \/ j = 1
    <2>1. i = 1 /\ j = 1
      BY <1>3, <1>4, <1>5
    <2>2. p[i] = q[j]
      BY <1>3, <2>1
    <2> QED BY <2>1, <2>2
  <1>6. CASE i # 1 /\ j # 1
    <2>1. i - 1 \in 0..Len(p) /\ j - 1 \in 0..Len(q)
      BY <1>1
    <2>2. Cut(x, i - 1) = Cut(y, j - 1)
      <3>1. NextId(Cut(x, i - 1), said.content, said.ash) = NextId(Cut(y, j - 1), said.content, said.ash)
        BY <1>3, <1>6
      <3>2. \A z : NextId(z, said.content, said.ash).diagnostic.after = z
        BY DEF NextId
      <3> QED BY <3>1, <3>2
    <2>3. /\ Len(Cut(x, i - 1).diagnostics) = i - 1 /\ Len(Cut(y, j - 1).diagnostics) = j - 1
          /\ \A k \in 1..(i - 1) : Cut(x, i - 1).diagnostics[k] = p[k]
          /\ \A k \in 1..(j - 1) : Cut(y, j - 1).diagnostics[k] = q[k]
      BY <1>1, <2>1, CutIs
    <2>4. i = j /\ \A k \in 1..(i - 1) : p[k] = q[k]
      <3>1. i - 1 = j - 1
        BY <2>2, <2>3
      <3>2. i = j
        BY <3>1, <1>1
      <3> QED BY <2>2, <2>3, <3>2
    <2>5. p[i - 1].id = q[j - 1].id
      BY <1>1, <1>6, <2>4
    <2>6. p[i] = q[j]
      BY <1>3, <1>6, <2>5
    <2>7. \A k \in 1..i : k \in 1..(i - 1) \/ k = i
      BY <1>1
    <2> QED BY <2>4, <2>6, <2>7
  <1> QED BY <1>5, <1>6

-------------------------------------------------------------------------------
(* The invariant, step by step.                                            *)

Made(b, used, how) ==
  [chain |-> b.chain, reference |-> b.reference, made |-> IF used \in {how, "none"} THEN how ELSE "both"]

Right(b) == Genuine(b.chain) /\ Marked(b) /\ Refers(b)

LEMMA PlainStarts ==
  ASSUME NEW c, NEW b \in MakeDiagnosticBundle(c, <<>>)
  PROVE  Right(Made(b, "none", "plain"))
  <1> DEFINE e == Founding(c, <<>>, <<>>)
             chain == Founded(c, <<>>, <<>>)
             d == Made(b, "none", "plain")
  <1>1. b = Bundle(e, chain)
    BY MakeYields
  <1>2. d.chain = chain /\ d.reference = b.reference /\ d.made = "plain"
    BY <1>1 DEF Made, Bundle
  <1>3. Genuine(chain)
    <2>1. Settled(<<>>, FirstId(c, <<>>)) = <<>>
      BY DEF Settled
    <2> QED BY <2>1, FoundedGenuine
  <1>4. DOMAIN chain.diagnostics = {1} /\ chain.diagnostics[1] = e /\ Last(chain.diagnostics) = e
    BY FoundedIsChain
  <1>5. e.ash = <<>>
    BY DEF Founding, Envelope
  <1>6. NoAsh(chain) /\ ~AllAsh(chain)
    <2> HIDE DEF chain, e
    <2> QED BY <1>4, <1>5 DEF NoAsh, AllAsh
  <1>7. Refers(d)
    BY <1>1, <1>2, <1>4 DEF Refers, Bundle
  <1> HIDE DEF d, chain
  <1> QED BY <1>2, <1>3, <1>6, <1>7 DEF Right, Marked, d

LEMMA AshStarts ==
  ASSUME NEW c, NEW b \in MakeAshDiagnosticBundle(<<>>, c)
  PROVE  Right(Made(b, "none", "ash"))
  <1> DEFINE ash == AshOf(c, <<>>, <<>>)
             said == Rooted(ash, FirstId(c, <<ash>>))
             e == Founding(c, <<ash>>, <<said>>)
             chain == Founded(c, <<ash>>, <<said>>)
             d == Made(b, "none", "ash")
  <1>1. /\ b.chain = chain /\ b.reference = Bundle(e, chain).reference
        /\ ValidAsh(said, e, chain.root, <<>>)
    BY AshFounds
  <1>2. d.chain = chain /\ d.reference = b.reference /\ d.made = "ash"
    BY <1>1 DEF Made
  <1>3. Genuine(chain)
    <2>1. Settled(<<ash>>, FirstId(c, <<ash>>)) = <<said>>
      BY DEF Settled
    <2> QED BY <2>1, FoundedGenuine
  <1>4. DOMAIN chain.diagnostics = {1} /\ chain.diagnostics[1] = e /\ Last(chain.diagnostics) = e
    BY FoundedIsChain
  <1>5. e.ash # <<>> /\ e.ash[1] = said
    BY DEF Founding, Envelope
  <1>6. AllAsh(chain) /\ ~NoAsh(chain)
    <2> HIDE DEF chain, e, said
    <2> QED BY <1>1, <1>4, <1>5 DEF NoAsh, AllAsh
  <1>7. Refers(d)
    BY <1>1, <1>2, <1>4 DEF Refers, Bundle
  <1> HIDE DEF d, chain
  <1> QED BY <1>2, <1>3, <1>6, <1>7 DEF Right, Marked, d

LEMMA PlainExtends ==
  ASSUME NEW d, Right(d), NEW c, NEW b \in AppendDiagnosticBundle(d.chain, c, <<>>)
  PROVE  Right(Made(b, d.made, "plain"))
  <1> DEFINE e == Following(d.chain, c, <<>>, <<>>)
             chain == Longer(d.chain, e)
             x == Made(b, d.made, "plain")
  <1>1. IsChain(d.chain) /\ d.chain.diagnostics # <<>>
    BY DEF Right, Genuine, ValidChain
  <1>2. b = Bundle(e, chain) /\ ValidChain(b.chain)
    BY <1>1, AppendYields
  <1>3. b.chain = chain /\ x.chain = chain /\ x.reference = b.reference
    BY <1>2 DEF Made, Bundle
  <1>4. x.made = IF d.made \in {"plain", "none"} THEN "plain" ELSE "both"
    BY DEF Made
  <1>5. Genuine(chain)
    <2>1. Settled(<<>>, d.chain.root) = <<>>
      BY DEF Settled
    <2> QED BY <2>1, <1>2, <1>3, LongerGenuine DEF Right
  <1>6. e.ash = <<>> /\ Last(chain.diagnostics) = e
    BY <1>1, LongerIsChain DEF Following, Envelope
  <1>7. ~AllAsh(chain) /\ (NoAsh(chain) <=> NoAsh(d.chain))
    BY <1>1, <1>6, LongerMarks
  <1>8. Refers(x)
    BY <1>2, <1>3, <1>6 DEF Refers, Bundle
  <1> HIDE DEF x, chain
  <1> QED BY <1>3, <1>4, <1>5, <1>7, <1>8 DEF Right, Marked, x

LEMMA AshExtends ==
  ASSUME NEW d, Right(d), NEW c, NEW b \in MakeAshDiagnosticBundle(<<d.chain>>, c)
  PROVE  Right(Made(b, d.made, "ash"))
  <1> DEFINE ash == AshOf(c, <<Last(d.chain.diagnostics).id>>, <<d.chain.root>>)
             said == Rooted(ash, d.chain.root)
             e == Following(d.chain, c, <<ash>>, <<said>>)
             chain == Longer(d.chain, e)
             x == Made(b, d.made, "ash")
  <1>1. IsChain(d.chain) /\ d.chain.diagnostics # <<>>
    BY DEF Right, Genuine, ValidChain
  <1>2. /\ AllAsh(d.chain) /\ b.chain = chain /\ b.reference = Bundle(e, chain).reference
        /\ ValidAsh(said, e, d.chain.root, Last(d.chain.diagnostics).ash) /\ ValidChain(b.chain)
    BY <1>1, AshYields
  <1>3. x.chain = chain /\ x.reference = b.reference
    BY <1>2 DEF Made
  <1>4. x.made = "ash"
    BY <1>2 DEF Made, Right, Marked
  <1>5. Genuine(chain)
    <2>1. Settled(<<ash>>, d.chain.root) = <<said>>
      BY DEF Settled
    <2> QED BY <2>1, <1>2, LongerGenuine DEF Right
  <1>6. e.ash # <<>> /\ e.ash[1] = said /\ Last(chain.diagnostics) = e
    BY <1>1, LongerIsChain DEF Following, Envelope
  <1>7. AllAsh(chain) /\ ~NoAsh(chain)
    <2> HIDE DEF e, said
    <2> QED BY <1>1, <1>2, <1>6, LongerMarks
  <1>8. Refers(x)
    BY <1>2, <1>3, <1>6 DEF Refers, Bundle
  <1> HIDE DEF x, chain
  <1> QED BY <1>3, <1>4, <1>5, <1>7, <1>8 DEF Right, Marked, x

(* An edited chain is still a record with a sequence.                      *)
LEMMA EditedIsChain ==
  ASSUME NEW chain, IsChain(chain), chain.diagnostics # <<>>, NEW d \in Edited(chain)
  PROVE  IsChain(d)
  <1> DEFINE q == chain.diagnostics
             n == Len(q)
  <1>1. PICK S : q \in Seq(S)
    BY DEF IsChain
  <1>2. chain = [id |-> chain.id, root |-> chain.root, diagnostics |-> q]
    BY DEF IsChain
  <1>3. n \in Nat /\ DOMAIN q = 1..n
    BY <1>1, LenProperties
  <1>4. \A T, i, r : \A p \in Seq(T) : IsChain([id |-> i, root |-> r, diagnostics |-> p])
    BY DEF IsChain
  <1>5. ASSUME NEW T, NEW p \in Seq(T), d = [chain EXCEPT !.diagnostics = p] PROVE IsChain(d)
    <2>1. d = [id |-> chain.id, root |-> chain.root, diagnostics |-> p]
      BY <1>2, <1>5, ChainExcept
    <2> QED BY <2>1, <1>4
  <1>6. \A p : p = [i \in 1..n |-> p[i]] => \E T : p \in Seq(T)
    <2> TAKE p
    <2> DEFINE T == {p[i] : i \in 1..n}
    <2> HAVE p = [i \in 1..n |-> p[i]]
    <2>1. p \in [1..n -> T]
      OBVIOUS
    <2>2. p \in Seq(T)
      BY <2>1, <1>3
    <2> QED BY <2>2
  <1>7. CASE d = [chain EXCEPT !.diagnostics = Tail(q)]
    <2>1. Tail(q) \in Seq(S)
      BY <1>1, HeadTailProperties
    <2> QED BY <2>1, <1>5, <1>7
  <1>8. CASE d = [chain EXCEPT !.diagnostics = Append(q, q[1])]
    <2>1. q \in Seq(S \cup {q[1]})
      BY <1>1, SeqMonotonic
    <2>2. \E T : Append(q, q[1]) \in Seq(T)
      BY <2>1, AppendProperties
    <2> QED BY <2>2, <1>5, <1>8
  <1>9. CASE d = [chain EXCEPT !.diagnostics = Reverse(q)]
    <2>1. \E T : Reverse(q) \in Seq(T)
      <3>1. Reverse(q) = [i \in 1..n |-> Reverse(q)[i]]
        BY DEF Reverse
      <3> QED BY <3>1, <1>6
    <2> QED BY <2>1, <1>5, <1>9
  <1>10. CASE d = [chain EXCEPT !.root = q[n].id]
    <2>1. d = [id |-> chain.id, root |-> q[n].id, diagnostics |-> q]
      BY <1>2, <1>10, RootExcept
    <2> QED BY <2>1, <1>1, <1>4
  <1>11. CASE d = [chain EXCEPT !.diagnostics[n].kind = "SAFE_HALT"]
    <2> DEFINE p == [q EXCEPT ![n].kind = "SAFE_HALT"]
    <2>1. d = [id |-> chain.id, root |-> chain.root, diagnostics |-> p]
      BY <1>2, <1>11, KindExcept
    <2>2. p = [i \in 1..n |-> p[i]]
      BY <1>3
    <2>3. PICK T : p \in Seq(T)
      BY <2>2, <1>6
    <2> QED BY <2>1, <2>3, <1>4
  <1>12. CASE \E stage : d = [chain EXCEPT !.diagnostics[n].ash[1].stage = stage]
    <2>1. PICK stage : d = [chain EXCEPT !.diagnostics[n].ash[1].stage = stage]
      BY <1>12
    <2> DEFINE p == [q EXCEPT ![n].ash[1].stage = stage]
    <2>2. d = [id |-> chain.id, root |-> chain.root, diagnostics |-> p]
      BY <1>2, <2>1, StageExcept
    <2>3. p = [i \in 1..n |-> p[i]]
      BY <1>3
    <2>4. PICK T : p \in Seq(T)
      BY <2>3, <1>6
    <2> QED BY <2>2, <2>4, <1>4
  <1>13. \/ d \in {[chain EXCEPT !.diagnostics = Tail(@)],
                  [chain EXCEPT !.diagnostics = Append(@, @[1])],
                  [chain EXCEPT !.diagnostics = Reverse(@)],
                  [chain EXCEPT !.root = q[n].id],
                  [chain EXCEPT !.diagnostics[n].kind = "SAFE_HALT"]}
         \/ \E stage : d = [chain EXCEPT !.diagnostics[n].ash[1].stage = stage]
    BY DEF Edited
  <1> QED BY <1>7, <1>8, <1>9, <1>10, <1>11, <1>12, <1>13

LEMMA ChainsInitInv == ChainsInit => ChainsInv
  BY DEF ChainsInit, ChainsInv, BundlesInv

LEMMA ChainsNextInv == ChainsInv /\ [ChainsNext]_chainVars => ChainsInv'
  <1> SUFFICES ASSUME ChainsInv, [ChainsNext]_chainVars PROVE ChainsInv'
    OBVIOUS
  <1> USE DEF ChainsInv
  <1>1. \A b \in bundles : Right(b)
    BY DEF BundlesInv, Right
  <1>2. ASSUME NEW made, NEW used, NEW how, Add(made, used, how),
               \A b \in made : Right(Made(b, used, how))
        PROVE  BundlesInv'
    <2>1. bundles' = bundles \cup {Made(b, used, how) : b \in made}
      BY <1>2 DEF Add, Made
    <2>2. \A b \in bundles' : Right(b)
      BY <1>1, <1>2, <2>1
    <2>3. (\A b \in bundles : Genuine(b.chain) /\ Marked(b) /\ Refers(b))'
      BY <2>2 DEF Right
    <2> QED BY <2>3 DEF BundlesInv
  <1>3. ASSUME NEW c \in Contents, Start(c) PROVE ChainsInv'
    <2>1. UNCHANGED foreign
      BY <1>3 DEF Start
    <2>2. \/ Add(MakeDiagnosticBundle(c, <<>>), "none", "plain")
          \/ Add(MakeAshDiagnosticBundle(<<>>, c), "none", "ash")
      BY <1>3 DEF Start
    <2> QED BY <2>1, <2>2, <1>2, PlainStarts, AshStarts
  <1>4. ASSUME NEW d \in bundles, NEW c \in Contents, Extend(d, c) PROVE ChainsInv'
    <2>1. UNCHANGED foreign
      BY <1>4 DEF Extend
    <2>2. \/ Add(AppendDiagnosticBundle(d.chain, c, <<>>), d.made, "plain")
          \/ Add(MakeAshDiagnosticBundle(<<d.chain>>, c), d.made, "ash")
      BY <1>4 DEF Extend
    <2>3. Right(d)
      BY <1>1
    <2> QED BY <2>1, <2>2, <2>3, <1>2, PlainExtends, AshExtends
  <1>5. ASSUME NEW b \in bundles, Forge(b) PROVE ChainsInv'
    <2>1. PICK chain \in Edited(b.chain) : foreign' = foreign \cup {chain}
      BY <1>5 DEF Forge
    <2>2. IsChain(b.chain) /\ b.chain.diagnostics # <<>>
      BY <1>1 DEF Right, Genuine, ValidChain
    <2>3. IsChain(chain)
      BY <2>2, EditedIsChain
    <2>4. bundles' = bundles
      BY <1>5 DEF Forge
    <2> QED BY <2>1, <2>3, <2>4 DEF BundlesInv
  <1>6. ASSUME NEW chain \in foreign, NEW c \in Contents, ExtendForeign(chain, c) PROVE ChainsInv'
    <2> DEFINE made == AppendDiagnosticBundle(chain, c, <<>>) \cup MakeAshDiagnosticBundle(<<chain>>, c)
    <2>1. foreign' = foreign \cup {b.chain : b \in made} /\ bundles' = bundles
      BY <1>6 DEF ExtendForeign
    <2>2. ASSUME NEW b \in made PROVE IsChain(b.chain)
      <3>1. CASE b \in AppendDiagnosticBundle(chain, c, <<>>)
        <4>1. b.chain = Longer(chain, Following(chain, c, <<>>, <<>>))
          BY <3>1, AppendYields DEF Bundle
        <4> QED BY <4>1, LongerIsChain
      <3>2. CASE b \in MakeAshDiagnosticBundle(<<chain>>, c)
        <4>1. PICK e : b.chain = Longer(chain, e)
          BY <3>2, AshYields
        <4> QED BY <4>1, LongerIsChain
      <3> QED BY <3>1, <3>2
    <2> HIDE DEF made
    <2> QED BY <2>1, <2>2 DEF BundlesInv
  <1>7. CASE UNCHANGED chainVars
    BY <1>7 DEF chainVars, BundlesInv
  <1> QED BY <1>3, <1>4, <1>5, <1>6, <1>7 DEF ChainsNext

(* A bundle's reference resolves where its chain is continued.             *)
LEMMA ResolvesThere ==
  ASSUME NEW b, NEW d, Genuine(b.chain), Refers(b), Genuine(d.chain)
  PROVE  ReferenceResolves(d.chain, b.reference) <=>
           b.chain.id = d.chain.id /\ IsPrefix(b.chain.diagnostics, d.chain.diagnostics)
  <1> DEFINE p == b.chain.diagnostics
             q == d.chain.diagnostics
             n == Len(p)
  <1>1. /\ IsChain(b.chain) /\ IsChain(d.chain) /\ n \in Nat /\ Len(q) \in Nat /\ DOMAIN q = 1..Len(q)
        /\ p # <<>>
    BY LongerIsChain DEF Genuine, ValidChain
  <1>2. n # 0 /\ n \in 1..n
    BY <1>1, EmptySeq DEF IsChain
  <1>3. /\ b.reference.id = p[n].id /\ b.reference.chain = b.chain.id
        /\ b.reference.kind = p[n].kind /\ b.reference.rules = p[n].rules
    BY DEF Refers, Bundle, Last
  <1>4. IsPrefix(p, q) <=> n <= Len(q) /\ \A k \in 1..n : p[k] = q[k]
    <2>1. PICK S, T : p \in Seq(S) /\ q \in Seq(T)
      BY <1>1 DEF IsChain
    <2>2. p \in Seq(S \cup T) /\ q \in Seq(S \cup T)
      BY <2>1, SeqMonotonic
    <2> QED BY <2>2, PrefixByElements
  <1>5. ASSUME ReferenceResolves(d.chain, b.reference)
        PROVE  b.chain.id = d.chain.id /\ IsPrefix(p, q)
    <2>1. d.chain.id = b.chain.id
      BY <1>3, <1>5 DEF ReferenceResolves
    <2>2. PICK j \in 1..Len(q) : q[j].id = p[n].id
      BY <1>1, <1>3, <1>5 DEF ReferenceResolves
    <2>3. n = j /\ \A k \in 1..n : p[k] = q[k]
      <3>1. \A x, y : \A i \in 1..Len(x.diagnostics), m \in 1..Len(y.diagnostics) :
              Genuine(x) /\ Genuine(y) /\ x.id = y.id /\ x.diagnostics[i].id = y.diagnostics[m].id =>
                i = m /\ \A k \in 1..i : x.diagnostics[k] = y.diagnostics[k]
        BY SameTrail
      <3>2. p[n].id = q[j].id
        BY <2>2
      <3> QED BY <1>2, <2>1, <3>1, <3>2
    <2> QED BY <1>1, <1>4, <2>1, <2>3
  <1>6. ASSUME b.chain.id = d.chain.id, IsPrefix(p, q)
        PROVE  ReferenceResolves(d.chain, b.reference)
    <2>1. n \in 1..Len(q) /\ q[n] = p[n]
      BY <1>1, <1>2, <1>4, <1>6
    <2> QED BY <1>1, <1>3, <1>6, <2>1 DEF ReferenceResolves
  <1> QED BY <1>5, <1>6

(* What the chain factories of Diagnostics.cpp make is accepted by the     *)
(* checks of every consumer exactly when one factory made all of it; what  *)
(* is accepted as an ASH chain, edited by a host or not, tells one story   *)
(* forwards; and a reference resolves in its chain and what continues it,  *)
(* nowhere else: for any contents and any number of chains.                *)
THEOREM ChainsStaySound == ChainsSpec => []ChainsSound
  <1>1. ChainsInv => MadeAccepted
    <2> SUFFICES ASSUME ChainsInv, NEW b \in bundles
                 PROVE  /\ ValidDiagnosticChain(b.chain, TRUE) <=> b.made = "ash"
                        /\ ValidDiagnosticChain(b.chain, FALSE) <=> b.made # "both"
      BY DEF MadeAccepted
    <2>1. ValidChain(b.chain) /\ Marked(b)
      BY DEF ChainsInv, BundlesInv, Genuine
    <2>2. ValidDiagnosticChain(b.chain, TRUE) <=> AllAsh(b.chain)
      BY <2>1 DEF ValidDiagnosticChain
    <2>3. ValidDiagnosticChain(b.chain, FALSE) <=> NoAsh(b.chain) \/ AllAsh(b.chain)
      BY <2>1 DEF ValidDiagnosticChain, NoAsh
    <2> QED BY <2>1, <2>2, <2>3 DEF Marked
  <1>2. ChainsInv => StagesAdvance
    <2> SUFFICES ASSUME ChainsInv, NEW chain \in foreign \cup {b.chain : b \in bundles},
                        ValidDiagnosticChain(chain, TRUE)
                 PROVE  LET stage(i) == chain.diagnostics[i].ash[1].stage
                            last == Len(chain.diagnostics)
                        IN  /\ \A i, j \in 1..last : i < j => StageRank(stage(i)) <= StageRank(stage(j))
                            /\ \A i, j \in 1..last : i # j /\ stage(i) = "ESCALATION" => stage(j) # "ESCALATION"
                            /\ \A i \in 1..last : stage(i) = "TERMINAL" => i = last /\ i > 1
      BY DEF StagesAdvance
    <2>1. IsChain(chain)
      BY DEF ChainsInv, BundlesInv, Genuine
    <2>2. AllAsh(chain)
      BY DEF ValidDiagnosticChain
    <2> QED BY <2>1, <2>2, AcceptedAdvances
  <1>3. ChainsInv => ReferencesResolve
    BY ResolvesThere DEF ChainsInv, BundlesInv, ReferencesResolve
  <1>4. ChainsInv => ChainsSound
    BY <1>1, <1>2, <1>3 DEF ChainsSound
  <1> QED BY ChainsInitInv, ChainsNextInv, <1>4, PTL DEF ChainsSpec

-------------------------------------------------------------------------------
(* Documents with others in their places.                                  *)

(* Documents for places of which none is inside another.                   *)
Apart(at) ==
  /\ DOMAIN at \subseteq Seq(Parts)
  /\ \A s \in DOMAIN at : DOMAIN at[s] \subseteq Seq(Parts)
  /\ \A s, t \in DOMAIN at : IsPrefix(s, t) => s = t

Outside(at, n) == \A s \in DOMAIN at : ~IsPrefix(s, n)

(* g is doc with the documents of at in their places.                      *)
Grafted(g, doc, at) ==
  /\ DOMAIN g \subseteq Seq(Parts)
  /\ \A n \in DOMAIN g : \/ n \in DOMAIN doc /\ Outside(at, n)
                         \/ \E s \in DOMAIN at : \E m \in DOMAIN at[s] : n = s \o m
  /\ \A n \in DOMAIN doc : Outside(at, n) => n \in DOMAIN g /\ g[n] = doc[n]
  /\ \A s \in DOMAIN at : \A m \in DOMAIN at[s] : s \o m \in DOMAIN g /\ g[s \o m] = at[s][m]

LEMMA GraftIs ==
  ASSUME NEW doc, DOMAIN doc \subseteq Seq(Parts), NEW at, Apart(at)
  PROVE  Grafted(Graft(doc, at), doc, at)
  <1> DEFINE within(n) == {s \in DOMAIN at : IsPrefix(s, n)}
             D == {m \in DOMAIN doc : within(m) = {}}
                    \cup UNION {{s \o m : m \in DOMAIN at[s]} : s \in DOMAIN at}
             value(n) == IF within(n) = {} THEN doc[n]
                         ELSE LET s == CHOOSE s \in within(n) : TRUE IN at[s][SubSeq(n, Len(s) + 1, Len(n))]
  <1>1. Graft(doc, at) = [n \in D |-> value(n)]
    BY DEF Graft
  <1>2. \A n : within(n) = {} <=> Outside(at, n)
    BY DEF Outside
  <1>3. ASSUME NEW s \in DOMAIN at, NEW m \in DOMAIN at[s]
        PROVE  within(s \o m) = {s} /\ SubSeq(s \o m, Len(s) + 1, Len(s \o m)) = m /\ s \o m \in Seq(Parts)
    <2>1. s \in Seq(Parts) /\ m \in Seq(Parts)
      BY DEF Apart
    <2>2. IsPrefix(s, s \o m) /\ SubSeq(s \o m, Len(s) + 1, Len(s \o m)) = m /\ s \o m \in Seq(Parts)
      BY <2>1, Joined
    <2>3. ASSUME NEW t \in DOMAIN at, IsPrefix(t, s \o m) PROVE t = s
      <3>1. t \in Seq(Parts)
        BY DEF Apart
      <3>2. IsPrefix(s, t) \/ IsPrefix(t, s)
        BY <2>1, <2>2, <2>3, <3>1, PrefixesComparable
      <3> QED BY <3>2 DEF Apart
    <2> QED BY <2>2, <2>3
  <1>4. ASSUME NEW n \in D
        PROVE  \/ n \in DOMAIN doc /\ Outside(at, n)
               \/ \E s \in DOMAIN at : \E m \in DOMAIN at[s] : n = s \o m
    BY <1>2
  <1>5. ASSUME NEW s \in DOMAIN at, NEW m \in DOMAIN at[s]
        PROVE  s \o m \in D /\ value(s \o m) = at[s][m]
    <2>1. within(s \o m) = {s} /\ SubSeq(s \o m, Len(s) + 1, Len(s \o m)) = m
      BY <1>3
    <2>2. (CHOOSE t \in {s} : TRUE) = s
      OBVIOUS
    <2>3. s \o m \in D
      OBVIOUS
    <2> HIDE DEF within, D
    <2> QED BY <2>1, <2>2, <2>3
  <1>6. D \subseteq Seq(Parts)
    <2> HIDE DEF D
    <2> QED BY <1>3, <1>4
  <1>7. ASSUME NEW n \in DOMAIN doc, Outside(at, n) PROVE n \in D /\ value(n) = doc[n]
    BY <1>2, <1>7
  <1> HIDE DEF D, value
  <1> DEFINE g == Graft(doc, at)
  <1>8. DOMAIN g = D /\ \A n \in D : g[n] = value(n)
    BY <1>1
  <1> HIDE DEF g
  <1>9. Grafted(g, doc, at)
    BY <1>4, <1>5, <1>6, <1>7, <1>8 DEF Grafted
  <1> QED BY <1>9 DEF g

LEMMA JoinedFinite ==
  ASSUME NEW s, NEW D, IsFiniteSet(D)
  PROVE  IsFiniteSet({s \o m : m \in D})
  <1> DEFINE f == [m \in D |-> s \o m]
  <1>1. DOMAIN f = D /\ {f[m] : m \in D} = {s \o m : m \in D}
    OBVIOUS
  <1> HIDE DEF f
  <1>2. IsFiniteSet({f[m] : m \in D})
    BY <1>1, ImageFinite
  <1> QED BY <1>1, <1>2

LEMMA GraftFinite ==
  ASSUME NEW doc, IsDocument(doc), NEW at, Apart(at), IsFiniteSet(DOMAIN at),
         \A s \in DOMAIN at : IsFiniteSet(DOMAIN at[s])
  PROVE  IsFiniteSet(DOMAIN Graft(doc, at))
  <1> DEFINE g == Graft(doc, at)
             below == [s \in DOMAIN at |-> {s \o m : m \in DOMAIN at[s]}]
             all == UNION {below[s] : s \in DOMAIN at}
  <1>1. \A n \in DOMAIN g : \/ n \in DOMAIN doc /\ Outside(at, n)
                            \/ \E s \in DOMAIN at : \E m \in DOMAIN at[s] : n = s \o m
    <2>1. Grafted(g, doc, at)
      BY GraftIs DEF IsDocument
    <2> HIDE DEF g
    <2> QED BY <2>1 DEF Grafted
  <1>2. DOMAIN below = DOMAIN at /\ \A s \in DOMAIN at : below[s] = {s \o m : m \in DOMAIN at[s]}
    OBVIOUS
  <1> HIDE DEF g, below
  <1>3. ASSUME NEW s \in DOMAIN at PROVE IsFiniteSet(below[s])
    <2>1. IsFiniteSet({s \o m : m \in DOMAIN at[s]})
      BY JoinedFinite
    <2> QED BY <1>2, <2>1
  <1>4. DOMAIN g \subseteq DOMAIN doc \cup all
    BY <1>1, <1>2
  <1>5. IsFiniteSet(all)
    BY <1>2, <1>3, UnionFinite
  <1> HIDE DEF all
  <1>6. IsFiniteSet(DOMAIN doc \cup all)
    BY <1>5, FS_Union DEF IsDocument
  <1>7. IsFiniteSet(DOMAIN g)
    BY <1>4, <1>6, FS_Subset
  <1> QED BY <1>7 DEF g

(* A part of a node's way is outside where the node is.                    *)
LEMMA OutsideFront ==
  ASSUME NEW at, Apart(at), NEW n \in Seq(Parts), n # <<>>, Outside(at, n)
  PROVE  Outside(at, Front(n))
  <1> SUFFICES ASSUME NEW s \in DOMAIN at, IsPrefix(s, Front(n)) PROVE FALSE
    BY DEF Outside
  <1>1. s \in Seq(Parts) /\ Front(n) \in Seq(Parts) /\ IsPrefix(Front(n), n)
    BY FrontIs DEF Apart
  <1>2. IsPrefix(s, n)
    BY <1>1, PrefixTransitive
  <1> QED BY <1>2 DEF Outside

(* Trees in the places of a tree's nodes make a tree.                      *)
LEMMA GraftTree ==
  ASSUME NEW doc, IsDocument(doc), NEW at, Apart(at), IsFiniteSet(DOMAIN at),
         \A s \in DOMAIN at :
           /\ IsDocument(at[s])
           /\ s # <<>> => Front(s) \in DOMAIN doc /\ doc[Front(s)] \in Containers
  PROVE  IsDocument(Graft(doc, at))
  <1> DEFINE g == Graft(doc, at)
  <1>1. DOMAIN doc \subseteq Seq(Parts)
    BY DEF IsDocument
  <1>2. /\ DOMAIN g \subseteq Seq(Parts)
        /\ \A n \in DOMAIN g : \/ n \in DOMAIN doc /\ Outside(at, n)
                               \/ \E s \in DOMAIN at : \E m \in DOMAIN at[s] : n = s \o m
        /\ \A n \in DOMAIN doc : Outside(at, n) => n \in DOMAIN g /\ g[n] = doc[n]
        /\ \A s \in DOMAIN at : \A m \in DOMAIN at[s] : s \o m \in DOMAIN g /\ g[s \o m] = at[s][m]
    <2>1. Grafted(g, doc, at)
      BY <1>1, GraftIs
    <2> HIDE DEF g
    <2> QED BY <2>1 DEF Grafted
  <1> HIDE DEF g
  <1>3. ASSUME NEW n \in DOMAIN doc, Outside(at, n), n # <<>>
        PROVE  Front(n) \in DOMAIN g /\ g[Front(n)] \in Containers
    <2>1. Front(n) \in DOMAIN doc /\ doc[Front(n)] \in Containers
      BY <1>3 DEF IsDocument, IsTree
    <2>2. Outside(at, Front(n))
      BY <1>1, <1>3, OutsideFront
    <2> QED BY <1>2, <2>1, <2>2
  <1>4. ASSUME NEW s \in DOMAIN at, NEW m \in DOMAIN at[s], s \o m # <<>>
        PROVE  Front(s \o m) \in DOMAIN g /\ g[Front(s \o m)] \in Containers
    <2>1. s \in Seq(Parts) /\ m \in Seq(Parts)
      BY DEF Apart
    <2>2. CASE m = <<>>
      <3>1. s \o m = s /\ s # <<>>
        BY <1>4, <2>1, <2>2, ConcatEmptySeq
      <3>2. Front(s) \in DOMAIN doc /\ doc[Front(s)] \in Containers
        BY <3>1
      <3>3. Outside(at, Front(s))
        <4> SUFFICES ASSUME NEW t \in DOMAIN at, IsPrefix(t, Front(s)) PROVE FALSE
          BY DEF Outside
        <4>1. /\ t \in Seq(Parts) /\ Front(s) \in Seq(Parts) /\ IsPrefix(Front(s), s)
              /\ Len(Front(s)) = Len(s) - 1 /\ Len(s) \in Nat
          BY <2>1, <3>1, FrontIs DEF Apart
        <4>2. t = s
          BY <2>1, <4>1, PrefixTransitive DEF Apart
        <4>3. Len(t) <= Len(Front(s))
          BY DEF IsPrefix
        <4> QED BY <4>1, <4>2, <4>3
      <3> QED BY <1>2, <3>1, <3>2, <3>3
    <2>3. CASE m # <<>>
      <3>1. Front(s \o m) = s \o Front(m)
        BY <2>1, <2>3, FrontOfJoined
      <3>2. Front(m) \in DOMAIN at[s] /\ at[s][Front(m)] \in Containers
        BY <2>3 DEF IsDocument, IsTree
      <3> QED BY <1>2, <3>1, <3>2
    <2> QED BY <2>2, <2>3
  <1>5. ASSUME NEW n \in DOMAIN g, n # <<>> PROVE Front(n) \in DOMAIN g /\ g[Front(n)] \in Containers
    <2>1. CASE n \in DOMAIN doc /\ Outside(at, n)
      BY <1>3, <1>5, <2>1
    <2>2. CASE \E s \in DOMAIN at : \E m \in DOMAIN at[s] : n = s \o m
      BY <1>4, <1>5, <2>2
    <2> QED BY <1>2, <2>1, <2>2
  <1>6. IsTree(g)
    BY <1>5 DEF IsTree
  <1>7. IsFiniteSet(DOMAIN g)
    BY GraftFinite DEF IsDocument, g
  <1> QED BY <1>2, <1>6, <1>7 DEF IsDocument, g

(* What is below a node.                                                   *)
LEMMA AtIs ==
  ASSUME NEW doc, IsDocument(doc), NEW s \in Seq(Parts)
  PROVE  /\ IsDocument(At(doc, s))
         /\ \A m \in DOMAIN At(doc, s) : s \o m \in DOMAIN doc /\ At(doc, s)[m] = doc[s \o m]
         /\ \A m \in Seq(Parts) : s \o m \in DOMAIN doc => m \in DOMAIN At(doc, s)
  <1> DEFINE D == {SubSeq(n, Len(s) + 1, Len(n)) : n \in {d \in DOMAIN doc : IsPrefix(s, d)}}
             a == At(doc, s)
  <1>1. a = [m \in D |-> doc[s \o m]]
    BY DEF At
  <1>2. ASSUME NEW m \in D PROVE m \in Seq(Parts) /\ s \o m \in DOMAIN doc
    <2>1. PICK n \in DOMAIN doc : IsPrefix(s, n) /\ m = SubSeq(n, Len(s) + 1, Len(n))
      OBVIOUS
    <2>2. n \in Seq(Parts)
      BY DEF IsDocument
    <2> QED BY <2>1, <2>2, SplitAt
  <1>3. ASSUME NEW m \in Seq(Parts), s \o m \in DOMAIN doc PROVE m \in D
    <2>1. IsPrefix(s, s \o m) /\ SubSeq(s \o m, Len(s) + 1, Len(s \o m)) = m
      BY Joined
    <2> QED BY <1>3, <2>1
  <1>4. ASSUME NEW m \in D, m # <<>> PROVE Front(m) \in D /\ doc[s \o Front(m)] \in Containers
    <2>1. m \in Seq(Parts) /\ s \o m \in DOMAIN doc
      BY <1>2
    <2>2. s \o m # <<>> /\ Front(s \o m) = s \o Front(m) /\ Front(m) \in Seq(Parts)
      BY <1>4, <2>1, FrontOfJoined, FrontIs
    <2>3. s \o Front(m) \in DOMAIN doc /\ doc[s \o Front(m)] \in Containers
      BY <2>1, <2>2 DEF IsDocument, IsTree
    <2> QED BY <1>3, <2>2, <2>3
  <1>5. IsFiniteSet(D)
    <2> DEFINE E == {d \in DOMAIN doc : IsPrefix(s, d)}
               f == [n \in E |-> SubSeq(n, Len(s) + 1, Len(n))]
    <2>1. IsFiniteSet(E)
      BY FS_Subset DEF IsDocument
    <2>2. DOMAIN f = E /\ D = {f[n] : n \in E}
      OBVIOUS
    <2> HIDE DEF E, f, D
    <2> QED BY <2>1, <2>2, ImageFinite
  <1> HIDE DEF D
  <1>6. IsDocument(a)
    BY <1>1, <1>2, <1>4, <1>5 DEF IsDocument, IsTree
  <1> QED BY <1>1, <1>2, <1>3, <1>6

-------------------------------------------------------------------------------
(* Cleaning by a rule.                                                     *)

LEMMA VisitedIs ==
  ASSUME NEW doc, IsDocument(doc), NEW rule, rule.depth \in Nat, NEW n \in Visited(doc, rule)
  PROVE  /\ n \in DOMAIN doc /\ n \in Seq(Parts) /\ Len(n) \in Nat /\ Len(n) <= rule.depth + 1
         /\ n # <<>> =>
              /\ Front(n) \in Visited(doc, rule) /\ Len(Front(n)) <= rule.depth
              /\ doc[Front(n)] \in Containers
              /\ Within(doc, rule, n) /\ Allowed(doc, rule, n)
  <1> DEFINE Fine(m, i) == /\ i <= rule.depth + 1 /\ Within(doc, rule, SubSeq(m, 1, i))
                           /\ Allowed(doc, rule, SubSeq(m, 1, i))
  <1>1. n \in DOMAIN doc /\ n \in Seq(Parts) /\ \A i \in 1..Len(n) : Fine(n, i)
    BY DEF Visited, IsDocument
  <1>2. \A m \in DOMAIN doc : (\A i \in 1..Len(m) : Fine(m, i)) => m \in Visited(doc, rule)
    BY DEF Visited
  <1>3. Len(n) \in Nat /\ SubSeq(n, 1, Len(n)) = n
    BY <1>1, LenProperties, SubSeqFull
  <1>4. Len(n) <= rule.depth + 1
    <2>1. CASE Len(n) = 0
      BY <2>1
    <2>2. CASE Len(n) # 0
      <3>1. Len(n) \in 1..Len(n)
        BY <1>3, <2>2
      <3> QED BY <1>1, <3>1
    <2> QED BY <2>1, <2>2
  <1>5. ASSUME n # <<>>
        PROVE  /\ Front(n) \in Visited(doc, rule) /\ Len(Front(n)) <= rule.depth
               /\ doc[Front(n)] \in Containers
               /\ Within(doc, rule, n) /\ Allowed(doc, rule, n)
    <2>1. /\ Front(n) \in Seq(Parts) /\ Len(Front(n)) = Len(n) - 1 /\ Len(n) >= 1
      BY <1>1, <1>5, FrontIs
    <2>2. Front(n) \in DOMAIN doc /\ doc[Front(n)] \in Containers
      BY <1>1, <1>5 DEF IsDocument, IsTree
    <2>3. \A i \in 1..Len(Front(n)) : Fine(Front(n), i)
      <3> TAKE i \in 1..Len(Front(n))
      <3>1. i \in 1..Len(n)
        BY <1>3, <2>1
      <3>2. SubSeq(Front(n), 1, i) = SubSeq(n, 1, i)
        BY <1>1, <1>5, WayOfFront
      <3> QED BY <1>1, <3>1, <3>2
    <2>4. Front(n) \in Visited(doc, rule)
      <3> HIDE DEF Fine
      <3> QED BY <1>2, <2>2, <2>3
    <2>5. Within(doc, rule, n) /\ Allowed(doc, rule, n)
      <3>1. Len(n) \in 1..Len(n)
        BY <1>3, <2>1
      <3> QED BY <1>1, <1>3, <3>1
    <2>6. Len(Front(n)) <= rule.depth
      BY <1>3, <1>4, <2>1
    <2> QED BY <2>2, <2>4, <2>5, <2>6
  <1> QED BY <1>1, <1>3, <1>4, <1>5

(* A cleaned document keeps to its rule, and stays a tree.                 *)
LEMMA ShownIs ==
  ASSUME NEW doc, IsDocument(doc), NEW rule, rule.depth \in Nat
  PROVE  LET shown == Shown(doc, rule)
         IN  /\ IsDocument(shown)
             /\ \A n \in DOMAIN shown :
                  /\ n \in DOMAIN doc /\ Len(n) \in Nat /\ Len(n) <= rule.depth + 1
                  /\ shown[n] \in Containers \cup rule.leaves \cup {"null"}
                  /\ n # <<>> /\ shown[Front(n)] = "object" => Last(n) \in rule.keys
  <1> DEFINE shown == Shown(doc, rule)
  <1>1. /\ DOMAIN shown = Visited(doc, rule)
        /\ \A n \in Visited(doc, rule) :
             shown[n] = IF Len(n) <= rule.depth /\ Admitted(doc, rule, n) THEN doc[n] ELSE "null"
    BY DEF Shown
  <1> HIDE DEF shown
  <1>2. ASSUME NEW n \in Visited(doc, rule)
        PROVE  shown[n] \in Containers \cup rule.leaves \cup {"null"}
    BY <1>1 DEF Admitted
  <1>3. ASSUME NEW n \in Visited(doc, rule), n # <<>>
        PROVE  /\ Front(n) \in Visited(doc, rule) /\ shown[Front(n)] = doc[Front(n)]
               /\ shown[Front(n)] \in Containers
               /\ shown[Front(n)] = "object" => Last(n) \in rule.keys
    <2>1. /\ Front(n) \in Visited(doc, rule) /\ Len(Front(n)) <= rule.depth
          /\ doc[Front(n)] \in Containers /\ Allowed(doc, rule, n)
      BY <1>3, VisitedIs
    <2>2. Admitted(doc, rule, Front(n))
      BY <2>1 DEF Admitted
    <2>3. shown[Front(n)] = doc[Front(n)]
      BY <1>1, <2>1, <2>2
    <2>4. doc[Front(n)] = "object" => Last(n) \in rule.keys
      <3>1. "object" # "array"
        OBVIOUS
      <3> QED BY <2>1, <3>1 DEF Allowed
    <2> QED BY <2>1, <2>3, <2>4
  <1>4. ASSUME NEW n \in Visited(doc, rule)
        PROVE  n \in DOMAIN doc /\ n \in Seq(Parts) /\ Len(n) \in Nat /\ Len(n) <= rule.depth + 1
    BY VisitedIs
  <1>5. IsDocument(shown)
    <2>1. IsFiniteSet(DOMAIN shown)
      BY <1>1, <1>4, FS_Subset DEF IsDocument
    <2> QED BY <1>1, <1>3, <1>4, <2>1 DEF IsDocument, IsTree
  <1> QED BY <1>1, <1>2, <1>3, <1>4, <1>5 DEF shown

-------------------------------------------------------------------------------
(* Evidence in a document.                                                 *)

LEMMA LeafIs ==
  ASSUME NEW value
  PROVE  IsDocument(Leaf(value)) /\ DOMAIN Leaf(value) = {<<>>} /\ Leaf(value)[<<>>] = value
  BY EmptySeq, FS_Singleton DEF Leaf, IsDocument, IsTree

(* What is on the way to a node of a document is in the document.          *)
LEMMA WayInside ==
  ASSUME NEW doc, IsDocument(doc), NEW n \in DOMAIN doc, NEW i \in 0..Len(n)
  PROVE  SubSeq(n, 1, i) \in DOMAIN doc
  <1> DEFINE way(k) == SubSeq(n, 1, k)
             T == {k \in Nat : k <= Len(n) => way(Len(n) - k) \in DOMAIN doc}
  <1>1. n \in Seq(Parts) /\ Len(n) \in Nat
    BY LenProperties DEF IsDocument
  <1>2. 0 \in T
    <2>1. Len(n) - 0 = Len(n) /\ SubSeq(n, 1, Len(n)) = n
      BY <1>1, SubSeqFull
    <2> QED BY <2>1
  <1>3. ASSUME NEW k \in Nat, k \in T PROVE k + 1 \in T
    <2> SUFFICES ASSUME k + 1 <= Len(n) PROVE way(Len(n) - (k + 1)) \in DOMAIN doc
      OBVIOUS
    <2> DEFINE m == Len(n) - k
    <2>1. m \in Nat /\ m >= 1 /\ m <= Len(n) /\ Len(n) - (k + 1) = m - 1
      BY <1>1
    <2>2. way(m) \in DOMAIN doc
      BY <1>1, <1>3
    <2> HIDE DEF m
    <2>3. Len(way(m)) = m /\ way(m) \in Seq(Parts) /\ way(m) # <<>>
      <3>1. \A j \in 1..m : n[j] \in Parts
        BY <1>1, <2>1, ElementOfSeq
      <3>2. way(m) \in Seq(Parts) /\ Len(way(m)) = IF 1 <= m THEN m - 1 + 1 ELSE 0
        BY <2>1, <3>1, SubSeqProperties
      <3>3. Len(way(m)) = m
        BY <2>1, <3>2
      <3> QED BY <2>1, <3>2, <3>3, EmptySeq
    <2>4. Front(way(m)) = way(m - 1)
      <3>1. CASE m = 1
        <4>1. way(0) = <<>>
          BY SubSeqEmpty
        <4> HIDE DEF way
        <4>2. Front(way(m)) \in Seq(Parts) /\ Len(Front(way(m))) = 0
          BY <2>3, <3>1, FrontIs
        <4>3. Front(way(m)) = <<>> /\ m - 1 = 0
          BY <3>1, <4>2, EmptySeq
        <4> QED BY <4>1, <4>3
      <3>2. CASE m > 1
        <4> DEFINE f == Front(way(m))
        <4>1. /\ f \in Seq(Parts) /\ Len(f) = m - 1
              /\ \A j \in 1..(m - 1) : f[j] = way(m)[j]
          BY <2>3, FrontIs
        <4>2. \A j \in 1..m : n[j] \in Parts /\ 1 + j - 1 = j
          BY <1>1, <2>1, ElementOfSeq
        <4>3. \A j \in 1..(m - 1 + 1) : way(m)[j] = n[1 + j - 1]
          BY <2>1, <4>2, SubSeqProperties
        <4>4. /\ way(m - 1) \in Seq(Parts)
              /\ Len(way(m - 1)) = IF 1 <= m - 1 THEN m - 1 - 1 + 1 ELSE 0
              /\ \A j \in 1..(m - 1 - 1 + 1) : way(m - 1)[j] = n[1 + j - 1]
          <5>1. \A j \in 1..(m - 1) : n[j] \in Parts
            BY <2>1, <4>2
          <5>2. m - 1 \in Int
            BY <2>1
          <5> QED BY <5>1, <5>2, SubSeqProperties
        <4>5. Len(way(m - 1)) = m - 1 /\ \A j \in 1..(m - 1) : f[j] = way(m - 1)[j]
          <5>1. \A j \in 1..(m - 1) : j \in 1..(m - 1 + 1) /\ j \in 1..(m - 1 - 1 + 1)
            BY <2>1
          <5> QED BY <2>1, <3>2, <4>1, <4>3, <4>4, <5>1
        <4> HIDE DEF f, way
        <4> QED BY <4>1, <4>4, <4>5, SeqEqual DEF f
      <3> QED BY <2>1, <3>1, <3>2
    <2>5. Front(way(m)) \in DOMAIN doc
      BY <2>2, <2>3 DEF IsDocument, IsTree
    <2> QED BY <2>1, <2>4, <2>5
  <1>4. Nat \subseteq T
    <2> HIDE DEF T
    <2> QED BY <1>2, <1>3, SetInduction
  <1>5. Len(n) - i \in T /\ Len(n) - i <= Len(n) /\ Len(n) - (Len(n) - i) = i
    <2>1. Len(n) - i \in Nat /\ Len(n) - (Len(n) - i) = i /\ Len(n) - i <= Len(n)
      BY <1>1
    <2> HIDE DEF T
    <2> QED BY <1>4, <2>1
  <1> QED BY <1>5

(* No part of a node is "evidence".                                        *)
Plainly(n) == \A i \in 1..Len(n) : n[i] # "evidence"

LEMMA EvidenceInIs ==
  ASSUME NEW doc, IsDocument(doc), NEW s \in EvidenceIn(doc)
  PROVE  /\ s \in DOMAIN doc /\ s \in Seq(Parts) /\ s # <<>> /\ Last(s) = "evidence"
         /\ Len(s) \in Nat /\ Len(s) >= 1 /\ s[Len(s)] = "evidence"
         /\ \A i \in 1..(Len(s) - 1) : s[i] # "evidence"
         /\ Front(s) \in DOMAIN doc /\ doc[Front(s)] \in Containers /\ Plainly(Front(s))
  <1>1. /\ s \in DOMAIN doc /\ s # <<>> /\ Last(s) = "evidence"
        /\ \A i \in 1..(Len(s) - 1) : s[i] # "evidence"
    BY DEF EvidenceIn
  <1>2. s \in Seq(Parts) /\ Front(s) \in DOMAIN doc /\ doc[Front(s)] \in Containers
    BY <1>1 DEF IsDocument, IsTree
  <1>3. /\ Len(s) \in Nat /\ Len(s) >= 1 /\ Last(s) = s[Len(s)] /\ Len(Front(s)) = Len(s) - 1
        /\ \A i \in 1..(Len(s) - 1) : Front(s)[i] = s[i]
    BY <1>1, <1>2, FrontIs
  <1>4. Plainly(Front(s))
    BY <1>1, <1>3 DEF Plainly
  <1> QED BY <1>1, <1>2, <1>3, <1>4

LEMMA EvidenceFinite ==
  ASSUME NEW doc, IsDocument(doc), NEW E, E \subseteq EvidenceIn(doc)
  PROVE  IsFiniteSet(E)
  <1>1. E \subseteq DOMAIN doc
    BY DEF EvidenceIn
  <1> QED BY <1>1, FS_Subset DEF IsDocument

(* Evidence is not inside evidence, ...                                    *)
LEMMA EvidenceApart ==
  ASSUME NEW doc, IsDocument(doc), NEW s \in EvidenceIn(doc), NEW t \in EvidenceIn(doc), IsPrefix(s, t)
  PROVE  s = t
  <1>1. /\ s \in Seq(Parts) /\ t \in Seq(Parts) /\ Len(s) \in Nat /\ Len(t) \in Nat /\ Len(s) >= 1
        /\ s[Len(s)] = "evidence" /\ \A i \in 1..(Len(t) - 1) : t[i] # "evidence"
    BY EvidenceInIs
  <1>2. Len(s) <= Len(t) /\ \A i \in 1..Len(s) : s[i] = t[i]
    BY <1>1, PrefixByElements
  <1>3. CASE Len(s) < Len(t)
    <2>1. Len(s) \in 1..Len(s) /\ Len(s) \in 1..(Len(t) - 1)
      BY <1>1, <1>3
    <2> QED BY <1>1, <1>2, <2>1
  <1>4. CASE Len(s) = Len(t)
    BY <1>1, <1>2, <1>4, SeqEqual
  <1> QED BY <1>1, <1>2, <1>3, <1>4

(* ... and what has that word on its way is evidence, or in it.            *)
LEMMA EvidenceFound ==
  ASSUME NEW doc, IsDocument(doc), NEW n \in DOMAIN doc, ~Plainly(n)
  PROVE  \E s \in EvidenceIn(doc) : IsPrefix(s, n)
  <1> DEFINE T == {i \in 1..Len(n) : n[i] = "evidence"}
  <1>1. n \in Seq(Parts) /\ Len(n) \in Nat
    BY LenProperties DEF IsDocument
  <1>2. T \in SUBSET Nat /\ T # {}
    BY <1>1 DEF Plainly
  <1>3. PICK i \in T : \A j \in T : i <= j
    BY <1>2, LeastNatural
  <1> DEFINE s == SubSeq(n, 1, i)
  <1>4. i \in 1..Len(n) /\ i \in Nat /\ i \in 0..Len(n) /\ n[i] = "evidence" /\ i >= 1 /\ i <= Len(n)
        /\ i - 1 + 1 = i
    BY <1>1, <1>3
  <1>5. \A j \in 1..(i - 1) : n[j] # "evidence"
    <2> SUFFICES ASSUME NEW j \in 1..(i - 1), n[j] = "evidence" PROVE FALSE
      OBVIOUS
    <2>1. j \in T /\ j < i
      BY <1>1, <1>4
    <2> QED BY <1>3, <1>4, <2>1
  <1>6. s \in DOMAIN doc
    BY <1>4, WayInside
  <1>7. \A j \in 1..i : n[j] \in Parts /\ 1 + j - 1 = j
    BY <1>1, <1>4, ElementOfSeq
  <1>8. /\ s \in Seq(Parts) /\ Len(s) = (IF 1 <= i THEN i - 1 + 1 ELSE 0)
        /\ \A j \in 1..(i - 1 + 1) : s[j] = n[1 + j - 1]
    BY <1>4, <1>7, SubSeqProperties
  <1> HIDE DEF s, T
  <1>9. Len(s) = i /\ \A j \in 1..i : s[j] = n[j]
    BY <1>4, <1>7, <1>8
  <1>10. s # <<>> /\ Last(s) = "evidence"
    <2>1. i \in 1..i
      BY <1>4
    <2> QED BY <1>4, <1>8, <1>9, <2>1, EmptySeq DEF Last
  <1>11. \A j \in 1..(Len(s) - 1) : s[j] # "evidence"
    BY <1>4, <1>5, <1>9
  <1>12. s \in EvidenceIn(doc)
    BY <1>6, <1>10, <1>11 DEF EvidenceIn
  <1>13. IsPrefix(s, n)
    BY <1>1, <1>4, <1>8, <1>9, PrefixByElements
  <1> QED BY <1>12, <1>13

(* A node outside the evidence has not the word in it.                     *)
LEMMA PlainPrefix ==
  ASSUME NEW s \in Seq(Parts), NEW n \in Seq(Parts), IsPrefix(s, n), Plainly(n)
  PROVE  Plainly(s)
  BY PrefixByElements, LenProperties DEF Plainly

(* The document with its evidence taken out.                               *)
LEMMA FrameIs ==
  ASSUME NEW doc, IsDocument(doc)
  PROVE  /\ IsDocument(Frame(doc))
         /\ \A n \in DOMAIN Frame(doc) : n \in DOMAIN doc /\ (n \in EvidenceIn(doc) \/ Plainly(n))
         /\ \A n \in DOMAIN doc : Plainly(n) => n \in DOMAIN Frame(doc) /\ Frame(doc)[n] = doc[n]
         /\ \A s \in EvidenceIn(doc) : s \in DOMAIN Frame(doc) /\ Frame(doc)[s] = "null"
  <1> DEFINE at == [n \in EvidenceIn(doc) |-> Leaf("null")]
  <1>1. DOMAIN doc \subseteq Seq(Parts)
    BY DEF IsDocument
  <1>2. DOMAIN at = EvidenceIn(doc) /\ \A s \in EvidenceIn(doc) : at[s] = Leaf("null")
    OBVIOUS
  <1> HIDE DEF at
  <1>3. Apart(at)
    <2>1. \A s \in EvidenceIn(doc) : s \in Seq(Parts) /\ DOMAIN at[s] \subseteq Seq(Parts)
      BY <1>2, EvidenceInIs, LeafIs DEF IsDocument
    <2> QED BY <1>2, <2>1, EvidenceApart DEF Apart
  <1>4. \A s \in DOMAIN at :
           /\ IsDocument(at[s])
           /\ s # <<>> => Front(s) \in DOMAIN doc /\ doc[Front(s)] \in Containers
    BY <1>2, EvidenceInIs, LeafIs
  <1>5. IsDocument(Graft(doc, at))
    <2>1. IsFiniteSet(DOMAIN at)
      BY <1>2, EvidenceFinite
    <2> QED BY <1>3, <1>4, <2>1, GraftTree
  <1>6. ASSUME NEW n \in DOMAIN Graft(doc, at)
        PROVE  n \in DOMAIN doc /\ (n \in EvidenceIn(doc) \/ Plainly(n))
    <2>1. \/ n \in DOMAIN doc /\ Outside(at, n)
          \/ \E s \in DOMAIN at : \E m \in DOMAIN at[s] : n = s \o m
      <3>1. Grafted(Graft(doc, at), doc, at)
        BY <1>1, <1>3, GraftIs
      <3> QED BY <3>1 DEF Grafted
    <2>2. CASE n \in DOMAIN doc /\ Outside(at, n)
      BY <1>2, <2>2, EvidenceFound DEF Outside
    <2>3. CASE \E s \in DOMAIN at : \E m \in DOMAIN at[s] : n = s \o m
      <3>1. PICK s \in EvidenceIn(doc) : n = s \o <<>>
        BY <1>2, <2>3, LeafIs
      <3>2. n = s /\ s \in DOMAIN doc
        BY <3>1, EvidenceInIs, ConcatEmptySeq
      <3> QED BY <3>2
    <2> QED BY <2>1, <2>2, <2>3
  <1>7. Frame(doc) = Graft(doc, at)
    BY DEF Frame, at
  <1>8. /\ \A n \in DOMAIN doc : Outside(at, n) => n \in DOMAIN Graft(doc, at) /\ Graft(doc, at)[n] = doc[n]
        /\ \A s \in DOMAIN at : \A m \in DOMAIN at[s] :
             s \o m \in DOMAIN Graft(doc, at) /\ Graft(doc, at)[s \o m] = at[s][m]
    <2>1. Grafted(Graft(doc, at), doc, at)
      BY <1>1, <1>3, GraftIs
    <2> QED BY <2>1 DEF Grafted
  <1>9. ASSUME NEW n \in DOMAIN doc, Plainly(n) PROVE Outside(at, n)
    <2> SUFFICES ASSUME NEW s \in EvidenceIn(doc), IsPrefix(s, n) PROVE FALSE
      BY <1>2 DEF Outside
    <2>1. s \in Seq(Parts) /\ Len(s) \in Nat /\ Len(s) >= 1 /\ s[Len(s)] = "evidence"
      BY EvidenceInIs
    <2>2. Plainly(s)
      BY <1>1, <1>9, <2>1, PlainPrefix
    <2>3. Len(s) \in 1..Len(s)
      BY <2>1
    <2> QED BY <2>1, <2>2, <2>3 DEF Plainly
  <1>10. ASSUME NEW s \in EvidenceIn(doc)
         PROVE  s \in DOMAIN Graft(doc, at) /\ Graft(doc, at)[s] = "null"
    <2>1. s \o <<>> = s
      BY EvidenceInIs, ConcatEmptySeq
    <2>2. <<>> \in DOMAIN at[s] /\ at[s][<<>>] = "null" /\ s \in DOMAIN at
      BY <1>2, LeafIs
    <2> QED BY <1>8, <2>1, <2>2
  <1> QED BY <1>5, <1>6, <1>7, <1>8, <1>9, <1>10

(* What the check of a document leaves: nodes of the frame, cleaned by the *)
(* report's rule, and below each evidence what that rule leaves.           *)
LEMMA CheckedIs ==
  ASSUME NEW doc, IsDocument(doc)
  PROVE  LET checked == Checked(doc)
             frame == Shown(Frame(doc), ReportRule)
             inside(s) == Shown(At(doc, s), EvidenceRule)
         IN  /\ IsDocument(checked)
             /\ \A n \in DOMAIN checked :
                  \/ Plainly(n) /\ n \in DOMAIN frame
                  \/ \E s \in EvidenceIn(doc) \cap DOMAIN frame : \E m \in DOMAIN inside(s) : n = s \o m
             /\ \A n \in DOMAIN frame : Plainly(n) => n \in DOMAIN checked /\ checked[n] = frame[n]
             /\ \A s \in EvidenceIn(doc) \cap DOMAIN frame : \A m \in DOMAIN inside(s) :
                  s \o m \in DOMAIN checked /\ checked[s \o m] = inside(s)[m]
  <1> DEFINE frame == Shown(Frame(doc), ReportRule)
             inside(s) == Shown(At(doc, s), EvidenceRule)
             E == EvidenceIn(doc) \cap DOMAIN frame
             at == [s \in E |-> inside(s)]
  <1>1. EvidenceRule.depth \in Nat /\ ReportRule.depth \in Nat
    BY DEF EvidenceRule, ReportRule
  <1>2. /\ IsDocument(frame) /\ \A n \in DOMAIN frame : n \in DOMAIN Frame(doc)
    BY <1>1, FrameIs, ShownIs
  <1>3. \A n \in DOMAIN frame : n \in Seq(Parts) /\ n \in DOMAIN doc /\ (n \in EvidenceIn(doc) \/ Plainly(n))
    BY <1>2, FrameIs DEF IsDocument
  <1>4. \A s \in E : s \in Seq(Parts) /\ IsDocument(inside(s))
    <2> SUFFICES ASSUME NEW s \in E PROVE s \in Seq(Parts) /\ IsDocument(inside(s))
      OBVIOUS
    <2>1. s \in Seq(Parts)
      BY EvidenceInIs
    <2>2. IsDocument(At(doc, s))
      BY <2>1, AtIs
    <2> QED BY <1>1, <2>1, <2>2, ShownIs
  <1> HIDE DEF inside, frame
  <1>5. DOMAIN at = E /\ \A s \in E : at[s] = inside(s)
    OBVIOUS
  <1>6. Checked(doc) = Graft(frame, at)
    BY DEF Checked, frame, inside
  <1> HIDE DEF at
  <1>7. Apart(at)
    BY <1>4, <1>5, EvidenceApart DEF Apart, IsDocument
  <1>8. \A s \in DOMAIN at :
           /\ IsDocument(at[s])
           /\ s # <<>> => Front(s) \in DOMAIN frame /\ frame[Front(s)] \in Containers
    BY <1>2, <1>4, <1>5 DEF IsDocument, IsTree
  <1>9. IsDocument(Graft(frame, at))
    <2>1. IsFiniteSet(DOMAIN at)
      BY <1>5, EvidenceFinite
    <2> QED BY <1>2, <1>7, <1>8, <2>1, GraftTree
  <1>10. DOMAIN frame \subseteq Seq(Parts)
    BY <1>3
  <1>11. ASSUME NEW n \in DOMAIN frame PROVE Outside(at, n) <=> Plainly(n)
    <2>1. CASE Plainly(n)
      <3> SUFFICES ASSUME NEW s \in E, IsPrefix(s, n) PROVE FALSE
        BY <1>5, <2>1 DEF Outside
      <3>1. s \in Seq(Parts) /\ Len(s) \in Nat /\ Len(s) >= 1 /\ s[Len(s)] = "evidence"
        BY EvidenceInIs
      <3>2. Plainly(s)
        BY <1>3, <2>1, <3>1, PlainPrefix
      <3>3. Len(s) \in 1..Len(s)
        BY <3>1
      <3> QED BY <3>1, <3>2, <3>3 DEF Plainly
    <2>2. CASE ~Plainly(n)
      <3>1. n \in E /\ IsPrefix(n, n)
        BY <1>3, <2>2, PrefixSelf
      <3> QED BY <1>5, <2>2, <3>1 DEF Outside
    <2> QED BY <2>1, <2>2
  <1>12. /\ \A n \in DOMAIN Graft(frame, at) :
              \/ n \in DOMAIN frame /\ Outside(at, n)
              \/ \E s \in DOMAIN at : \E m \in DOMAIN at[s] : n = s \o m
         /\ \A n \in DOMAIN frame : Outside(at, n) =>
              n \in DOMAIN Graft(frame, at) /\ Graft(frame, at)[n] = frame[n]
         /\ \A s \in DOMAIN at : \A m \in DOMAIN at[s] :
              s \o m \in DOMAIN Graft(frame, at) /\ Graft(frame, at)[s \o m] = at[s][m]
    <2> HIDE DEF E
    <2>1. Grafted(Graft(frame, at), frame, at)
      BY <1>7, <1>10, GraftIs
    <2> QED BY <2>1 DEF Grafted
  <1> HIDE DEF E
  <1>13. \A s : s \in E <=> s \in EvidenceIn(doc) \cap DOMAIN frame
    BY DEF E
  <1> QED BY <1>5, <1>6, <1>9, <1>11, <1>12, <1>13 DEF frame, inside

(* A checked document keeps to the lists.                                  *)
Evident(n) == \E i \in 1..(Len(n) - 1) : n[i] = "evidence"

CleanAt(doc, n) ==
  /\ doc[n] \in Containers \cup (IF Evident(n) \/ (n # <<>> /\ Last(n) = "evidence")
                                 THEN EvidenceRule.leaves ELSE ReportRule.leaves)
  /\ n # <<>> /\ doc[Front(n)] = "object" =>
       Last(n) \in (IF Evident(n) THEN EvidenceRule.keys ELSE ReportRule.keys)
  /\ Len(n) <= ReportRule.depth + EvidenceRule.depth + 2

LEMMA CheckedIsClean ==
  ASSUME NEW doc, IsDocument(doc), NEW n \in DOMAIN Checked(doc)
  PROVE  CleanAt(Checked(doc), n)
  <1> DEFINE checked == Checked(doc)
             frame == Shown(Frame(doc), ReportRule)
             inside(s) == Shown(At(doc, s), EvidenceRule)
  <1>1. /\ EvidenceRule.depth = 4 /\ ReportRule.depth = 16
        /\ "null" \in EvidenceRule.leaves /\ "null" \in ReportRule.leaves
        /\ "evidence" \in ReportRule.keys
        /\ ReportRule.depth + EvidenceRule.depth + 2 = 22
    BY DEF EvidenceRule, ReportRule, ReportKeys
  <1>2. /\ IsDocument(checked)
        /\ \/ Plainly(n) /\ n \in DOMAIN frame
           \/ \E s \in EvidenceIn(doc) \cap DOMAIN frame : \E m \in DOMAIN inside(s) : n = s \o m
        /\ \A k \in DOMAIN frame : Plainly(k) => k \in DOMAIN checked /\ checked[k] = frame[k]
        /\ \A s \in EvidenceIn(doc) \cap DOMAIN frame : \A m \in DOMAIN inside(s) :
                  s \o m \in DOMAIN checked /\ checked[s \o m] = inside(s)[m]
    BY CheckedIs
  <1>3. /\ IsDocument(frame)
        /\ \A k \in DOMAIN frame :
             /\ k \in DOMAIN Frame(doc) /\ Len(k) \in Nat /\ Len(k) <= 17
             /\ frame[k] \in Containers \cup ReportRule.leaves \cup {"null"}
             /\ k # <<>> /\ frame[Front(k)] = "object" => Last(k) \in ReportRule.keys
    BY <1>1, FrameIs, ShownIs
  <1>4. ASSUME NEW s \in EvidenceIn(doc)
        PROVE  \A m \in DOMAIN inside(s) :
             /\ m \in Seq(Parts) /\ Len(m) \in Nat /\ Len(m) <= 5
             /\ inside(s)[m] \in Containers \cup EvidenceRule.leaves \cup {"null"}
             /\ m # <<>> => /\ Front(m) \in DOMAIN inside(s)
                            /\ inside(s)[Front(m)] = "object" => Last(m) \in EvidenceRule.keys
    <2>1. s \in Seq(Parts)
      BY EvidenceInIs
    <2>2. IsDocument(At(doc, s))
      BY <2>1, AtIs
    <2>3. /\ IsDocument(inside(s))
          /\ \A m \in DOMAIN inside(s) :
               /\ Len(m) \in Nat /\ Len(m) <= 5
               /\ inside(s)[m] \in Containers \cup EvidenceRule.leaves \cup {"null"}
               /\ m # <<>> /\ inside(s)[Front(m)] = "object" => Last(m) \in EvidenceRule.keys
      BY <1>1, <2>2, ShownIs
    <2> HIDE DEF inside
    <2> QED BY <2>3 DEF IsDocument, IsTree
  <1> HIDE DEF checked, frame, inside
  <1>6. CASE Plainly(n) /\ n \in DOMAIN frame
    <2>1. n \in Seq(Parts) /\ Len(n) \in Nat
      BY <1>3, <1>6 DEF IsDocument
    <2>2. ~Evident(n)
      BY <1>6, <2>1 DEF Plainly, Evident
    <2>3. ASSUME n # <<>> PROVE Last(n) # "evidence"
      <3>1. Last(n) = n[Len(n)] /\ Len(n) >= 1
        BY <2>1, <2>3, FrontIs
      <3>2. Len(n) \in 1..Len(n)
        BY <2>1, <3>1
      <3> QED BY <1>6, <3>1, <3>2 DEF Plainly
    <2>4. checked[n] \in Containers \cup ReportRule.leaves
      BY <1>1, <1>2, <1>3, <1>6
    <2>5. ASSUME n # <<>>, checked[Front(n)] = "object" PROVE Last(n) \in ReportRule.keys
      <3>1. Front(n) \in DOMAIN frame
        BY <1>3, <1>6, <2>5 DEF IsDocument, IsTree
      <3>2. Plainly(Front(n))
        BY <1>6, <2>1, <2>5, FrontIs, PlainPrefix
      <3>3. frame[Front(n)] = "object"
        BY <1>2, <2>5, <3>1, <3>2
      <3> QED BY <1>3, <1>6, <2>5, <3>3
    <2>6. Len(n) <= 22
      BY <1>3, <1>6, <2>1
    <2>7. CleanAt(checked, n)
      BY <1>1, <2>2, <2>3, <2>4, <2>5, <2>6 DEF CleanAt
    <2> QED BY <2>7 DEF checked
  <1>7. ASSUME NEW s \in EvidenceIn(doc) \cap DOMAIN frame, NEW m \in DOMAIN inside(s), n = s \o m
        PROVE  CleanAt(checked, n)
    <2>1. /\ s \in Seq(Parts) /\ s # <<>> /\ Last(s) = "evidence" /\ Len(s) >= 1 /\ Len(s) <= 17
          /\ Len(s) \in Nat /\ s[Len(s)] = "evidence"
          /\ \A i \in 1..(Len(s) - 1) : s[i] # "evidence"
      BY <1>3, EvidenceInIs
    <2>2. m \in Seq(Parts) /\ Len(m) \in Nat /\ Len(m) <= 5
      BY <1>4
    <2>3. /\ n \in Seq(Parts) /\ Len(n) = Len(s) + Len(m)
          /\ \A i \in 1..Len(s) : n[i] = s[i]
      BY <1>7, <2>1, <2>2, Joined
    <2>4. checked[n] \in Containers \cup EvidenceRule.leaves
      BY <1>1, <1>2, <1>4, <1>7
    <2>5. Len(n) <= 22
      BY <2>1, <2>2, <2>3
    <2>6. CASE m = <<>>
      <3>1. n = s
        BY <1>7, <2>1, <2>6, ConcatEmptySeq
      <3>2. ~Evident(n) /\ n # <<>> /\ Last(n) = "evidence"
        BY <2>1, <3>1 DEF Evident
      <3>3. checked[Front(n)] = "object" => Last(n) \in ReportRule.keys
        BY <1>1, <3>2
      <3> QED BY <1>1, <2>4, <2>5, <3>2, <3>3 DEF CleanAt
    <2>7. CASE m # <<>>
      <3>1. Len(m) # 0
        BY <2>2, <2>7, EmptySeq
      <3>2. Evident(n)
        <4>1. Len(s) \in 1..(Len(n) - 1) /\ Len(s) \in 1..Len(s)
          BY <2>1, <2>2, <2>3, <3>1
        <4> QED BY <2>1, <2>3, <4>1 DEF Evident
      <3>3. Front(n) = s \o Front(m) /\ Last(n) = Last(m)
        BY <1>7, <2>1, <2>2, <2>7, FrontOfJoined
      <3>4. Front(m) \in DOMAIN inside(s) /\ checked[Front(n)] = inside(s)[Front(m)]
        BY <1>2, <1>4, <2>7, <3>3
      <3>5. checked[Front(n)] = "object" => Last(n) \in EvidenceRule.keys
        BY <1>4, <2>7, <3>3, <3>4
      <3> QED BY <1>1, <2>4, <2>5, <3>2, <3>5 DEF CleanAt
    <2> QED BY <2>6, <2>7
  <1>8. CASE \E s \in EvidenceIn(doc) \cap DOMAIN frame : \E m \in DOMAIN inside(s) : n = s \o m
    <2> QED BY <1>7, <1>8 DEF checked
  <1> QED BY <1>2, <1>6, <1>8

-------------------------------------------------------------------------------
(* Cleaning again.                                                         *)

(* What a rule leaves as it is.                                            *)
Keeps(doc, rule) ==
  /\ IsDocument(doc)
  /\ \A n \in DOMAIN doc :
       /\ Len(n) <= rule.depth + 1 /\ (Len(n) = rule.depth + 1 => doc[n] = "null")
       /\ Admitted(doc, rule, n)
       /\ n # <<>> => Within(doc, rule, n) /\ Allowed(doc, rule, n)

(* Nothing but the values of its nodes: a function.                        *)
IsMapping(doc) == doc = [n \in DOMAIN doc |-> doc[n]]

LEMMA KeptStays ==
  ASSUME NEW doc, NEW rule, rule.depth \in Nat, Keeps(doc, rule), IsMapping(doc)
  PROVE  /\ Visited(doc, rule) = DOMAIN doc
         /\ Shown(doc, rule) = doc
         /\ Redactions(doc, rule) = 0
  <1> DEFINE Fine(n) == /\ Len(n) <= rule.depth + 1 /\ (Len(n) = rule.depth + 1 => doc[n] = "null")
                        /\ Admitted(doc, rule, n)
                        /\ n # <<>> => Within(doc, rule, n) /\ Allowed(doc, rule, n)
  <1>1. IsDocument(doc) /\ \A n \in DOMAIN doc : Fine(n)
    BY DEF Keeps
  <1>2. \A n \in DOMAIN doc : n \in Seq(Parts) /\ Len(n) \in Nat
    BY <1>1, LenProperties DEF IsDocument
  <1>3. ASSUME NEW n \in DOMAIN doc, NEW i \in 1..Len(n)
        PROVE  LET w == SubSeq(n, 1, i)
               IN  i <= rule.depth + 1 /\ Within(doc, rule, w) /\ Allowed(doc, rule, w)
    <2> DEFINE w == SubSeq(n, 1, i)
    <2>1. Len(w) = i /\ w # <<>> /\ i \in Nat /\ i <= Len(n)
      BY <1>2, WayIs
    <2>2. w \in DOMAIN doc
      <3>1. i \in 0..Len(n)
        BY <1>2, <2>1
      <3> QED BY <1>1, <3>1, WayInside
    <2> HIDE DEF w
    <2>3. Fine(w)
      BY <1>1, <2>2
    <2>4. i <= rule.depth + 1 /\ Within(doc, rule, w) /\ Allowed(doc, rule, w)
      BY <2>1, <2>3
    <2> QED BY <2>4 DEF w
  <1>4. Visited(doc, rule) = DOMAIN doc
    BY <1>3 DEF Visited
  <1>5. ASSUME NEW n \in DOMAIN doc
        PROVE  (IF Len(n) <= rule.depth /\ Admitted(doc, rule, n) THEN doc[n] ELSE "null") = doc[n]
    <2>1. Fine(n) /\ Len(n) \in Nat
      BY <1>1, <1>2
    <2>2. Len(n) <= rule.depth \/ Len(n) = rule.depth + 1
      BY <2>1
    <2> QED BY <2>1, <2>2
  <1>6. Shown(doc, rule) = doc
    <2>1. Shown(doc, rule) = [n \in DOMAIN doc |-> doc[n]]
      BY <1>4, <1>5 DEF Shown
    <2> QED BY <2>1 DEF IsMapping
  <1>7. Redactions(doc, rule) = 0
    <2> DEFINE seen == {n \in Visited(doc, rule) : Len(n) <= rule.depth}
               A == {n \in seen : ~Admitted(doc, rule, n)}
               B == {n \in UNION {Children(doc, m) : m \in seen} :
                       Within(doc, rule, n) /\ ~Allowed(doc, rule, n)}
    <2>1. A = {}
      BY <1>1, <1>4
    <2>2. B = {}
      <3> SUFFICES ASSUME NEW m \in DOMAIN doc, NEW n \in Children(doc, m), ~Allowed(doc, rule, n)
                   PROVE  FALSE
        BY <1>4
      <3>1. n \in DOMAIN doc /\ Len(n) = Len(m) + 1
        BY DEF Children
      <3>2. n # <<>>
        BY <1>2, <3>1, EmptySeq
      <3> QED BY <1>1, <3>1, <3>2
    <2>3. Redactions(doc, rule) = Cardinality(A) + Cardinality(B)
      BY DEF Redactions
    <2> HIDE DEF A, B
    <2>4. Cardinality(A) = 0 /\ Cardinality(B) = 0
      BY <2>1, <2>2, FS_EmptySet
    <2> QED BY <2>3, <2>4
  <1> QED BY <1>4, <1>6, <1>7

(* What a rule has cleaned, it leaves as it is: what is cut off makes room *)
(* before a node, never after it.                                          *)
LEMMA ShownKeeps ==
  ASSUME NEW doc, IsDocument(doc), NEW rule, rule.depth \in Nat, rule.items \in Nat,
         rule.members \in Nat, "null" \in rule.leaves
  PROVE  Keeps(Shown(doc, rule), rule) /\ IsMapping(Shown(doc, rule))
  <1> DEFINE shown == Shown(doc, rule)
  <1>1. shown = [n \in Visited(doc, rule) |->
                   IF Len(n) <= rule.depth /\ Admitted(doc, rule, n) THEN doc[n] ELSE "null"]
    BY DEF Shown
  <1>2. /\ DOMAIN shown = Visited(doc, rule)
        /\ \A n \in Visited(doc, rule) :
             shown[n] = IF Len(n) <= rule.depth /\ Admitted(doc, rule, n) THEN doc[n] ELSE "null"
    BY <1>1
  <1>3. IsMapping(shown)
    BY <1>1 DEF IsMapping
  <1>4. IsDocument(shown)
    BY ShownIs
  <1> HIDE DEF shown
  <1>5. \A n \in Visited(doc, rule) : n \in DOMAIN doc /\ Len(n) \in Nat /\ Len(n) <= rule.depth + 1
    BY VisitedIs
  <1>6. ASSUME NEW n \in DOMAIN shown
        PROVE  (Len(n) = rule.depth + 1 => shown[n] = "null") /\ Admitted(shown, rule, n)
    <2>1. shown[n] \in Containers \cup rule.leaves
      BY <1>2 DEF Admitted
    <2>2. Len(n) = rule.depth + 1 => ~(Len(n) <= rule.depth)
      OBVIOUS
    <2> QED BY <1>2, <2>1, <2>2 DEF Admitted
  <1>7. ASSUME NEW n \in DOMAIN shown, n # <<>>
        PROVE  Within(shown, rule, n) /\ Allowed(shown, rule, n)
    <2> DEFINE f == Front(n)
    <2>1. /\ f \in Visited(doc, rule) /\ Len(f) <= rule.depth /\ doc[f] \in Containers
          /\ Within(doc, rule, n) /\ Allowed(doc, rule, n)
      BY <1>2, <1>7, VisitedIs
    <2>2. shown[f] = doc[f]
      <3>1. Admitted(doc, rule, f)
        BY <2>1 DEF Admitted
      <3> QED BY <1>2, <2>1, <3>1
    <2>3. Allowed(shown, rule, n)
      BY <2>1, <2>2 DEF Allowed
    <2>4. Earlier(shown, n) \subseteq Earlier(doc, n)
      <3>1. Children(shown, f) \subseteq Children(doc, f)
        BY <1>2, <1>5 DEF Children
      <3> QED BY <2>2, <3>1 DEF Earlier
    <2>5. IsFiniteSet(Earlier(doc, n))
      <3>1. Earlier(doc, n) \subseteq DOMAIN doc
        BY DEF Earlier, Children
      <3> QED BY <3>1, FS_Subset DEF IsDocument
    <2> DEFINE a == Cardinality(Earlier(shown, n))
               b == Cardinality(Earlier(doc, n))
               limit == IF doc[f] = "array" THEN rule.items ELSE rule.members
    <2>6. a \in Nat /\ b \in Nat /\ a <= b
      BY <2>4, <2>5, FS_Subset, FS_CardinalityType
    <2>7. /\ Within(doc, rule, n) <=> limit = Unlimited \/ b < limit
          /\ Within(shown, rule, n) <=> limit = Unlimited \/ a < limit
      BY <2>2 DEF Within
    <2>8. limit \in Nat
      OBVIOUS
    <2> HIDE DEF a, b, limit
    <2>9. Within(shown, rule, n)
      BY <2>1, <2>6, <2>7, <2>8
    <2> QED BY <2>3, <2>9
  <1>8. Keeps(shown, rule)
    BY <1>2, <1>4, <1>5, <1>6, <1>7 DEF Keeps
  <1> QED BY <1>3, <1>8 DEF shown

(* A sum of nothings.                                                      *)
InsideRedactions(doc, E) == MapThenSumSet(LAMBDA n : Redactions(At(doc, n), EvidenceRule), E)

LEMMA NothingAdds ==
  ASSUME NEW doc, NEW E, IsFiniteSet(E), \A s \in E : Redactions(At(doc, s), EvidenceRule) = 0
  PROVE  InsideRedactions(doc, E) = 0
  <1> DEFINE r(n) == Redactions(At(doc, n), EvidenceRule)
             Rule(h) == [t \in SUBSET E |->
                           IF t = {} THEN 0
                           ELSE r(CHOOSE x \in t : TRUE) + h[t \ {CHOOSE x \in t : TRUE}]]
             iter == CHOOSE h : h = Rule(h)
             none == [t \in SUBSET E |-> 0]
  <1>1. InsideRedactions(doc, E) = iter[E]
    BY DEF InsideRedactions, MapThenSumSet, MapThenFoldSet
  <1>2. \A s \in E : r(s) = 0
    OBVIOUS
  <1> HIDE DEF r
  <1>3. none = Rule(none)
    <2>1. ASSUME NEW t \in SUBSET E
          PROVE  (IF t = {} THEN 0
                  ELSE r(CHOOSE x \in t : TRUE) + none[t \ {CHOOSE x \in t : TRUE}]) = 0
      <3>1. CASE t # {}
        <4> DEFINE x == CHOOSE x \in t : TRUE
        <4>1. x \in t
          BY <3>1
        <4>2. r(x) = 0 /\ none[t \ {x}] = 0
          BY <1>2, <4>1
        <4> HIDE DEF x, none
        <4> QED BY <4>2 DEF x
      <3> QED BY <3>1
    <2> QED BY <2>1
  <1>4. iter = Rule(iter)
    <2> HIDE DEF Rule
    <2> QED BY <1>3
  <1>5. \A t \in SUBSET E : iter[t] = IF t = {} THEN 0
                                      ELSE r(CHOOSE x \in t : TRUE) + iter[t \ {CHOOSE x \in t : TRUE}]
    <2> HIDE DEF iter
    <2> QED BY <1>4, Zenon
  <1> HIDE DEF iter, Rule, none
  <1> DEFINE T == {k \in Nat : \A t \in SUBSET E : Cardinality(t) = k => iter[t] = 0}
  <1>6. \A t \in SUBSET E : IsFiniteSet(t) /\ Cardinality(t) \in Nat
    BY FS_Subset, FS_CardinalityType
  <1>7. 0 \in T
    <2>1. \A t \in SUBSET E : Cardinality(t) = 0 => t = {}
      BY <1>6, FS_EmptySet
    <2> QED BY <1>5, <2>1
  <1>8. ASSUME NEW k \in Nat, k \in T PROVE k + 1 \in T
    <2> SUFFICES ASSUME NEW t \in SUBSET E, Cardinality(t) = k + 1 PROVE iter[t] = 0
      OBVIOUS
    <2> DEFINE x == CHOOSE x \in t : TRUE
    <2>1. t # {}
      BY FS_EmptySet
    <2>2. x \in t /\ x \in E
      BY <2>1
    <2> HIDE DEF x
    <2>3. Cardinality(t \ {x}) = k
      <3>1. Cardinality(t \ {x}) = Cardinality(t) - 1
        BY <1>6, <2>2, FS_RemoveElement
      <3> QED BY <3>1
    <2>4. iter[t \ {x}] = 0
      BY <1>8, <2>3
    <2>5. iter[t] = r(x) + iter[t \ {x}]
      BY <1>5, <2>1 DEF x
    <2> QED BY <1>2, <2>2, <2>4, <2>5
  <1>9. Nat \subseteq T
    <2> HIDE DEF T
    <2> QED BY <1>7, <1>8, SetInduction
  <1>10. iter[E] = 0
    BY <1>6, <1>9
  <1> QED BY <1>1, <1>10

(* Documents the check leaves as they are.                                 *)
Clear(doc) ==
  /\ IsDocument(doc) /\ IsMapping(doc)
  /\ Keeps(Frame(doc), ReportRule)
  /\ \A s \in EvidenceIn(doc) : Keeps(At(doc, s), EvidenceRule)

LEMMA ClearStays ==
  ASSUME NEW doc, Clear(doc)
  PROVE  Checked(doc) = doc /\ CheckedRedactions(doc) = 0
  <1> DEFINE checked == Checked(doc)
             frame == Shown(Frame(doc), ReportRule)
             inside(s) == Shown(At(doc, s), EvidenceRule)
  <1>1. ReportRule.depth \in Nat /\ EvidenceRule.depth \in Nat
    BY DEF ReportRule, EvidenceRule
  <1>2. /\ IsDocument(doc) /\ IsMapping(doc) /\ DOMAIN doc \subseteq Seq(Parts)
        /\ Keeps(Frame(doc), ReportRule)
        /\ \A s \in EvidenceIn(doc) : Keeps(At(doc, s), EvidenceRule)
    BY DEF Clear, IsDocument
  <1>3. IsMapping(Frame(doc)) /\ \A s : IsMapping(At(doc, s))
    BY DEF IsMapping, Frame, Graft, At
  <1>4. /\ frame = Frame(doc) /\ Visited(Frame(doc), ReportRule) = DOMAIN Frame(doc)
        /\ Redactions(Frame(doc), ReportRule) = 0
    BY <1>1, <1>2, <1>3, KeptStays
  <1>5. \A s \in EvidenceIn(doc) : inside(s) = At(doc, s) /\ Redactions(At(doc, s), EvidenceRule) = 0
    BY <1>1, <1>2, <1>3, KeptStays
  <1>6. EvidenceIn(doc) \cap DOMAIN Frame(doc) = EvidenceIn(doc)
    BY <1>2, FrameIs
  <1>7. /\ \A n \in DOMAIN checked :
             \/ Plainly(n) /\ n \in DOMAIN frame
             \/ \E s \in EvidenceIn(doc) \cap DOMAIN frame : \E m \in DOMAIN inside(s) : n = s \o m
        /\ \A n \in DOMAIN frame : Plainly(n) => n \in DOMAIN checked /\ checked[n] = frame[n]
        /\ \A s \in EvidenceIn(doc) \cap DOMAIN frame : \A m \in DOMAIN inside(s) :
             s \o m \in DOMAIN checked /\ checked[s \o m] = inside(s)[m]
    BY <1>2, CheckedIs
  <1>8. IsMapping(checked)
    BY DEF IsMapping, Checked, Graft
  <1> HIDE DEF checked, frame, inside
  <1>9. ASSUME NEW s \in EvidenceIn(doc)
        PROVE  /\ s \in Seq(Parts)
               /\ \A m \in DOMAIN At(doc, s) : s \o m \in DOMAIN doc /\ At(doc, s)[m] = doc[s \o m]
               /\ \A m \in Seq(Parts) : s \o m \in DOMAIN doc => m \in DOMAIN At(doc, s)
    BY <1>2, EvidenceInIs, AtIs
  <1>10. ASSUME NEW n \in DOMAIN doc PROVE n \in DOMAIN checked /\ checked[n] = doc[n]
    <2>1. CASE Plainly(n)
      BY <1>2, <1>4, <1>7, <2>1, FrameIs
    <2>2. CASE ~Plainly(n)
      <3>1. PICK s \in EvidenceIn(doc) : IsPrefix(s, n)
        BY <1>2, <2>2, EvidenceFound
      <3> DEFINE m == SubSeq(n, Len(s) + 1, Len(n))
      <3>2. m \in Seq(Parts) /\ n = s \o m
        BY <1>2, <1>9, <3>1, SplitAt
      <3> HIDE DEF m
      <3>3. m \in DOMAIN inside(s) /\ inside(s)[m] = doc[n] /\ s \in EvidenceIn(doc) \cap DOMAIN frame
        BY <1>4, <1>5, <1>6, <1>9, <3>2
      <3> QED BY <1>7, <3>2, <3>3
    <2> QED BY <2>1, <2>2
  <1>11. ASSUME NEW n \in DOMAIN checked PROVE n \in DOMAIN doc
    <2>1. CASE Plainly(n) /\ n \in DOMAIN frame
      BY <1>2, <1>4, <2>1, FrameIs
    <2>2. CASE \E s \in EvidenceIn(doc) \cap DOMAIN frame : \E m \in DOMAIN inside(s) : n = s \o m
      BY <1>5, <1>9, <2>2
    <2> QED BY <1>7, <2>1, <2>2
  <1>12. checked = doc
    <2>1. DOMAIN checked = DOMAIN doc
      BY <1>10, <1>11
    <2>2. [n \in DOMAIN checked |-> checked[n]] = [n \in DOMAIN doc |-> doc[n]]
      BY <1>10, <2>1
    <2> QED BY <1>2, <1>8, <2>2 DEF IsMapping
  <1>13. CheckedRedactions(doc) = 0
    <2>1. IsFiniteSet(EvidenceIn(doc))
      BY <1>2, EvidenceFinite
    <2>2. InsideRedactions(doc, EvidenceIn(doc)) = 0
      BY <1>5, <2>1, NothingAdds
    <2>3. CheckedRedactions(doc) =
            Redactions(Frame(doc), ReportRule)
              + InsideRedactions(doc, EvidenceIn(doc) \cap Visited(Frame(doc), ReportRule))
      BY DEF CheckedRedactions, InsideRedactions
    <2>4. EvidenceIn(doc) \cap Visited(Frame(doc), ReportRule) = EvidenceIn(doc)
      BY <1>4, <1>6
    <2> QED BY <1>4, <2>2, <2>3, <2>4
  <1> QED BY <1>12, <1>13 DEF checked

(* What has been checked, the check leaves as it is.                       *)
LEMMA CheckedIsClear ==
  ASSUME NEW doc, IsDocument(doc)
  PROVE  Clear(Checked(doc))
  <1> DEFINE c == Checked(doc)
             frame == Shown(Frame(doc), ReportRule)
             inside(s) == Shown(At(doc, s), EvidenceRule)
             E == EvidenceIn(doc) \cap DOMAIN frame
  <1>1. /\ ReportRule.depth = 16 /\ EvidenceRule.depth = 4
        /\ ReportRule.items \in Nat /\ ReportRule.members \in Nat
        /\ EvidenceRule.items \in Nat /\ EvidenceRule.members \in Nat
        /\ "null" \in ReportRule.leaves /\ "null" \in EvidenceRule.leaves
    BY PartsAssumption DEF PartsAssumption, ReportRule, EvidenceRule, Unlimited
  <1>2. /\ IsDocument(Frame(doc))
        /\ \A n \in DOMAIN Frame(doc) : n \in DOMAIN doc /\ (n \in EvidenceIn(doc) \/ Plainly(n))
        /\ \A s \in EvidenceIn(doc) : s \in DOMAIN Frame(doc) /\ Frame(doc)[s] = "null"
    BY FrameIs
  <1>3. Keeps(frame, ReportRule) /\ IsMapping(frame)
    BY <1>1, <1>2, ShownKeeps
  <1>4. ASSUME NEW s \in EvidenceIn(doc)
        PROVE  /\ s \in Seq(Parts)
               /\ Keeps(inside(s), EvidenceRule) /\ IsMapping(inside(s))
               /\ <<>> \in DOMAIN inside(s)
    <2>1. s \in Seq(Parts) /\ s \in DOMAIN doc
      BY EvidenceInIs
    <2>2. IsDocument(At(doc, s)) /\ <<>> \in DOMAIN At(doc, s)
      <3>1. s \o <<>> = s /\ <<>> \in Seq(Parts)
        BY <2>1, ConcatEmptySeq, EmptySeq
      <3> QED BY <2>1, <3>1, AtIs
    <2>3. Keeps(inside(s), EvidenceRule) /\ IsMapping(inside(s))
      BY <1>1, <2>2, ShownKeeps
    <2>4. <<>> \in Visited(At(doc, s), EvidenceRule)
      <3>1. 1..Len(<<>>) = {}
        BY EmptySeq
      <3> QED BY <2>2, <3>1 DEF Visited
    <2>5. <<>> \in DOMAIN inside(s)
      BY <2>4 DEF Shown
    <2> QED BY <2>1, <2>3, <2>5
  <1>5. /\ DOMAIN frame = Visited(Frame(doc), ReportRule)
        /\ \A n \in Visited(Frame(doc), ReportRule) :
             frame[n] = IF Len(n) <= ReportRule.depth /\ Admitted(Frame(doc), ReportRule, n)
                        THEN Frame(doc)[n] ELSE "null"
    BY DEF Shown
  <1>6. \A n \in DOMAIN frame : n \in DOMAIN Frame(doc)
    BY <1>5 DEF Visited
  <1>7. \A s \in E : frame[s] = "null"
    BY <1>2, <1>5, <1>6
  <1>8. /\ IsDocument(c) /\ IsMapping(c)
        /\ \A n \in DOMAIN c :
             \/ Plainly(n) /\ n \in DOMAIN frame
             \/ \E s \in E : \E m \in DOMAIN inside(s) : n = s \o m
        /\ \A n \in DOMAIN frame : Plainly(n) => n \in DOMAIN c /\ c[n] = frame[n]
        /\ \A s \in E : \A m \in DOMAIN inside(s) : s \o m \in DOMAIN c /\ c[s \o m] = inside(s)[m]
    <2>1. IsMapping(c)
      BY DEF IsMapping, Checked, Graft
    <2> QED BY <2>1, CheckedIs
  <1>9. \A s : s \in E <=> s \in EvidenceIn(doc) /\ s \in DOMAIN frame
    OBVIOUS
  <1> HIDE DEF c, frame, inside, E
  <1>10. ASSUME NEW s \in EvidenceIn(doc)
         PROVE  /\ s \in Seq(Parts) /\ s # <<>> /\ Last(s) = "evidence" /\ Len(s) \in Nat /\ Len(s) >= 1
                /\ s[Len(s)] = "evidence" /\ \A i \in 1..(Len(s) - 1) : s[i] # "evidence"
                /\ ~Plainly(s)
    <2>1. /\ s \in Seq(Parts) /\ s # <<>> /\ Last(s) = "evidence" /\ Len(s) \in Nat /\ Len(s) >= 1
          /\ s[Len(s)] = "evidence" /\ \A i \in 1..(Len(s) - 1) : s[i] # "evidence"
      BY EvidenceInIs
    <2>2. Len(s) \in 1..Len(s)
      BY <2>1
    <2> QED BY <2>1, <2>2 DEF Plainly
  <1>11. ASSUME NEW s \in E, NEW m \in DOMAIN inside(s)
         PROVE  /\ m \in Seq(Parts) /\ s \o m \in Seq(Parts) /\ IsPrefix(s, s \o m)
                /\ SubSeq(s \o m, Len(s) + 1, Len(s \o m)) = m
                /\ (\A i \in 1..(Len(s \o m) - 1) : (s \o m)[i] # "evidence") => m = <<>>
    <2>1. m \in Seq(Parts) /\ Len(m) \in Nat
      BY <1>4, <1>9, LenProperties DEF Keeps, IsDocument
    <2> DEFINE n == s \o m
    <2>2. /\ s \in Seq(Parts) /\ Len(s) \in Nat /\ Len(s) >= 1 /\ s[Len(s)] = "evidence"
      BY <1>9, <1>10
    <2>3. /\ n \in Seq(Parts) /\ Len(n) = Len(s) + Len(m) /\ \A i \in 1..Len(s) : n[i] = s[i]
          /\ IsPrefix(s, n) /\ SubSeq(n, Len(s) + 1, Len(n)) = m
      BY <2>1, <2>2, Joined
    <2> HIDE DEF n
    <2>4. ASSUME m # <<>> PROVE \E i \in 1..(Len(n) - 1) : n[i] = "evidence"
      <3>1. Len(m) >= 1
        BY <2>1, <2>4, EmptySeq
      <3>2. Len(s) \in 1..(Len(n) - 1) /\ Len(s) \in 1..Len(s)
        BY <2>1, <2>2, <2>3, <3>1
      <3> QED BY <2>2, <2>3, <3>2
    <2> QED BY <2>1, <2>3, <2>4 DEF n
  <1>12. ASSUME NEW n \in DOMAIN c, ~Plainly(n)
         PROVE  \E s \in E : \E m \in DOMAIN inside(s) : n = s \o m
    BY <1>8, <1>12
  <1>13. EvidenceIn(c) = E
    <2>1. ASSUME NEW n \in EvidenceIn(c) PROVE n \in E
      <3>1. /\ n \in DOMAIN c /\ \A i \in 1..(Len(n) - 1) : n[i] # "evidence"
            /\ Len(n) \in Nat /\ Len(n) >= 1 /\ n[Len(n)] = "evidence"
        BY <1>8, EvidenceInIs
      <3>2. ~Plainly(n)
        <4>1. Len(n) \in 1..Len(n)
          BY <3>1
        <4> QED BY <3>1, <4>1 DEF Plainly
      <3>3. PICK s \in E : \E m \in DOMAIN inside(s) : n = s \o m
        BY <1>12, <3>1, <3>2
      <3>4. PICK m \in DOMAIN inside(s) : n = s \o m
        BY <3>3
      <3>5. m = <<>>
        BY <1>11, <3>1, <3>4
      <3>6. s \o <<>> = s
        BY <1>9, <1>10, ConcatEmptySeq
      <3> QED BY <3>4, <3>5, <3>6
    <2>2. ASSUME NEW s \in E PROVE s \in EvidenceIn(c)
      <3>1. s \o <<>> = s
        BY <1>9, <1>10, ConcatEmptySeq
      <3>2. s \in DOMAIN c
        BY <1>4, <1>8, <1>9, <3>1
      <3> QED BY <1>9, <1>10, <3>2 DEF EvidenceIn
    <2> QED BY <2>1, <2>2
  <1>14. Frame(c) = frame
    <2>1. /\ \A n \in DOMAIN Frame(c) : n \in DOMAIN c /\ (n \in EvidenceIn(c) \/ Plainly(n))
          /\ \A n \in DOMAIN c : Plainly(n) => n \in DOMAIN Frame(c) /\ Frame(c)[n] = c[n]
          /\ \A s \in EvidenceIn(c) : s \in DOMAIN Frame(c) /\ Frame(c)[s] = "null"
      BY <1>8, FrameIs
    <2>2. IsMapping(Frame(c))
      BY DEF IsMapping, Frame, Graft
    <2>3. ASSUME NEW n \in DOMAIN Frame(c) PROVE n \in DOMAIN frame
      <3>1. CASE n \in EvidenceIn(c)
        BY <1>9, <1>13, <3>1
      <3>2. CASE Plainly(n)
        <4>1. ASSUME NEW s \in E, NEW m \in DOMAIN inside(s) PROVE n # s \o m
          <5>1. /\ IsPrefix(s, s \o m) /\ s \o m \in Seq(Parts) /\ s \in Seq(Parts) /\ ~Plainly(s)
            BY <1>9, <1>10, <1>11
          <5> QED BY <3>2, <5>1, PlainPrefix
        <4> QED BY <1>8, <2>1, <4>1
      <3> QED BY <2>1, <3>1, <3>2
    <2>4. ASSUME NEW n \in DOMAIN frame PROVE n \in DOMAIN Frame(c) /\ Frame(c)[n] = frame[n]
      <3>1. CASE n \in EvidenceIn(doc)
        BY <1>7, <1>9, <1>13, <2>1, <3>1
      <3>2. CASE Plainly(n)
        BY <1>8, <2>1, <3>2
      <3> QED BY <1>2, <1>6, <3>1, <3>2
    <2>5. [n \in DOMAIN Frame(c) |-> Frame(c)[n]] = [n \in DOMAIN frame |-> frame[n]]
      <3>1. DOMAIN Frame(c) = DOMAIN frame
        BY <2>3, <2>4
      <3> QED BY <2>4, <3>1
    <2> QED BY <1>3, <2>2, <2>5 DEF IsMapping
  <1>15. ASSUME NEW s \in E PROVE At(c, s) = inside(s)
    <2>1. s \in Seq(Parts) /\ s \in EvidenceIn(doc) /\ IsMapping(inside(s))
      BY <1>4, <1>9
    <2>2. /\ \A m \in DOMAIN At(c, s) : s \o m \in DOMAIN c /\ At(c, s)[m] = c[s \o m]
          /\ \A m \in Seq(Parts) : s \o m \in DOMAIN c => m \in DOMAIN At(c, s)
          /\ DOMAIN At(c, s) \subseteq Seq(Parts)
      <3>1. IsDocument(At(c, s))
        BY <1>8, <2>1, AtIs
      <3> QED BY <1>8, <2>1, <3>1, AtIs DEF IsDocument
    <2>3. IsMapping(At(c, s))
      BY DEF IsMapping, At
    <2>4. ASSUME NEW m \in DOMAIN inside(s) PROVE m \in DOMAIN At(c, s) /\ At(c, s)[m] = inside(s)[m]
      BY <1>8, <1>11, <2>2
    <2>5. ASSUME NEW m \in DOMAIN At(c, s) PROVE m \in DOMAIN inside(s)
      <3>1. /\ m \in Seq(Parts) /\ s \o m \in DOMAIN c
        BY <2>2
      <3>2. IsPrefix(s, s \o m) /\ s \o m \in Seq(Parts) /\ SubSeq(s \o m, Len(s) + 1, Len(s \o m)) = m
        BY <2>1, <3>1, Joined
      <3>3. ~Plainly(s \o m)
        BY <1>10, <2>1, <3>2, PlainPrefix
      <3>4. PICK t \in E : \E k \in DOMAIN inside(t) : s \o m = t \o k
        BY <1>12, <3>1, <3>3
      <3>5. PICK k \in DOMAIN inside(t) : s \o m = t \o k
        BY <3>4
      <3>6. /\ IsPrefix(t, s \o m) /\ t \in Seq(Parts) /\ t \in EvidenceIn(doc)
            /\ SubSeq(s \o m, Len(t) + 1, Len(s \o m)) = k
        BY <1>4, <1>9, <1>11, <3>5
      <3>7. s = t
        <4>1. IsPrefix(s, t) \/ IsPrefix(t, s)
          BY <2>1, <3>2, <3>6, PrefixesComparable
        <4> QED BY <2>1, <3>6, <4>1, EvidenceApart
      <3> QED BY <3>2, <3>6, <3>7
    <2>6. [m \in DOMAIN At(c, s) |-> At(c, s)[m]] = [m \in DOMAIN inside(s) |-> inside(s)[m]]
      <3>1. DOMAIN At(c, s) = DOMAIN inside(s)
        BY <2>4, <2>5
      <3> QED BY <2>4, <3>1
    <2> QED BY <2>1, <2>3, <2>6 DEF IsMapping
  <1>16. Clear(c)
    BY <1>3, <1>4, <1>8, <1>9, <1>13, <1>14, <1>15 DEF Clear
  <1> QED BY <1>16 DEF c

-------------------------------------------------------------------------------
(* What the capture writes.                                                *)

(* There are finitely many keys.                                           *)
LEMMA KeysFinite ==
  IsFiniteSet(ReportKeys)
  <1> DEFINE k1 == {"schema", "sdkVersion", "profile", "sessionID", "buildContext",
                    "compilerVersion"}
             k2 == {"pointerBits", "sourceCommit", "processID", "osMajor", "osMinor", "osBuild"}
             k3 == {"osArchitecture", "osVersionUnavailableReason", "sourceDirty",
                    "hostSourceCommit", "sourceCommitUnavailableReason",
                    "environmentUnavailableReason"}
             k4 == {"captureStartUtc", "captureEndUtc", "events", "incidents", "loss",
                    "rawMessagesUnavailableReason"}
             k5 == {"bundleID", "eventID", "operationID", "sequence", "utc",
                    "monotonicMilliseconds"}
             k6 == {"component", "phase", "outcome", "objectHash", "objectHashUnavailableReason",
                    "ruleReferenceHashes"}
             k7 == {"primaryError", "secondaryErrors", "evidence", "evidenceUnavailableReason",
                    "incidentID", "triggerPhase"}
             k8 == {"affectedObjectHash", "expectedContract", "observedOutcome",
                    "timelineEventIDs", "causeStatus", "coverageGap"}
             k9 == {"kind", "nativeCode", "nativeCodeUnavailableReason",
                    "messageUnavailableReason", "causes", "dropped"}
             k10 == {"truncated", "redacted", "captureFailures", "exportFailures",
                     "exportFailuresUnavailableReason", "exportRedactions"}
  <1>1. /\ IsFiniteSet(k1) /\ IsFiniteSet(k2) /\ IsFiniteSet(k3) /\ IsFiniteSet(k4)
        /\ IsFiniteSet(k5) /\ IsFiniteSet(k6) /\ IsFiniteSet(k7) /\ IsFiniteSet(k8)
        /\ IsFiniteSet(k9) /\ IsFiniteSet(k10)
    BY FewFinite
  <1>2. ReportKeys \subseteq (k1 \cup k2 \cup k3 \cup k4 \cup k5) \cup (k6 \cup k7 \cup k8 \cup k9 \cup k10)
    BY DEF ReportKeys
  <1> HIDE DEF k1, k2, k3, k4, k5, k6, k7, k8, k9, k10
  <1>3. IsFiniteSet((k1 \cup k2 \cup k3 \cup k4 \cup k5) \cup (k6 \cup k7 \cup k8 \cup k9 \cup k10))
    BY <1>1, FS_Union
  <1> QED BY <1>2, <1>3, FS_Subset

(* Documents below a container make a document.                            *)
LEMMA UnderIs ==
  ASSUME NEW kind \in Containers, NEW parts, DOMAIN parts \subseteq Parts, IsFiniteSet(DOMAIN parts),
         \A k \in DOMAIN parts : IsDocument(parts[k])
  PROVE  IsDocument(Under(parts, kind))
  <1> DEFINE D == {<<>>} \cup UNION {{<<k>> \o n : n \in DOMAIN parts[k]} : k \in DOMAIN parts}
             value(n) == IF n = <<>> THEN kind ELSE parts[Head(n)][Tail(n)]
             u == Under(parts, kind)
  <1>1. u = [n \in D |-> value(n)]
    BY DEF Under
  <1>2. ASSUME NEW k \in DOMAIN parts, NEW n \in DOMAIN parts[k]
        PROVE  /\ <<k>> \o n \in D /\ <<k>> \o n \in Seq(Parts) /\ value(<<k>> \o n) = parts[k][n]
               /\ Front(<<k>> \o n) = IF n = <<>> THEN <<>> ELSE <<k>> \o Front(n)
    <2>1. k \in Parts /\ n \in Seq(Parts)
      BY DEF IsDocument
    <2>2. /\ <<k>> \o n \in Seq(Parts) /\ <<k>> \o n # <<>>
          /\ Head(<<k>> \o n) = k /\ Tail(<<k>> \o n) = n
          /\ Front(<<k>> \o n) = IF n = <<>> THEN <<>> ELSE <<k>> \o Front(n)
      BY <2>1, OneBelow
    <2>3. <<k>> \o n \in D
      OBVIOUS
    <2> DEFINE m == <<k>> \o n
    <2> HIDE DEF m, D
    <2>4. m # <<>> /\ Head(m) = k /\ Tail(m) = n
      BY <2>2 DEF m
    <2>5. value(m) = parts[k][n]
      BY <2>4
    <2> HIDE DEF value
    <2> QED BY <2>2, <2>3, <2>5 DEF m
  <1>3. <<>> \in D /\ value(<<>>) = kind /\ <<>> \in Seq(Parts)
    BY EmptySeq
  <1>4. \A m \in D : m = <<>> \/ \E k \in DOMAIN parts : \E n \in DOMAIN parts[k] : m = <<k>> \o n
    OBVIOUS
  <1>10. IsFiniteSet(D)
    <2> DEFINE below == [k \in DOMAIN parts |-> {<<k>> \o n : n \in DOMAIN parts[k]}]
               all == UNION {below[k] : k \in DOMAIN parts}
    <2>1. D = {<<>>} \cup all
      OBVIOUS
    <2>2. ASSUME NEW k \in DOMAIN parts PROVE IsFiniteSet(below[k])
      <3>1. IsFiniteSet({<<k>> \o n : n \in DOMAIN parts[k]})
        BY JoinedFinite DEF IsDocument
      <3> QED BY <3>1
    <2>3. DOMAIN below = DOMAIN parts
      OBVIOUS
    <2> HIDE DEF below, D
    <2>4. IsFiniteSet(all)
      BY <2>2, <2>3, UnionFinite
    <2> HIDE DEF all
    <2> QED BY <2>1, <2>4, FS_Singleton, FS_Union
  <1> HIDE DEF D, value
  <1>5. ASSUME NEW k \in DOMAIN parts, NEW n \in DOMAIN parts[k]
        PROVE  LET f == Front(<<k>> \o n) IN f \in D /\ value(f) \in Containers
    <2>1. CASE n = <<>>
      BY <1>2, <1>3, <2>1
    <2>2. CASE n # <<>>
      <3>1. Front(n) \in DOMAIN parts[k] /\ parts[k][Front(n)] \in Containers
        BY <2>2 DEF IsDocument, IsTree
      <3> QED BY <1>2, <2>2, <3>1
    <2> QED BY <2>1, <2>2
  <1>6. D \subseteq Seq(Parts)
    BY <1>2, <1>3, <1>4
  <1>7. \A m \in D \ {<<>>} : Front(m) \in D /\ value(Front(m)) \in Containers
    BY <1>4, <1>5
  <1> HIDE DEF u
  <1>8. DOMAIN u = D /\ \A m \in D : u[m] = value(m)
    BY <1>1
  <1>9. IsDocument(u)
    BY <1>6, <1>7, <1>8, <1>10 DEF IsDocument, IsTree
  <1> QED BY <1>9 DEF u

(* The members of an object, and the items of a list.                      *)
LEMMA FieldsIs ==
  ASSUME NEW record, DOMAIN record \subseteq ReportKeys, \A k \in DOMAIN record : IsDocument(record[k])
  PROVE  IsDocument(Fields(record))
  <1>1. DOMAIN record \subseteq Parts
    BY PartsAssumption DEF PartsAssumption
  <1>2. IsFiniteSet(DOMAIN record)
    BY KeysFinite, FS_Subset
  <1> QED BY <1>1, <1>2, UnderIs DEF Fields, Containers

LEMMA ElementsIs ==
  ASSUME NEW n \in Nat, n <= Len(Indices), NEW q, DOMAIN q = 1..n, \A i \in 1..n : IsDocument(q[i])
  PROVE  IsDocument(Elements(q))
  <1> DEFINE parts == [k \in {Indices[i] : i \in DOMAIN q} |-> q[Place(k)]]
  <1>1. /\ Indices \in Seq(Parts) /\ Len(Indices) \in Nat
        /\ \A i, j \in 1..Len(Indices) : Indices[i] = Indices[j] => i = j
    BY PartsAssumption, LenProperties DEF PartsAssumption
  <1>2. ASSUME NEW i \in 1..n PROVE Indices[i] \in Parts /\ Place(Indices[i]) = i
    <2>1. i \in 1..Len(Indices)
      BY <1>1
    <2>2. Indices[i] \in Parts
      BY <1>1, <2>1, ElementOfSeq
    <2>3. Place(Indices[i]) = i
      BY <1>1, <2>1 DEF Place
    <2> QED BY <2>2, <2>3
  <1>3. DOMAIN parts = {Indices[i] : i \in 1..n}
    OBVIOUS
  <1>4. \A k \in DOMAIN parts : k \in Parts /\ IsDocument(parts[k])
    <2> TAKE k \in DOMAIN parts
    <2>1. PICK i \in 1..n : k = Indices[i]
      OBVIOUS
    <2>2. parts[k] = q[i] /\ k \in Parts
      BY <1>2, <2>1
    <2> QED BY <2>2
  <1>6. IsFiniteSet(DOMAIN parts)
    <2> DEFINE f == [i \in 1..n |-> Indices[i]]
    <2>1. DOMAIN f = 1..n /\ DOMAIN parts = {f[i] : i \in 1..n}
      OBVIOUS
    <2>2. IsFiniteSet(1..n)
      BY FS_Interval
    <2> HIDE DEF f, parts
    <2> QED BY <2>1, <2>2, ImageFinite
  <1> HIDE DEF parts
  <1>5. IsDocument(Under(parts, "array"))
    BY <1>4, <1>6, UnderIs DEF Containers
  <1> QED BY <1>5 DEF Elements, parts

(* An error, cut off where the capture stops and completed.                *)
LEMMA SafeErrorIs ==
  ASSUME NEW error, IsError(error)
  PROVE  IsDocument(SafeError(error))
  <1> DEFINE reasons(n) ==
               [messageUnavailableReason |-> "reason",
                nativeCodeUnavailableReason |->
                  IF error[Append(n, "nativeCode")] = "null" THEN "reason" ELSE "null"]
             D == Reported(error) \cup UNION {{Append(n, k) : k \in DOMAIN reasons(n)} : n \in ErrorsIn(error)}
             value(m) == IF m \in DOMAIN error THEN error[m] ELSE reasons(Front(m))[Last(m)]
             safe == SafeError(error)
  <1>1. safe = [m \in D |-> value(m)]
    BY DEF SafeError
  <1>2. DOMAIN error \subseteq Seq(Parts) /\ IsTree(error)
    BY DEF IsError, IsDocument
  <1>3. ASSUME NEW m \in Reported(error)
        PROVE  m \in DOMAIN error /\ m \in Seq(Parts) /\ m \in D /\ value(m) = error[m]
    BY <1>2 DEF Reported
  <1>4. \A n : DOMAIN reasons(n) = {"messageUnavailableReason", "nativeCodeUnavailableReason"}
    OBVIOUS
  <1> HIDE DEF reasons
  <1>5. ASSUME NEW n \in ErrorsIn(error), NEW k \in DOMAIN reasons(n)
        PROVE  /\ Append(n, k) \in Seq(Parts) /\ Append(n, k) # <<>> /\ Front(Append(n, k)) = n
               /\ n \in Reported(error) /\ error[n] = "object"
    <2>1. n \in Reported(error) /\ Len(n) % 2 = 0
      BY DEF ErrorsIn
    <2>2. n \in Seq(Parts) /\ n \in DOMAIN error
      BY <1>3, <2>1
    <2>3. k \in Parts
      <3>1. k \in {"messageUnavailableReason", "nativeCodeUnavailableReason"}
        BY <1>4, Zenon
      <3> QED BY <3>1, PartsAssumption DEF PartsAssumption, ReportKeys
    <2>4. /\ Append(n, k) \in Seq(Parts) /\ Append(n, k) # <<>> /\ Len(Append(n, k)) = Len(n) + 1
          /\ \A i \in 1..Len(n) : Append(n, k)[i] = n[i]
      <3> HIDE DEF reasons, D, value, safe
      <3>1. \A S : \A q \in Seq(S), e \in S :
              /\ Append(q, e) \in Seq(S) /\ Append(q, e) # <<>> /\ Len(Append(q, e)) = Len(q) + 1
              /\ \A i \in 1..Len(q) : Append(q, e)[i] = q[i]
        BY AppendProperties
      <3> QED BY <2>2, <2>3, <3>1
    <2>5. Front(Append(n, k)) = n
      <3> DEFINE a == Append(n, k)
      <3> HIDE DEF a
      <3>1. /\ Front(a) \in Seq(Parts) /\ Len(Front(a)) = Len(a) - 1
            /\ \A i \in 1..(Len(a) - 1) : Front(a)[i] = a[i]
        BY <2>4, FrontIs DEF a
      <3>2. Len(a) = Len(n) + 1 /\ \A i \in 1..Len(n) : a[i] = n[i]
        BY <2>4 DEF a
      <3>3. Len(n) \in Nat /\ Len(Front(a)) = Len(n) /\ \A i \in 1..Len(n) : Front(a)[i] = n[i]
        BY <2>2, <3>1, <3>2, LenProperties
      <3>4. Front(a) = n
        BY <2>2, <3>1, <3>3, SeqEqual
      <3> QED BY <3>4 DEF a
    <2>6. error[n] = "object"
      BY <2>1, <2>2 DEF IsError
    <2> QED BY <2>1, <2>4, <2>5, <2>6
  <1>6. \A m \in D : \/ m \in Reported(error)
                     \/ \E n \in ErrorsIn(error) : \E k \in DOMAIN reasons(n) : m = Append(n, k)
    OBVIOUS
  <1>12. IsFiniteSet(D)
    <2> DEFINE more == [n \in ErrorsIn(error) |-> {Append(n, k) : k \in DOMAIN reasons(n)}]
               all == UNION {more[n] : n \in ErrorsIn(error)}
    <2>1. D = Reported(error) \cup all
      OBVIOUS
    <2>2. IsFiniteSet(Reported(error)) /\ IsFiniteSet(ErrorsIn(error))
      <3>1. Reported(error) \subseteq DOMAIN error /\ ErrorsIn(error) \subseteq DOMAIN error
        BY DEF Reported, ErrorsIn
      <3> QED BY <3>1, FS_Subset DEF IsError, IsDocument
    <2>3. ASSUME NEW n \in ErrorsIn(error) PROVE IsFiniteSet(more[n])
      <3> DEFINE a == Append(n, "messageUnavailableReason")
                 b == Append(n, "nativeCodeUnavailableReason")
      <3>1. more[n] \subseteq {a, a, a, a, a, b}
        BY <1>4
      <3> HIDE DEF a, b, more
      <3> QED BY <3>1, FewFinite, FS_Subset
    <2>4. DOMAIN more = ErrorsIn(error)
      OBVIOUS
    <2> HIDE DEF more, D
    <2>5. IsFiniteSet(all)
      BY <2>2, <2>3, <2>4, UnionFinite
    <2> HIDE DEF all
    <2>6. IsFiniteSet(Reported(error) \cup all)
      BY <2>2, <2>5, FS_Union
    <2> QED BY <2>1, <2>6
  <1> HIDE DEF D, value
  <1>7. ASSUME NEW m \in Reported(error), m # <<>>
        PROVE  Front(m) \in Reported(error) /\ error[Front(m)] \in Containers
    <2> DEFINE f == Front(m)
    <2>1. m \in DOMAIN error /\ m \in Seq(Parts)
      BY <1>3
    <2>2. f \in DOMAIN error /\ error[f] \in Containers
      BY <1>2, <1>7, <2>1 DEF IsTree
    <2>3. /\ Len(m) \in Nat /\ Len(m) >= 1 /\ Len(f) = Len(m) - 1
          /\ \A i \in 1..(Len(m) - 1) : f[i] = m[i]
      BY <1>7, <2>1, FrontIs
    <2> HIDE DEF f
    <2>4. Nesting(f) <= Nesting(m) /\ Nesting(f) \in Nat /\ Nesting(m) \in Nat
      BY <2>3 DEF Nesting
    <2>5. \A i \in 1..Nesting(f) : i \in 1..Nesting(m) /\ 2 * i \in 1..(Len(m) - 1)
      BY <2>3 DEF Nesting
    <2>6. /\ Nesting(m) <= ErrorDepth
          /\ \A i \in 1..Nesting(m) : Place(m[2 * i]) <= Widths.causes
      BY DEF Reported
    <2>7. Nesting(f) <= ErrorDepth
      BY <2>4, <2>6 DEF ErrorDepth
    <2>8. \A i \in 1..Nesting(f) : Place(f[2 * i]) <= Widths.causes
      BY <2>3, <2>5, <2>6
    <2>9. f \in Reported(error)
      BY <2>2, <2>7, <2>8 DEF Reported
    <2> QED BY <2>2, <2>9 DEF f
  <1>8. ASSUME NEW m \in D, m # <<>> PROVE Front(m) \in D /\ value(Front(m)) \in Containers
    <2>1. CASE m \in Reported(error)
      BY <1>3, <1>7, <1>8, <2>1
    <2>2. CASE \E n \in ErrorsIn(error) : \E k \in DOMAIN reasons(n) : m = Append(n, k)
      BY <1>3, <1>5, <2>2 DEF Containers
    <2> QED BY <1>6, <2>1, <2>2
  <1>9. D \subseteq Seq(Parts)
    BY <1>3, <1>5, <1>6
  <1> HIDE DEF safe
  <1>10. DOMAIN safe = D /\ \A m \in D : safe[m] = value(m)
    BY <1>1
  <1>11. IsDocument(safe)
    BY <1>8, <1>9, <1>10, <1>12 DEF IsDocument, IsTree
  <1> QED BY <1>11 DEF safe

(* The event behind the variables.                                         *)
RawOK ==
  /\ raw \in RawEvents /\ profile \in {"LEAN", "DEVELOPMENT"}

LEMMA FirstErrorsAre ==
  ASSUME RawOK
  PROVE  /\ Len(FirstErrors) \in Nat /\ Len(FirstErrors) <= Len(Indices) /\ Len(FirstErrors) <= Widths.causes
         /\ DOMAIN FirstErrors = 1..Len(FirstErrors)
         /\ \A i \in 1..Len(FirstErrors) : IsError(FirstErrors[i])
  <1> DEFINE s == raw.secondary
             k == Min({Len(s), Widths.causes})
  <1>1. s \in Seq(Range(s)) /\ \A e \in Range(s) : IsError(e)
    BY EventsAssumption DEF EventsAssumption, RawOK
  <1>2. /\ Widths.causes \in Nat /\ Len(Indices) >= Widths.causes /\ Len(Indices) \in Nat
    BY PartsAssumption, LenProperties DEF PartsAssumption
  <1>3. Len(s) \in Nat
    BY <1>1, LenProperties
  <1>4. k \in {Len(s), Widths.causes} /\ \A n \in {Len(s), Widths.causes} : k <= n
    BY <1>2, <1>3, MinHolds
  <1> HIDE DEF k
  <1>5. k \in Nat /\ k <= Len(s) /\ k <= Widths.causes /\ k <= Len(Indices) /\ k - 1 + 1 = k
    BY <1>2, <1>3, <1>4
  <1>6. \A i \in 1..k : s[i] \in Range(s) /\ 1 + i - 1 = i
    BY <1>1, <1>3, <1>5, ElementOfSeq
  <1> DEFINE q == SubSeq(s, 1, k)
  <1>7. /\ q \in Seq(Range(s)) /\ Len(q) = (IF 1 <= k THEN k - 1 + 1 ELSE 0)
        /\ \A i \in 1..(k - 1 + 1) : q[i] = s[1 + i - 1]
    BY <1>5, <1>6, SubSeqProperties
  <1>8. FirstErrors = q
    BY DEF FirstErrors, k
  <1> HIDE DEF q, s
  <1>9. Len(q) = k
    BY <1>5, <1>7
  <1>10. DOMAIN q = 1..k
    BY <1>7, <1>9, LenProperties
  <1> QED BY <1>1, <1>5, <1>6, <1>7, <1>8, <1>9, <1>10

LEMMA CapturedErrors ==
  ASSUME RawOK
  PROVE  IsDocument(PrimaryError) /\ IsDocument(SecondaryErrors)
  <1>1. IsDocument(PrimaryError)
    <2>1. IsError(raw.error)
      BY EventsAssumption DEF EventsAssumption, RawOK
    <2> QED BY <2>1, SafeErrorIs, LeafIs DEF PrimaryError
  <1>2. IsDocument(SecondaryErrors)
    <2> DEFINE n == Len(FirstErrors)
               q == [i \in DOMAIN FirstErrors |-> SafeError(FirstErrors[i])]
    <2>1. /\ n \in Nat /\ n <= Len(Indices) /\ DOMAIN FirstErrors = 1..n
          /\ \A i \in 1..n : IsError(FirstErrors[i])
      BY FirstErrorsAre
    <2>2. DOMAIN q = 1..n /\ \A i \in 1..n : IsDocument(q[i])
      BY <2>1, SafeErrorIs
    <2> HIDE DEF n, q
    <2>3. IsDocument(Elements(q))
      BY <2>1, <2>2, ElementsIs
    <2> QED BY <2>3 DEF SecondaryErrors, q
  <1> QED BY <1>1, <1>2

LEMMA CapturedEvidence ==
  ASSUME RawOK
  PROVE  IsDocument(Retained(raw.evidence))
  <1>1. IsDocument(raw.evidence)
    BY EventsAssumption DEF EventsAssumption, RawOK
  <1>2. IsDocument(Shown(raw.evidence, EvidenceRule))
    <2>1. EvidenceRule.depth \in Nat
      BY DEF EvidenceRule
    <2> QED BY <1>1, <2>1, ShownIs
  <1> QED BY <1>2, LeafIs DEF Retained

(* As many leaves as a list may have.                                      *)
LEMMA LeavesIs ==
  ASSUME NEW n \in Nat, n <= Len(Indices), NEW value
  PROVE  IsDocument(Elements([i \in 1..n |-> Leaf(value)]))
  <1> DEFINE q == [i \in 1..n |-> Leaf(value)]
  <1>1. DOMAIN q = 1..n /\ \A i \in 1..n : IsDocument(q[i])
    BY LeafIs
  <1> HIDE DEF q
  <1>2. IsDocument(Elements(q))
    BY <1>1, ElementsIs
  <1> QED BY <1>2 DEF q

LEMMA OneElement ==
  ASSUME NEW doc, IsDocument(doc)
  PROVE  IsDocument(Elements(<<doc>>)) /\ IsDocument(Elements(<<>>))
  <1>1. Len(Indices) >= 1 /\ Len(Indices) \in Nat
    BY PartsAssumption, LenProperties DEF PartsAssumption
  <1>2. DOMAIN <<doc>> = 1..1 /\ \A i \in 1..1 : IsDocument(<<doc>>[i])
    OBVIOUS
  <1>3. DOMAIN <<>> = 1..0 /\ \A i \in 1..0 : IsDocument(<<>>[i])
    OBVIOUS
  <1>4. \A q, n : n \in {0, 1} /\ DOMAIN q = 1..n /\ (\A i \in 1..n : IsDocument(q[i])) => IsDocument(Elements(q))
    <2> TAKE q, n
    <2> HAVE n \in {0, 1} /\ DOMAIN q = 1..n /\ (\A i \in 1..n : IsDocument(q[i]))
    <2>1. n \in Nat /\ n <= Len(Indices)
      BY <1>1
    <2> QED BY <2>1, ElementsIs
  <1>5. IsDocument(Elements(<<doc>>))
    BY <1>2, <1>4
  <1>6. IsDocument(Elements(<<>>))
    BY <1>3, <1>4
  <1> QED BY <1>5, <1>6

LEMMA FieldsOfEvent ==
  ASSUME RawOK, NEW bulky \in BOOLEAN
  PROVE  \A k \in DOMAIN EventFields(bulky) : IsDocument(EventFields(bulky)[k])
  <1> DEFINE f == EventFields(bulky)
  <1>2. \A v : IsDocument(Leaf(v))
    BY LeafIs
  <1>3. IsDocument(Elements([i \in 1..Min({raw.rules, Widths.items}) |-> Leaf("hash")]))
    <2> DEFINE n == Min({raw.rules, Widths.items})
    <2>1. raw.rules \in Nat /\ Widths.items \in Nat /\ Len(Indices) >= Widths.items /\ Len(Indices) \in Nat
      BY EventsAssumption, PartsAssumption, LenProperties DEF EventsAssumption, PartsAssumption, RawOK
    <2>2. n \in {raw.rules, Widths.items} /\ n <= Widths.items
      BY <2>1, MinHolds
    <2> HIDE DEF n
    <2>3. n \in Nat /\ n <= Len(Indices)
      BY <2>1, <2>2
    <2>4. IsDocument(Elements([i \in 1..n |-> Leaf("hash")]))
      BY <2>3, LeavesIs
    <2> QED BY <2>4 DEF n
  <1>4. IsDocument(PrimaryError) /\ IsDocument(SecondaryErrors) /\ IsDocument(Retained(raw.evidence))
    BY CapturedErrors, CapturedEvidence
  <1>5. \A k \in DOMAIN f : IsDocument(f[k])
    BY <1>2, <1>3, <1>4 DEF EventFields
  <1> QED BY <1>5

LEMMA EventIs ==
  ASSUME RawOK, NEW bulky \in BOOLEAN
  PROVE  IsDocument(Event(bulky))
  <1> DEFINE f == EventFields(bulky)
             keys == DOMAIN f \ (IF bulky THEN {} ELSE {"evidenceUnavailableReason"})
             r == Restrict(f, keys)
  <1>1. DOMAIN f \subseteq ReportKeys
    BY DEF EventFields, ReportKeys
  <1>5. \A k \in DOMAIN f : IsDocument(f[k])
    BY FieldsOfEvent
  <1> HIDE DEF f
  <1>6. DOMAIN r = keys /\ \A k \in keys : r[k] = f[k]
    BY DEF Restrict
  <1>7. keys \subseteq DOMAIN f
    OBVIOUS
  <1> HIDE DEF r, keys
  <1>8. DOMAIN r \subseteq ReportKeys /\ \A k \in DOMAIN r : IsDocument(r[k])
    BY <1>1, <1>5, <1>6, <1>7
  <1>9. IsDocument(Fields(r))
    BY <1>8, FieldsIs
  <1> QED BY <1>9 DEF Event, r, keys, f

LEMMA IncidentIs ==
  ASSUME RawOK
  PROVE  IsDocument(Incident)
  <1> DEFINE f == [incidentID |-> Leaf("hash"), triggerPhase |-> Leaf("phase"),
                   affectedObjectHash |-> Leaf(ObjectHash), expectedContract |-> Leaf("reason"),
                   observedOutcome |-> Leaf(raw.outcome), timelineEventIDs |-> Elements(<<Leaf("hash")>>),
                   primaryError |-> PrimaryError, secondaryErrors |-> SecondaryErrors,
                   causeStatus |-> Leaf("UNKNOWN"), coverageGap |-> Leaf("reason")]
  <1>1. DOMAIN f \subseteq ReportKeys
    BY DEF ReportKeys
  <1>2. \A v : IsDocument(Leaf(v))
    BY LeafIs
  <1>3. IsDocument(Elements(<<Leaf("hash")>>)) /\ IsDocument(PrimaryError) /\ IsDocument(SecondaryErrors)
    BY <1>2, OneElement, CapturedErrors
  <1>4. \A k \in DOMAIN f : IsDocument(f[k])
    BY <1>2, <1>3
  <1> HIDE DEF f
  <1>5. IsDocument(Fields(f))
    BY <1>1, <1>4, FieldsIs
  <1> QED BY <1>5 DEF Incident, f

LEMMA LossFieldsIs ==
  IsDocument(LossFields)
  <1> DEFINE f == [dropped |-> Leaf("count"), truncated |-> Leaf("count"), redacted |-> Leaf("count"),
                   captureFailures |-> Leaf("count"), exportFailures |-> Leaf("null"),
                   exportFailuresUnavailableReason |-> Leaf("reason")]
  <1>1. DOMAIN f \subseteq ReportKeys
    BY DEF ReportKeys
  <1>2. \A k \in DOMAIN f : IsDocument(f[k])
    BY LeafIs
  <1> HIDE DEF f
  <1>3. IsDocument(Fields(f))
    BY <1>1, <1>2, FieldsIs
  <1> QED BY <1>3 DEF LossFields, f

LEMMA BuildContextIs ==
  IsDocument(BuildContext)
  <1> DEFINE f == [compilerVersion |-> Leaf("int"), pointerBits |-> Leaf("count"), processID |-> Leaf("count"),
                   osVersionUnavailableReason |-> Leaf("null"), sourceCommit |-> Leaf("null"),
                   sourceCommitUnavailableReason |-> Leaf("reason"), sourceDirty |-> Leaf("null"),
                   osArchitecture |-> Leaf("count"), osMajor |-> Leaf("count"), osMinor |-> Leaf("count"),
                   osBuild |-> Leaf("count"), hostSourceCommit |-> Shown(Leaf(raw.commit), ReportRule)]
  <1>1. DOMAIN f \subseteq ReportKeys
    BY DEF ReportKeys
  <1>2. \A v : IsDocument(Leaf(v))
    BY LeafIs
  <1>3. IsDocument(Shown(Leaf(raw.commit), ReportRule))
    <2>1. ReportRule.depth \in Nat
      BY DEF ReportRule
    <2> QED BY <1>2, <2>1, ShownIs
  <1>4. \A k \in DOMAIN f : IsDocument(f[k])
    BY <1>2, <1>3
  <1> HIDE DEF f
  <1>5. IsDocument(Fields(f))
    BY <1>1, <1>4, FieldsIs
  <1> QED BY <1>5 DEF BuildContext, f

(* The snapshot's document.                                                *)
LEMMA DocumentIs ==
  ASSUME RawOK, NEW bulky \in BOOLEAN
  PROVE  IsDocument(Document(bulky))
  <1> DEFINE events == Elements(<<Event(bulky)>>)
             incidents == Elements(IF raw.outcome \in Incidental THEN <<Incident>> ELSE <<>>)
             schema == Leaf("aeostara.diagnostics/1")
             sdkVersion == Leaf("sdk version")
             f == [schema |-> schema, sdkVersion |-> sdkVersion,
                   profile |-> Leaf(profile), sessionID |-> Leaf("hash"), buildContext |-> BuildContext,
                   captureStartUtc |-> Leaf(raw.utc), captureEndUtc |-> Leaf(raw.utc),
                   events |-> events, incidents |-> incidents,
                   loss |-> LossFields, rawMessagesUnavailableReason |-> Leaf("reason"),
                   bundleID |-> Leaf("hash")]
  <1>1. DOMAIN f \subseteq ReportKeys
    BY DEF ReportKeys
  <1>2. \A v : IsDocument(Leaf(v))
    BY LeafIs
  <1>3. IsDocument(BuildContext) /\ IsDocument(LossFields) /\ IsDocument(events) /\ IsDocument(incidents)
    <2>1. IsDocument(Event(bulky)) /\ IsDocument(Incident)
      BY EventIs, IncidentIs
    <2> QED BY <2>1, BuildContextIs, LossFieldsIs, OneElement
  <1>4. IsDocument(schema) /\ IsDocument(sdkVersion)
    BY <1>2
  <1> HIDE DEF events, incidents, schema, sdkVersion
  <1>5. \A k \in DOMAIN f : IsDocument(f[k])
    BY <1>2, <1>3, <1>4
  <1> HIDE DEF f
  <1>6. IsDocument(Fields(f))
    BY <1>1, <1>5, FieldsIs
  <1> QED BY <1>6 DEF Document, f, events, incidents, schema, sdkVersion

(* What is counted, is counted in numbers.                                 *)
LEMMA CountsAre ==
  ASSUME NEW doc, IsFiniteSet(DOMAIN doc), NEW rule
  PROVE  Redactions(doc, rule) \in Nat /\ Truncations(doc, rule) \in Nat /\ ErrorCuts(doc) \in Nat
  <1>1. \A T : T \subseteq DOMAIN doc => Cardinality(T) \in Nat
    BY FS_Subset, FS_CardinalityType
  <1>2. Redactions(doc, rule) \in Nat
    <2> DEFINE seen == {n \in Visited(doc, rule) : Len(n) <= rule.depth}
               A == {n \in seen : ~Admitted(doc, rule, n)}
               B == {n \in UNION {Children(doc, m) : m \in seen} : Within(doc, rule, n) /\ ~Allowed(doc, rule, n)}
    <2>1. A \subseteq DOMAIN doc
      BY DEF Visited
    <2>2. B \subseteq DOMAIN doc
      BY DEF Children
    <2>3. Redactions(doc, rule) = Cardinality(A) + Cardinality(B)
      BY DEF Redactions
    <2> HIDE DEF A, B
    <2>4. Cardinality(A) \in Nat /\ Cardinality(B) \in Nat
      BY <1>1, <2>1, <2>2
    <2> QED BY <2>3, <2>4
  <1>3. Truncations(doc, rule) \in Nat
    <2> DEFINE A == {n \in Visited(doc, rule) : \/ Len(n) > rule.depth
                                                \/ \E m \in Children(doc, n) : ~Within(doc, rule, m)}
    <2>1. A \subseteq DOMAIN doc
      BY DEF Visited
    <2>2. Truncations(doc, rule) = Cardinality(A)
      BY DEF Truncations
    <2> HIDE DEF A
    <2> QED BY <1>1, <2>1, <2>2
  <1>4. ErrorCuts(doc) \in Nat
    <2> DEFINE A == {n \in ErrorsIn(doc) :
                       LET causes == Cardinality(Children(doc, Append(n, "causes")))
                       IN  (Nesting(n) = ErrorDepth /\ causes > 0) \/ causes > Widths.causes}
    <2>1. A \subseteq DOMAIN doc
      BY DEF ErrorsIn, Reported
    <2>2. ErrorCuts(doc) = Cardinality(A)
      BY DEF ErrorCuts
    <2> HIDE DEF A
    <2> QED BY <1>1, <2>1, <2>2
  <1> QED BY <1>2, <1>3, <1>4

LEMMA CutsAdd ==
  ASSUME NEW n \in Nat, NEW q, Len(q) = n, DOMAIN q = 1..n, \A i \in 1..n : ErrorCuts(q[i]) \in Nat
  PROVE  /\ FoldLeft(LAMBDA m, e : m + ErrorCuts(e), 0, q) \in Nat
         /\ FoldLeft(LAMBDA m, e : m + ErrorCuts(e), 0, q) = 0 => \A i \in 1..n : ErrorCuts(q[i]) = 0
  <1> DEFINE F == [p \in Nat \X (1..n) |-> p[1] + ErrorCuts(q[p[2]])]
             Rule(h) == [t \in SUBSET (1..n) |->
                           IF t = {} THEN 0 ELSE h[t \ {Max(t)}] + ErrorCuts(q[Max(t)])]
             iter == CHOOSE h : h = Rule(h)
  <1>1. F \in [Nat \X (1..n) -> Nat]
    <2>1. \A p \in Nat \X (1..n) : p[1] + ErrorCuts(q[p[2]]) \in Nat
      OBVIOUS
    <2> QED BY <2>1
  <1>2. FoldLeft(LAMBDA m, e : m + ErrorCuts(e), 0, q) = iter[1..n]
    BY DEF FoldLeft, MapThenFoldSet
  <1>3. PICK g \in [SUBSET (1..n) -> Nat] : IsFold(g, 0, n, F)
    <2> HIDE DEF F
    <2> QED BY <1>1, FoldExists
  <1>4. g = Rule(g)
    <2>1. ASSUME NEW t \in SUBSET (1..n), t # {}
          PROVE  g[t] = g[t \ {Max(t)}] + ErrorCuts(q[Max(t)])
      <3>1. Max(t) \in 1..n /\ g[t \ {Max(t)}] \in Nat
        BY <2>1, MaxInside
      <3> QED BY <1>3, <2>1, <3>1 DEF IsFold
    <2> HIDE DEF F
    <2> QED BY <1>3, <2>1 DEF IsFold
  <1>5. iter = Rule(iter)
    <2> HIDE DEF Rule
    <2> QED BY <1>4
  <1>6. iter[{}] = 0 /\ \A m \in 1..n : iter[1..m] = iter[1..(m - 1)] + ErrorCuts(q[m])
    <2> HIDE DEF iter
    <2>1. {} \in SUBSET (1..n) /\ \A m \in 1..n : 1..m \in SUBSET (1..n)
      OBVIOUS
    <2>2. \A t \in SUBSET (1..n) :
            iter[t] = IF t = {} THEN 0 ELSE iter[t \ {Max(t)}] + ErrorCuts(q[Max(t)])
      BY <1>5, Zenon
    <2>3. \A m \in 1..n : m \in Nat \ {0}
      OBVIOUS
    <2> QED BY <2>1, <2>2, <2>3, IntervalStep
  <1>7. \A m \in 0..n : iter[1..m] \in Nat
    <2>1. FoldsBy(iter, Nat, 0, n, F)
      <3> HIDE DEF iter
      <3> QED BY <1>6 DEF FoldsBy
    <2> HIDE DEF F, iter
    <2> QED BY <1>1, <2>1, FoldStays
  <1>8. n \in 0..n
    OBVIOUS
  <1> HIDE DEF iter
  <1>9. ASSUME iter[1..n] = 0, NEW i \in 1..n PROVE ErrorCuts(q[i]) = 0
    <2> DEFINE T == {d \in Nat : d <= n => iter[1..(n - d)] = 0}
    <2>1. 0 \in T
      BY <1>9
    <2>2. ASSUME NEW d \in Nat, d \in T PROVE d + 1 \in T
      <3> SUFFICES ASSUME d + 1 <= n PROVE iter[1..(n - (d + 1))] = 0
        OBVIOUS
      <3>1. n - d \in 1..n /\ (n - d) - 1 = n - (d + 1) /\ n - (d + 1) \in 0..n /\ d <= n
        OBVIOUS
      <3>2. iter[1..(n - d)] = iter[1..(n - (d + 1))] + ErrorCuts(q[n - d])
        BY <1>6, <3>1
      <3> QED BY <1>7, <2>2, <3>1, <3>2
    <2>3. Nat \subseteq T
      <3> HIDE DEF T
      <3> QED BY <2>1, <2>2, SetInduction
    <2>4. n - i \in Nat /\ n - i <= n /\ n - (n - i) = i /\ i - 1 \in 0..n
      OBVIOUS
    <2>5. iter[1..i] = 0
      BY <2>3, <2>4
    <2>6. iter[1..i] = iter[1..(i - 1)] + ErrorCuts(q[i])
      BY <1>6
    <2>7. iter[1..(i - 1)] \in Nat /\ ErrorCuts(q[i]) \in Nat
      BY <1>7, <2>4
    <2> QED BY <2>5, <2>6, <2>7
  <1> QED BY <1>2, <1>7, <1>8, <1>9

(* What it means that nothing is counted.                                  *)
NothingLost(bulky) ==
  /\ ~bulky
  /\ RetentionLoss(raw.evidence).redacted = 0 /\ RetentionLoss(raw.evidence).truncated = 0
  /\ raw.rules <= Widths.items /\ Len(raw.secondary) <= Widths.causes
  /\ \A i \in 1..Len(FirstErrors) : ErrorCuts(FirstErrors[i]) = 0
  /\ raw.failed => ErrorCuts(raw.error) = 0

LEMMA LossIs ==
  ASSUME RawOK, NEW bulky \in BOOLEAN
  PROVE  /\ Loss(bulky).redacted \in Nat /\ Loss(bulky).truncated \in Nat
         /\ Loss(bulky) = [redacted |-> 0, truncated |-> 0] => NothingLost(bulky)
  <1> DEFINE cut == RetentionLoss(raw.evidence)
             secondary == FoldLeft(LAMBDA n, e : n + ErrorCuts(e), 0, FirstErrors)
             one(P) == IF P THEN 1 ELSE 0
             last == IF raw.failed THEN ErrorCuts(raw.error) ELSE 0
             a == one(raw.rules > Widths.items)
             b == one(Len(raw.secondary) > Widths.causes)
             c == one(bulky)
  <1>1. cut.redacted \in Nat /\ cut.truncated \in Nat
    <2>1. IsFiniteSet(DOMAIN raw.evidence)
      BY EventsAssumption DEF EventsAssumption, RawOK, IsDocument
    <2>2. /\ Redactions(raw.evidence, EvidenceRule) \in Nat
          /\ Truncations(raw.evidence, EvidenceRule) \in Nat
      BY <2>1, CountsAre
    <2> QED BY <2>2 DEF RetentionLoss
  <1>2. secondary \in Nat /\ (secondary = 0 => \A i \in 1..Len(FirstErrors) : ErrorCuts(FirstErrors[i]) = 0)
    <2> DEFINE n == Len(FirstErrors)
    <2>1. n \in Nat /\ DOMAIN FirstErrors = 1..n /\ \A i \in 1..n : IsError(FirstErrors[i])
      BY FirstErrorsAre
    <2>2. \A i \in 1..n : ErrorCuts(FirstErrors[i]) \in Nat
      BY <2>1, CountsAre DEF IsError, IsDocument
    <2> QED BY <2>1, <2>2, CutsAdd
  <1>3. last \in Nat
    BY EventsAssumption, CountsAre DEF EventsAssumption, RawOK, IsError, IsDocument
  <1>4. Loss(bulky) = [redacted |-> cut.redacted, truncated |-> cut.truncated + a + secondary + b + last + c]
    BY DEF Loss
  <1>5. a \in Nat /\ b \in Nat /\ c \in Nat
    OBVIOUS
  <1>6. Loss(bulky).redacted \in Nat /\ Loss(bulky).truncated \in Nat
    <2> HIDE DEF cut, secondary, last, a, b, c
    <2>1. cut.truncated + a + secondary + b + last + c \in Nat
      BY <1>1, <1>2, <1>3, <1>5
    <2> QED BY <1>1, <1>4, <2>1
  <1>7. ASSUME Loss(bulky) = [redacted |-> 0, truncated |-> 0] PROVE NothingLost(bulky)
    <2>1. cut.redacted = 0 /\ cut.truncated = 0 /\ a = 0 /\ b = 0 /\ c = 0 /\ last = 0 /\ secondary = 0
      <3> HIDE DEF cut, secondary, last, a, b, c
      <3>1. cut.redacted = 0 /\ cut.truncated + a + secondary + b + last + c = 0
        BY <1>4, <1>7
      <3> QED BY <1>1, <1>2, <1>3, <1>5, <3>1
    <2> HIDE DEF secondary
    <2>2. ~bulky /\ ~(raw.rules > Widths.items) /\ ~(Len(raw.secondary) > Widths.causes)
      <3>1. ASSUME NEW P \in BOOLEAN, one(P) = 0 PROVE ~P
        BY <3>1
      <3>2. a = 0 /\ b = 0 /\ c = 0
        BY <2>1, Zenon
      <3>3. (raw.rules > Widths.items) \in BOOLEAN /\ (Len(raw.secondary) > Widths.causes) \in BOOLEAN
        OBVIOUS
      <3> HIDE DEF one
      <3> QED BY <3>1, <3>2, <3>3, Zenon
    <2>3. raw.failed => ErrorCuts(raw.error) = 0
      <3> SUFFICES ASSUME raw.failed PROVE ErrorCuts(raw.error) = 0
        OBVIOUS
      <3>1. last = ErrorCuts(raw.error)
        BY Zenon
      <3> HIDE DEF last
      <3> QED BY <2>1, <3>1
    <2>4. raw.rules \in Nat /\ Widths.items \in Nat /\ Len(raw.secondary) \in Nat /\ Widths.causes \in Nat
      BY EventsAssumption, PartsAssumption, LenProperties DEF EventsAssumption, PartsAssumption, RawOK
    <2> HIDE DEF last, a, b, c
    <2> QED BY <1>2, <2>1, <2>2, <2>3, <2>4 DEF NothingLost
  <1> QED BY <1>6, <1>7

-------------------------------------------------------------------------------
(* What the code writes is clear already.                                  *)

(* A document that a report says as it is, d deep outside its evidence.    *)
Reads(doc, d) ==
  /\ IsDocument(doc) /\ IsMapping(doc)
  /\ \A n \in DOMAIN doc : Plainly(n) =>
       /\ Len(n) <= d /\ doc[n] \in Containers \cup ReportRule.leaves
       /\ n # <<>> => doc[Front(n)] = "array" \/ Last(n) \in ReportKeys
  /\ \A s \in EvidenceIn(doc) : Len(s) <= d /\ Keeps(At(doc, s), EvidenceRule)

LEMMA ReadsIsClear ==
  ASSUME NEW doc, NEW d \in Nat, d <= 16, Reads(doc, d)
  PROVE  Clear(doc)
  <1> DEFINE frame == Frame(doc)
  <1>1. /\ IsDocument(doc) /\ IsMapping(doc)
        /\ \A n \in DOMAIN doc : Plainly(n) =>
             /\ Len(n) <= d /\ doc[n] \in Containers \cup ReportRule.leaves
             /\ n # <<>> => doc[Front(n)] = "array" \/ Last(n) \in ReportKeys
        /\ \A s \in EvidenceIn(doc) : Len(s) <= d /\ Keeps(At(doc, s), EvidenceRule)
    BY DEF Reads
  <1>2. /\ IsDocument(frame)
        /\ \A n \in DOMAIN frame : n \in DOMAIN doc /\ (n \in EvidenceIn(doc) \/ Plainly(n))
        /\ \A n \in DOMAIN doc : Plainly(n) => n \in DOMAIN frame /\ frame[n] = doc[n]
        /\ \A s \in EvidenceIn(doc) : s \in DOMAIN frame /\ frame[s] = "null"
    BY <1>1, FrameIs
  <1> HIDE DEF frame
  <1>3. /\ ReportRule.depth = 16 /\ ReportRule.keys = ReportKeys /\ "null" \in ReportRule.leaves
        /\ ReportRule.items = Unlimited /\ ReportRule.members = Unlimited
        /\ "evidence" \in ReportKeys
    BY DEF ReportRule, ReportKeys
  <1>4. \A n : Within(frame, ReportRule, n)
    BY <1>3 DEF Within
  <1>5. ASSUME NEW n \in DOMAIN frame
        PROVE  Len(n) \in Nat /\ Len(n) <= 16 /\ Admitted(frame, ReportRule, n)
    <2>1. n \in DOMAIN doc /\ Len(n) \in Nat
      BY <1>1, <1>2, LenProperties DEF IsDocument
    <2>2. CASE n \in EvidenceIn(doc)
      BY <1>1, <1>2, <1>3, <2>1, <2>2 DEF Admitted
    <2>3. CASE Plainly(n)
      BY <1>1, <1>2, <2>1, <2>3 DEF Admitted
    <2> QED BY <1>2, <2>2, <2>3
  <1>6. ASSUME NEW n \in DOMAIN frame, n # <<>> PROVE Allowed(frame, ReportRule, n)
    <2>1. n \in DOMAIN doc /\ n \in Seq(Parts)
      BY <1>1, <1>2 DEF IsDocument
    <2>2. CASE n \in EvidenceIn(doc)
      BY <1>1, <1>3, <2>2, EvidenceInIs DEF Allowed
    <2>3. CASE Plainly(n)
      <3>1. Front(n) \in DOMAIN doc /\ Front(n) \in Seq(Parts) /\ IsPrefix(Front(n), n)
        BY <1>1, <1>6, <2>1, FrontIs DEF IsDocument, IsTree
      <3>2. Plainly(Front(n))
        BY <2>1, <2>3, <3>1, PlainPrefix
      <3>3. frame[Front(n)] = doc[Front(n)]
        BY <1>2, <3>1, <3>2
      <3> QED BY <1>1, <1>3, <1>6, <2>1, <2>3, <3>3 DEF Allowed
    <2> QED BY <1>2, <2>2, <2>3
  <1>7. Keeps(frame, ReportRule)
    <2>1. ASSUME NEW n \in DOMAIN frame
          PROVE  Len(n) <= 16 + 1 /\ (Len(n) = 16 + 1 => frame[n] = "null")
      <3>1. Len(n) \in Nat /\ Len(n) <= 16
        BY <1>5
      <3>2. \A l \in Nat : l <= 16 => l <= 16 + 1 /\ l # 16 + 1
        OBVIOUS
      <3> QED BY <3>1, <3>2, Zenon
    <2> QED BY <1>2, <1>3, <1>4, <1>5, <1>6, <2>1 DEF Keeps
  <1> QED BY <1>1, <1>7 DEF Clear, frame

LEMMA LeafReads ==
  ASSUME NEW value, value \in Containers \cup ReportRule.leaves, NEW d \in Nat
  PROVE  Reads(Leaf(value), d)
  <1>1. IsDocument(Leaf(value)) /\ DOMAIN Leaf(value) = {<<>>} /\ Leaf(value)[<<>>] = value
    BY LeafIs
  <1>2. IsMapping(Leaf(value))
    BY DEF IsMapping, Leaf
  <1>3. EvidenceIn(Leaf(value)) = {}
    BY <1>1 DEF EvidenceIn
  <1>4. Len(<<>>) = 0
    BY EmptySeq
  <1> QED BY <1>1, <1>2, <1>3, <1>4 DEF Reads

(* Putting documents under keys or indices.                                *)
Composed(u, kind, parts) ==
  /\ IsMapping(u)
  /\ <<>> \in DOMAIN u /\ u[<<>>] = kind
  /\ \A k \in DOMAIN parts : \A m \in DOMAIN parts[k] :
       <<k>> \o m \in DOMAIN u /\ u[<<k>> \o m] = parts[k][m]
  /\ \A n \in DOMAIN u :
       n = <<>> \/ \E k \in DOMAIN parts : \E m \in DOMAIN parts[k] : n = <<k>> \o m

LEMMA UnderHas ==
  ASSUME NEW kind, NEW parts, DOMAIN parts \subseteq Parts, \A k \in DOMAIN parts : IsDocument(parts[k])
  PROVE  Composed(Under(parts, kind), kind, parts)
  <1> DEFINE D == {<<>>} \cup UNION {{<<k>> \o n : n \in DOMAIN parts[k]} : k \in DOMAIN parts}
             value(n) == IF n = <<>> THEN kind ELSE parts[Head(n)][Tail(n)]
             u == Under(parts, kind)
  <1>1. u = [n \in D |-> value(n)]
    BY DEF Under
  <1>2. ASSUME NEW k \in DOMAIN parts, NEW m \in DOMAIN parts[k]
        PROVE  <<k>> \o m \in D /\ value(<<k>> \o m) = parts[k][m]
    <2>1. <<k>> \o m # <<>> /\ Head(<<k>> \o m) = k /\ Tail(<<k>> \o m) = m
      <3>1. k \in Parts /\ m \in Seq(Parts)
        BY DEF IsDocument
      <3> QED BY <3>1, OneBelow
    <2>2. <<k>> \o m \in D
      OBVIOUS
    <2> DEFINE n == <<k>> \o m
    <2> HIDE DEF n, D
    <2>3. n # <<>> /\ Head(n) = k /\ Tail(n) = m
      BY <2>1 DEF n
    <2>4. value(n) = parts[k][m]
      BY <2>3
    <2> HIDE DEF value
    <2> QED BY <2>2, <2>4 DEF n
  <1>3. <<>> \in D /\ value(<<>>) = kind
    OBVIOUS
  <1>4. \A n \in D : n = <<>> \/ \E k \in DOMAIN parts : \E m \in DOMAIN parts[k] : n = <<k>> \o m
    OBVIOUS
  <1>5. IsMapping(u)
    BY <1>1 DEF IsMapping
  <1> HIDE DEF D, value, u
  <1>6. DOMAIN u = D /\ \A n \in D : u[n] = value(n)
    BY <1>1
  <1>7. \A k \in DOMAIN parts : \A m \in DOMAIN parts[k] :
          <<k>> \o m \in DOMAIN u /\ u[<<k>> \o m] = parts[k][m]
    BY <1>2, <1>6
  <1>8. Composed(u, kind, parts)
    BY <1>3, <1>4, <1>5, <1>6, <1>7 DEF Composed
  <1> QED BY <1>8 DEF u

(* Looking further down.                                                   *)
LEMMA AtUnder ==
  ASSUME NEW kind \in Containers, NEW parts, DOMAIN parts \subseteq Parts, IsFiniteSet(DOMAIN parts),
         \A k \in DOMAIN parts : IsDocument(parts[k]), NEW k \in DOMAIN parts, NEW s \in Seq(Parts)
  PROVE  At(Under(parts, kind), <<k>> \o s) = At(parts[k], s)
  <1> DEFINE u == Under(parts, kind)
             a == At(u, <<k>> \o s)
             b == At(parts[k], s)
  <1>1. IsDocument(u) /\ IsDocument(parts[k]) /\ k \in Parts /\ <<k>> \o s \in Seq(Parts)
    BY UnderIs, OneBelow
  <1>2. /\ IsDocument(a)
        /\ \A m \in DOMAIN a : (<<k>> \o s) \o m \in DOMAIN u /\ a[m] = u[(<<k>> \o s) \o m]
        /\ \A m \in Seq(Parts) : (<<k>> \o s) \o m \in DOMAIN u => m \in DOMAIN a
    BY <1>1, AtIs
  <1>3. /\ IsDocument(b)
        /\ \A m \in DOMAIN b : s \o m \in DOMAIN parts[k] /\ b[m] = parts[k][s \o m]
        /\ \A m \in Seq(Parts) : s \o m \in DOMAIN parts[k] => m \in DOMAIN b
    BY <1>1, AtIs
  <1>4. IsMapping(a) /\ IsMapping(b)
    BY DEF IsMapping, At
  <1>5. /\ \A m \in DOMAIN parts[k] : <<k>> \o m \in DOMAIN u /\ u[<<k>> \o m] = parts[k][m]
        /\ \A n \in DOMAIN u :
             n = <<>> \/ \E j \in DOMAIN parts : \E m \in DOMAIN parts[j] : n = <<j>> \o m
    <2>1. Composed(u, kind, parts)
      BY UnderHas
    <2> HIDE DEF u
    <2> QED BY <2>1 DEF Composed
  <1> HIDE DEF u, a, b
  <1>6. ASSUME NEW m \in Seq(Parts)
        PROVE  (<<k>> \o s) \o m = <<k>> \o (s \o m) /\ s \o m \in Seq(Parts)
    <2>1. <<k>> \in Seq(Parts)
      BY <1>1
    <2> QED BY <1>1, <2>1, ConcatAssociative, ConcatProperties
  <1>7. ASSUME NEW m \in Seq(Parts), <<k>> \o m \in DOMAIN u PROVE m \in DOMAIN parts[k]
    <2>1. <<k>> \o m # <<>> /\ Head(<<k>> \o m) = k /\ Tail(<<k>> \o m) = m
      BY <1>1, OneBelow
    <2>2. PICK j \in DOMAIN parts : \E i \in DOMAIN parts[j] : <<k>> \o m = <<j>> \o i
      BY <1>5, <1>7, <2>1
    <2>3. PICK i \in DOMAIN parts[j] : <<k>> \o m = <<j>> \o i
      BY <2>2
    <2>4. j \in Parts /\ i \in Seq(Parts)
      BY DEF IsDocument
    <2>5. Head(<<j>> \o i) = j /\ Tail(<<j>> \o i) = i
      BY <2>4, OneBelow
    <2>6. j = k /\ i = m
      BY <2>1, <2>3, <2>5
    <2> QED BY <2>6
  <1>8. DOMAIN a \subseteq Seq(Parts) /\ DOMAIN b \subseteq Seq(Parts)
    BY <1>2, <1>3 DEF IsDocument
  <1>9. ASSUME NEW m \in DOMAIN a PROVE m \in DOMAIN b
    <2>1. m \in Seq(Parts) /\ <<k>> \o (s \o m) \in DOMAIN u
      BY <1>2, <1>6, <1>8
    <2> QED BY <1>3, <1>6, <1>7, <2>1
  <1>10. ASSUME NEW m \in DOMAIN b PROVE m \in DOMAIN a /\ a[m] = b[m]
    <2>1. m \in Seq(Parts) /\ s \o m \in DOMAIN parts[k] /\ b[m] = parts[k][s \o m]
      BY <1>3, <1>8
    <2>2. (<<k>> \o s) \o m \in DOMAIN u /\ u[(<<k>> \o s) \o m] = parts[k][s \o m]
      BY <1>5, <1>6, <2>1
    <2> QED BY <1>2, <2>1, <2>2
  <1>11. a = b
    <2>1. DOMAIN a = DOMAIN b
      BY <1>9, <1>10
    <2>2. [m \in DOMAIN a |-> a[m]] = [m \in DOMAIN b |-> b[m]]
      BY <1>10, <2>1
    <2> QED BY <1>4, <2>2 DEF IsMapping
  <1> QED BY <1>11 DEF a, b, u

LEMMA AtRoot ==
  ASSUME NEW doc, IsDocument(doc), IsMapping(doc)
  PROVE  At(doc, <<>>) = doc
  <1> DEFINE a == At(doc, <<>>)
  <1>1. /\ DOMAIN a \subseteq Seq(Parts) /\ DOMAIN doc \subseteq Seq(Parts)
        /\ \A m \in DOMAIN a : <<>> \o m \in DOMAIN doc /\ a[m] = doc[<<>> \o m]
        /\ \A m \in Seq(Parts) : <<>> \o m \in DOMAIN doc => m \in DOMAIN a
    BY EmptySeq, AtIs DEF IsDocument
  <1>2. \A m \in Seq(Parts) : <<>> \o m = m
    BY ConcatEmptySeq
  <1>3. IsMapping(a)
    BY DEF IsMapping, At
  <1> HIDE DEF a
  <1>4. DOMAIN a = DOMAIN doc /\ \A m \in DOMAIN a : a[m] = doc[m]
    BY <1>1, <1>2
  <1>5. [m \in DOMAIN a |-> a[m]] = [m \in DOMAIN doc |-> doc[m]]
    BY <1>4
  <1> QED BY <1>3, <1>5 DEF IsMapping, a

LEMMA UnderReads ==
  ASSUME NEW kind \in Containers, NEW parts, DOMAIN parts \subseteq Parts, IsFiniteSet(DOMAIN parts),
         kind = "object" => DOMAIN parts \subseteq ReportKeys, NEW d \in Nat,
         \A k \in DOMAIN parts :
           IF k = "evidence" THEN Keeps(parts[k], EvidenceRule) /\ IsMapping(parts[k])
                             ELSE Reads(parts[k], d)
  PROVE  Reads(Under(parts, kind), d + 1)
  <1> DEFINE u == Under(parts, kind)
  <1>1. ASSUME NEW k \in DOMAIN parts
        PROVE  /\ k \in Parts /\ IsDocument(parts[k]) /\ IsMapping(parts[k])
               /\ k = "evidence" => Keeps(parts[k], EvidenceRule)
               /\ k # "evidence" => Reads(parts[k], d)
    BY DEF Reads, Keeps
  <1>2. IsDocument(u)
    BY <1>1, UnderIs
  <1>3. /\ IsMapping(u) /\ <<>> \in DOMAIN u /\ u[<<>>] = kind
        /\ \A k \in DOMAIN parts : \A m \in DOMAIN parts[k] :
             <<k>> \o m \in DOMAIN u /\ u[<<k>> \o m] = parts[k][m]
        /\ \A n \in DOMAIN u :
             n = <<>> \/ \E k \in DOMAIN parts : \E m \in DOMAIN parts[k] : n = <<k>> \o m
    <2>1. Composed(u, kind, parts)
      BY <1>1, UnderHas
    <2> HIDE DEF u
    <2> QED BY <2>1 DEF Composed
  <1>4. ASSUME NEW k \in DOMAIN parts, NEW s \in Seq(Parts) PROVE At(u, <<k>> \o s) = At(parts[k], s)
    BY <1>1, AtUnder
  <1> HIDE DEF u
  <1>5. ASSUME NEW k \in DOMAIN parts, NEW m \in DOMAIN parts[k]
        PROVE  LET n == <<k>> \o m
               IN  /\ n \in Seq(Parts) /\ m \in Seq(Parts) /\ n # <<>>
                   /\ Len(n) = Len(m) + 1 /\ Len(m) \in Nat /\ n[1] = k
                   /\ \A i \in 1..Len(m) : n[i + 1] = m[i]
                   /\ Front(n) = IF m = <<>> THEN <<>> ELSE <<k>> \o Front(m)
                   /\ Last(n) = IF m = <<>> THEN k ELSE Last(m)
    <2> DEFINE n == <<k>> \o m
    <2>1. k \in Parts /\ m \in Seq(Parts) /\ Len(m) \in Nat /\ <<k>> \in Seq(Parts)
      BY <1>1, LenProperties DEF IsDocument
    <2>2. n \in Seq(Parts) /\ n # <<>> /\ Front(n) = IF m = <<>> THEN <<>> ELSE <<k>> \o Front(m)
      BY <2>1, OneBelow
    <2>3. /\ Len(n) = Len(<<k>>) + Len(m)
          /\ \A i \in 1..Len(<<k>>) : n[i] = <<k>>[i]
          /\ \A i \in 1..Len(m) : n[Len(<<k>>) + i] = m[i]
      BY <2>1, Joined
    <2>4. Len(<<k>>) = 1 /\ <<k>>[1] = k
      OBVIOUS
    <2> HIDE DEF n
    <2>5. Len(n) = Len(m) + 1 /\ n[1] = k /\ \A i \in 1..Len(m) : n[i + 1] = m[i]
      BY <2>1, <2>3, <2>4
    <2>6. Last(n) = n[Len(n)]
      BY <2>2, FrontIs
    <2>7. CASE m = <<>>
      BY <2>1, <2>2, <2>5, <2>6, <2>7, EmptySeq DEF n
    <2>8. CASE m # <<>>
      <3>1. Last(m) = m[Len(m)] /\ Len(m) >= 1
        BY <2>1, <2>8, FrontIs
      <3>2. n[Len(n)] = m[Len(m)]
        BY <2>1, <2>5, <3>1
      <3> QED BY <2>1, <2>2, <2>5, <2>6, <2>8, <3>1, <3>2 DEF n
    <2> QED BY <2>7, <2>8
  <1>6. ASSUME NEW n \in DOMAIN u, Plainly(n)
        PROVE  /\ Len(n) <= d + 1 /\ u[n] \in Containers \cup ReportRule.leaves
               /\ n # <<>> => u[Front(n)] = "array" \/ Last(n) \in ReportKeys
    <2>1. CASE n = <<>>
      BY <1>3, <2>1, EmptySeq
    <2>2. ASSUME NEW k \in DOMAIN parts, NEW m \in DOMAIN parts[k], n = <<k>> \o m
          PROVE  /\ Len(n) <= d + 1 /\ u[n] \in Containers \cup ReportRule.leaves
                 /\ n # <<>> => u[Front(n)] = "array" \/ Last(n) \in ReportKeys
      <3>1. /\ n \in Seq(Parts) /\ m \in Seq(Parts) /\ n # <<>>
            /\ Len(n) = Len(m) + 1 /\ Len(m) \in Nat /\ n[1] = k
            /\ \A i \in 1..Len(m) : n[i + 1] = m[i]
            /\ Front(n) = IF m = <<>> THEN <<>> ELSE <<k>> \o Front(m)
            /\ Last(n) = IF m = <<>> THEN k ELSE Last(m)
        BY <1>5, <2>2
      <3>2. k # "evidence" /\ Plainly(m)
        <4>1. 1 \in 1..Len(n) /\ \A i \in 1..Len(m) : i + 1 \in 1..Len(n)
          BY <3>1
        <4> QED BY <1>6, <3>1, <4>1 DEF Plainly
      <3>3. /\ Len(m) <= d /\ parts[k][m] \in Containers \cup ReportRule.leaves
            /\ m # <<>> => parts[k][Front(m)] = "array" \/ Last(m) \in ReportKeys
        BY <1>1, <3>2 DEF Reads
      <3>4. u[n] = parts[k][m] /\ Len(n) <= d + 1
        BY <1>3, <2>2, <3>1, <3>3
      <3>5. CASE m = <<>>
        <4>1. kind = "array" \/ k \in ReportKeys
          BY DEF Containers
        <4> QED BY <1>3, <3>1, <3>3, <3>4, <3>5, <4>1
      <3>6. CASE m # <<>>
        <4>1. Front(m) \in DOMAIN parts[k]
          BY <1>1, <3>6 DEF IsDocument, IsTree
        <4>2. u[<<k>> \o Front(m)] = parts[k][Front(m)]
          BY <1>3, <4>1
        <4> QED BY <3>1, <3>3, <3>4, <3>6, <4>2
      <3> QED BY <3>5, <3>6
    <2> QED BY <1>3, <2>1, <2>2
  <1>7. ASSUME NEW s \in EvidenceIn(u) PROVE Len(s) <= d + 1 /\ Keeps(At(u, s), EvidenceRule)
    <2>1. /\ s \in DOMAIN u /\ s \in Seq(Parts) /\ s # <<>> /\ Last(s) = "evidence"
          /\ Len(s) \in Nat /\ \A i \in 1..(Len(s) - 1) : s[i] # "evidence"
      BY <1>2, EvidenceInIs
    <2>2. PICK k \in DOMAIN parts : \E m \in DOMAIN parts[k] : s = <<k>> \o m
      BY <1>3, <2>1
    <2>3. PICK m \in DOMAIN parts[k] : s = <<k>> \o m
      BY <2>2
    <2>4. /\ m \in Seq(Parts)
          /\ Len(s) = Len(m) + 1 /\ Len(m) \in Nat /\ s[1] = k
          /\ \A i \in 1..Len(m) : s[i + 1] = m[i]
          /\ Last(s) = IF m = <<>> THEN k ELSE Last(m)
      BY <1>5, <2>3
    <2>5. At(u, s) = At(parts[k], m)
      BY <1>4, <2>3, <2>4
    <2>6. CASE m = <<>>
      <3>1. k = "evidence" /\ Len(m) = 0
        BY <2>1, <2>4, <2>6, EmptySeq
      <3>2. At(parts[k], m) = parts[k]
        BY <1>1, <2>6, AtRoot
      <3> QED BY <1>1, <2>4, <2>5, <3>1, <3>2
    <2>7. CASE m # <<>>
      <3>1. Len(m) >= 1
        BY <2>4, <2>7, EmptySeq
      <3>2. k # "evidence" /\ \A i \in 1..(Len(m) - 1) : m[i] # "evidence"
        <4>1. 1 \in 1..(Len(s) - 1) /\ \A i \in 1..(Len(m) - 1) : i \in 1..Len(m) /\ i + 1 \in 1..(Len(s) - 1)
          BY <2>4, <3>1
        <4> QED BY <2>1, <2>4, <4>1
      <3>3. m \in EvidenceIn(parts[k])
        BY <2>1, <2>4, <2>7, <3>2 DEF EvidenceIn
      <3>4. Len(m) <= d /\ Keeps(At(parts[k], m), EvidenceRule)
        BY <1>1, <3>2, <3>3 DEF Reads
      <3> QED BY <2>4, <2>5, <3>4
    <2> QED BY <2>6, <2>7
  <1>8. Reads(u, d + 1)
    BY <1>2, <1>3, <1>6, <1>7 DEF Reads
  <1> QED BY <1>8 DEF u

LEMMA FieldsRead ==
  ASSUME NEW record, DOMAIN record \subseteq ReportKeys, NEW d \in Nat,
         \A k \in DOMAIN record :
           IF k = "evidence" THEN Keeps(record[k], EvidenceRule) /\ IsMapping(record[k])
                             ELSE Reads(record[k], d)
  PROVE  Reads(Fields(record), d + 1)
  <1>1. DOMAIN record \subseteq Parts
    BY PartsAssumption DEF PartsAssumption
  <1>2. IsFiniteSet(DOMAIN record)
    BY KeysFinite, FS_Subset
  <1> QED BY <1>1, <1>2, UnderReads DEF Fields, Containers

(* A list has its items under the indices, in order.                       *)
ItemsOf(q) == [k \in {Indices[i] : i \in DOMAIN q} |-> q[Place(k)]]

LEMMA ItemsAre ==
  ASSUME NEW n \in Nat, n <= Len(Indices), NEW q, DOMAIN q = 1..n
  PROVE  /\ Elements(q) = Under(ItemsOf(q), "array")
         /\ DOMAIN ItemsOf(q) \subseteq Parts /\ IsFiniteSet(DOMAIN ItemsOf(q))
         /\ DOMAIN ItemsOf(q) \cap ReportKeys = {}
         /\ \A i \in 1..n : Indices[i] \in DOMAIN ItemsOf(q) /\ ItemsOf(q)[Indices[i]] = q[i]
         /\ \A k \in DOMAIN ItemsOf(q) : \E i \in 1..n : k = Indices[i]
  <1> DEFINE parts == ItemsOf(q)
  <1>1. /\ Indices \in Seq(Parts) /\ Len(Indices) \in Nat /\ DOMAIN Indices = 1..Len(Indices)
        /\ \A i, j \in 1..Len(Indices) : Indices[i] = Indices[j] => i = j
        /\ \A i \in DOMAIN Indices : Indices[i] \notin ReportKeys
    BY PartsAssumption, LenProperties DEF PartsAssumption, Range
  <1>2. ASSUME NEW i \in 1..n
        PROVE  Indices[i] \in Parts /\ Place(Indices[i]) = i /\ Indices[i] \notin ReportKeys
    <2>1. i \in 1..Len(Indices)
      BY <1>1
    <2>2. Indices[i] \in Parts
      BY <1>1, <2>1, ElementOfSeq
    <2>3. Place(Indices[i]) = i
      BY <1>1, <2>1 DEF Place
    <2> QED BY <1>1, <2>1, <2>2, <2>3
  <1>3. DOMAIN parts = {Indices[i] : i \in 1..n} /\ \A k \in DOMAIN parts : parts[k] = q[Place(k)]
    BY DEF ItemsOf
  <1>4. IsFiniteSet(DOMAIN parts)
    <2> DEFINE f == [i \in 1..n |-> Indices[i]]
    <2>1. DOMAIN f = 1..n /\ DOMAIN parts = {f[i] : i \in 1..n}
      BY <1>3
    <2>2. IsFiniteSet(1..n)
      BY FS_Interval
    <2> HIDE DEF f, parts
    <2> QED BY <2>1, <2>2, ImageFinite
  <1>5. Elements(q) = Under(parts, "array")
    BY DEF Elements, ItemsOf
  <1> HIDE DEF parts
  <1>6. \A i \in 1..n : Indices[i] \in DOMAIN parts /\ parts[Indices[i]] = q[i]
    BY <1>2, <1>3
  <1>7. \A k \in DOMAIN parts : (\E i \in 1..n : k = Indices[i]) /\ k \in Parts /\ k \notin ReportKeys
    BY <1>2, <1>3
  <1> QED BY <1>4, <1>5, <1>6, <1>7 DEF parts

LEMMA ElementsRead ==
  ASSUME NEW n \in Nat, n <= Len(Indices), NEW q, DOMAIN q = 1..n, NEW d \in Nat,
         \A i \in 1..n : Reads(q[i], d)
  PROVE  Reads(Elements(q), d + 1)
  <1> DEFINE parts == ItemsOf(q)
  <1>1. /\ Elements(q) = Under(parts, "array")
        /\ DOMAIN parts \subseteq Parts /\ IsFiniteSet(DOMAIN parts) /\ DOMAIN parts \cap ReportKeys = {}
        /\ \A i \in 1..n : parts[Indices[i]] = q[i]
        /\ \A k \in DOMAIN parts : \E i \in 1..n : k = Indices[i]
    BY ItemsAre
  <1>2. "evidence" \in ReportKeys
    BY DEF ReportKeys
  <1> HIDE DEF parts
  <1>3. ASSUME NEW k \in DOMAIN parts PROVE k # "evidence" /\ Reads(parts[k], d)
    BY <1>1, <1>2, <1>3
  <1>4. Reads(Under(parts, "array"), d + 1)
    <2>1. "array" \in Containers /\ "array" # "object"
      BY DEF Containers
    <2> QED BY <1>1, <1>3, <2>1, UnderReads
  <1> QED BY <1>1, <1>4

(* What is where in an error.                                              *)
LEMMA ErrorNode ==
  ASSUME NEW error, IsError(error), NEW n \in DOMAIN error
  PROVE  /\ n \in Seq(Parts) /\ Len(n) \in Nat
         /\ Len(n) % 2 = 0 =>
              /\ error[n] = "object"
              /\ n # <<>> =>
                   /\ Last(n) \in Range(Indices)
                   /\ \A i \in 1..Place(Last(n)) : Append(Front(n), Indices[i]) \in DOMAIN error
         /\ Len(n) % 2 # 0 =>
              /\ Last(n) \in {"kind", "nativeCode", "causes"}
              /\ error[n] \in {"array"} \cup ReportRule.leaves
              /\ error[n] \in Containers => error[n] = "array" /\ Last(n) = "causes"
  <1> DEFINE kind == "error kind"
  <1>1. kind \in ReportRule.leaves /\ {"null", "int"} \subseteq ReportRule.leaves
    BY DEF ReportRule, Literals
  <1>2. kind \notin Containers /\ "null" \notin Containers /\ "int" \notin Containers
    BY DEF Containers
  <1>3. n \in Seq(Parts) /\ Len(n) \in Nat
    BY LenProperties DEF IsError, IsDocument
  <1>4. Len(n) % 2 = 0 =>
          /\ error[n] = "object"
          /\ n # <<>> =>
               /\ Last(n) \in Range(Indices)
               /\ \A i \in 1..Place(Last(n)) : Append(Front(n), Indices[i]) \in DOMAIN error
    BY Zenon DEF IsError
  <1>5. Len(n) % 2 # 0 => \/ Last(n) = "kind" /\ error[n] = kind
                          \/ Last(n) = "nativeCode" /\ error[n] \in {"null", "int"}
                          \/ Last(n) = "causes" /\ error[n] = "array"
    BY Zenon DEF IsError
  <1> HIDE DEF kind
  <1> QED BY <1>1, <1>2, <1>3, <1>4, <1>5

LEMMA ErrorPlain ==
  ASSUME NEW error, IsError(error), NEW n \in DOMAIN error
  PROVE  Plainly(n)
  <1> SUFFICES ASSUME NEW i \in 1..Len(n) PROVE n[i] # "evidence"
    BY DEF Plainly
  <1> DEFINE w == SubSeq(n, 1, i)
  <1>1. n \in Seq(Parts) /\ Len(n) \in Nat /\ IsDocument(error)
    BY ErrorNode DEF IsError
  <1>2. w \in Seq(Parts) /\ Len(w) = i /\ w # <<>> /\ i \in Nat /\ i >= 1 /\ i <= Len(n)
    BY <1>1, WayIs
  <1>3. i \in 0..Len(n)
    BY <1>1, <1>2
  <1>4. w \in DOMAIN error
    BY <1>1, <1>3, WayInside
  <1>5. Last(w) = n[i]
    BY <1>1, WayIs
  <1> HIDE DEF w
  <1>6. Last(w) \in Range(Indices) \/ Last(w) \in {"kind", "nativeCode", "causes"}
    BY <1>2, <1>4, ErrorNode
  <1>7. "evidence" \notin Range(Indices)
    <2>1. "evidence" \in ReportKeys
      BY DEF ReportKeys
    <2> QED BY <2>1, PartsAssumption DEF PartsAssumption
  <1> QED BY <1>5, <1>6, <1>7

(* What an error is reported with: the part of it that is reported, and    *)
(* two more members of each error in it.                                   *)
LEMMA SafeErrorHas ==
  ASSUME NEW error, IsError(error), NEW m \in DOMAIN SafeError(error)
  PROVE  LET safe == SafeError(error)
         IN  \/ m \in Reported(error) /\ m \in DOMAIN error /\ safe[m] = error[m]
             \/ /\ m \notin DOMAIN error
                /\ Last(m) \in {"messageUnavailableReason", "nativeCodeUnavailableReason"}
                /\ safe[m] \in {"reason", "null"}
                /\ m # <<>> /\ Front(m) \in ErrorsIn(error) /\ Front(m) \in DOMAIN error
                /\ Len(m) = Len(Front(m)) + 1
  <1> DEFINE reasons(n) ==
               [messageUnavailableReason |-> "reason",
                nativeCodeUnavailableReason |->
                  IF error[Append(n, "nativeCode")] = "null" THEN "reason" ELSE "null"]
             D == Reported(error) \cup UNION {{Append(n, k) : k \in DOMAIN reasons(n)} : n \in ErrorsIn(error)}
             value(n) == IF n \in DOMAIN error THEN error[n] ELSE reasons(Front(n))[Last(n)]
             safe == SafeError(error)
             Names == {"messageUnavailableReason", "nativeCodeUnavailableReason"}
  <1>1. safe = [n \in D |-> value(n)]
    BY DEF SafeError
  <1>2. \A n : /\ DOMAIN reasons(n) = Names
               /\ \A k \in Names : reasons(n)[k] \in {"reason", "null"}
    OBVIOUS
  <1> HIDE DEF reasons
  <1>3. \A n \in D : \/ n \in Reported(error)
                     \/ \E o \in ErrorsIn(error) : \E k \in DOMAIN reasons(o) : n = Append(o, k)
    OBVIOUS
  <1> HIDE DEF D, Names
  <1>4. m \in D /\ safe[m] = value(m)
    BY <1>1
  <1> HIDE DEF safe
  <1>5. CASE m \in Reported(error)
    BY <1>4, <1>5 DEF Reported, safe
  <1>6. ASSUME NEW o \in ErrorsIn(error), NEW k \in DOMAIN reasons(o), m = Append(o, k)
        PROVE  /\ m \notin DOMAIN error
               /\ Last(m) \in Names /\ safe[m] \in {"reason", "null"}
               /\ m # <<>> /\ Front(m) = o /\ o \in DOMAIN error
               /\ Len(m) = Len(o) + 1
    <2>1. o \in DOMAIN error /\ o \in Seq(Parts) /\ Len(o) \in Nat /\ Len(o) % 2 = 0
      <3>1. o \in DOMAIN error /\ Len(o) % 2 = 0
        BY DEF ErrorsIn, Reported
      <3> QED BY <3>1, ErrorNode
    <2>2. k \in Names /\ k \in Parts
      <3>1. k \in Names
        BY <1>2, Zenon
      <3> QED BY <3>1, PartsAssumption DEF PartsAssumption, ReportKeys, Names
    <2>3. m # <<>> /\ Front(m) = o /\ Last(m) = k /\ Len(m) = Len(o) + 1
      <3> HIDE DEF reasons, value
      <3> QED BY <1>6, <2>1, <2>2, AppendIs
    <2>4. m \notin DOMAIN error
      <3>1. Len(m) % 2 # 0
        BY <2>1, <2>3
      <3>2. Last(m) \notin {"kind", "nativeCode", "causes"}
        BY <2>2, <2>3 DEF Names
      <3> QED BY <3>1, <3>2, ErrorNode
    <2>5. safe[m] \in {"reason", "null"}
      <3>1. safe[m] = reasons(o)[k]
        BY <1>4, <2>3, <2>4
      <3> QED BY <1>2, <2>2, <3>1
    <2> QED BY <2>1, <2>2, <2>3, <2>4, <2>5
  <1>7. CASE m \notin Reported(error)
    <2>1. PICK o \in ErrorsIn(error) : \E k \in DOMAIN reasons(o) : m = Append(o, k)
      BY <1>3, <1>4, <1>7
    <2>2. PICK k \in DOMAIN reasons(o) : m = Append(o, k)
      BY <2>1
    <2> QED BY <1>6, <2>2 DEF safe, Names
  <1> QED BY <1>5, <1>7

LEMMA SafeErrorReads ==
  ASSUME NEW error, IsError(error)
  PROVE  Reads(SafeError(error), 9)
  <1> DEFINE safe == SafeError(error)
  <1>1. IsDocument(safe) /\ IsDocument(error)
    BY SafeErrorIs DEF IsError
  <1>2. IsMapping(safe)
    BY DEF IsMapping, SafeError
  <1>3. ASSUME NEW m \in Reported(error)
        PROVE  Len(m) \in Nat /\ Len(m) <= 9 /\ m \in DOMAIN error
    <2>1. m \in DOMAIN error /\ Nesting(m) <= 4
      BY DEF Reported, ErrorDepth
    <2>2. Len(m) \in Nat
      BY <2>1, ErrorNode
    <2> QED BY <2>1, <2>2 DEF Nesting
  <1>4. ASSUME NEW m \in DOMAIN safe
        PROVE  \/ m \in Reported(error) /\ m \in DOMAIN error /\ safe[m] = error[m]
               \/ /\ m \notin DOMAIN error
                  /\ Last(m) \in {"messageUnavailableReason", "nativeCodeUnavailableReason"}
                  /\ safe[m] \in {"reason", "null"}
                  /\ m # <<>> /\ Front(m) \in ErrorsIn(error) /\ Front(m) \in DOMAIN error
                  /\ Len(m) = Len(Front(m)) + 1
    BY SafeErrorHas
  <1> HIDE DEF safe
  <1>5. /\ {"kind", "nativeCode", "causes", "messageUnavailableReason", "nativeCodeUnavailableReason"}
             \subseteq ReportKeys
        /\ {"reason", "null"} \subseteq ReportRule.leaves
        /\ {"object", "array"} = Containers
    <2>1. {"kind", "nativeCode", "causes", "messageUnavailableReason", "nativeCodeUnavailableReason"}
             \subseteq ReportKeys
      BY DEF ReportKeys
    <2>2. {"reason", "null"} \subseteq ReportRule.leaves
      BY DEF ReportRule, Literals
    <2> QED BY <2>1, <2>2 DEF Containers
  <1>6. ASSUME NEW m \in DOMAIN safe
        PROVE  Plainly(m) /\ Len(m) <= 9 /\ safe[m] \in Containers \cup ReportRule.leaves
    <2>1. CASE m \in Reported(error) /\ m \in DOMAIN error /\ safe[m] = error[m]
      <3>1. safe[m] \in Containers \cup ReportRule.leaves
        BY <1>5, <2>1, ErrorNode
      <3> QED BY <1>3, <2>1, <3>1, ErrorPlain
    <2>2. CASE /\ m \notin DOMAIN error
               /\ Last(m) \in {"messageUnavailableReason", "nativeCodeUnavailableReason"}
               /\ safe[m] \in {"reason", "null"}
               /\ m # <<>> /\ Front(m) \in ErrorsIn(error) /\ Front(m) \in DOMAIN error
               /\ Len(m) = Len(Front(m)) + 1
      <3> DEFINE f == Front(m)
      <3>1. Plainly(f) /\ f \in DOMAIN error
        BY <2>2, ErrorPlain
      <3>2. Len(f) \in Nat /\ Len(f) <= 9 /\ Len(f) % 2 = 0
        BY <1>3, <2>2 DEF ErrorsIn
      <3>3. Len(m) <= 9
        BY <2>2, <3>2
      <3>4. m \in Seq(Parts)
        BY <1>1 DEF IsDocument
      <3>5. /\ \A i \in 1..(Len(m) - 1) : f[i] = m[i]
            /\ Last(m) = m[Len(m)] /\ Len(m) \in Nat
        BY <2>2, <3>4, FrontIs
      <3> HIDE DEF f
      <3>6. ASSUME NEW i \in 1..Len(m) PROVE m[i] # "evidence"
        <4>1. CASE i = Len(m)
          BY <2>2, <3>5, <4>1
        <4>2. CASE i # Len(m)
          <5>1. i \in 1..(Len(m) - 1) /\ i \in 1..Len(f)
            BY <2>2, <3>2, <3>5, <4>2 DEF f
          <5> QED BY <3>1, <3>5, <5>1 DEF Plainly
        <4> QED BY <4>1, <4>2
      <3> QED BY <1>5, <2>2, <3>3, <3>6 DEF Plainly
    <2> QED BY <1>4, <2>1, <2>2
  <1>7. ASSUME NEW m \in DOMAIN safe, m # <<>>
        PROVE  safe[Front(m)] = "array" \/ Last(m) \in ReportKeys
    <2>1. CASE m \in DOMAIN error /\ Len(m) % 2 = 0
      <3>1. /\ Front(m) \in DOMAIN error /\ error[Front(m)] \in Containers
            /\ Front(m) \in DOMAIN safe /\ m \in Seq(Parts)
        BY <1>1, <1>7, <2>1 DEF IsDocument, IsTree
      <3>2. Len(Front(m)) = Len(m) - 1 /\ Len(m) \in Nat /\ Len(m) >= 1
        BY <1>7, <3>1, FrontIs
      <3>3. Len(Front(m)) % 2 # 0
        BY <2>1, <3>2
      <3>4. error[Front(m)] = "array"
        BY <3>1, <3>3, ErrorNode
      <3>5. safe[Front(m)] = error[Front(m)]
        BY <1>4, <3>1
      <3> QED BY <3>4, <3>5
    <2>2. CASE m \in DOMAIN error /\ Len(m) % 2 # 0
      BY <1>5, <2>2, ErrorNode
    <2>3. CASE m \notin DOMAIN error
      BY <1>4, <1>5, <2>3
    <2> QED BY <2>1, <2>2, <2>3
  <1>8. EvidenceIn(safe) = {}
    <2> SUFFICES ASSUME NEW s \in EvidenceIn(safe) PROVE FALSE
      OBVIOUS
    <2>1. s \in DOMAIN safe /\ Len(s) \in Nat /\ Len(s) >= 1 /\ s[Len(s)] = "evidence"
      BY <1>1, EvidenceInIs
    <2>2. Plainly(s) /\ Len(s) \in 1..Len(s)
      BY <1>6, <2>1
    <2> QED BY <2>1, <2>2 DEF Plainly
  <1>9. Reads(safe, 9)
    BY <1>1, <1>2, <1>6, <1>7, <1>8 DEF Reads
  <1> QED BY <1>9 DEF safe

LEMMA ReadsMore ==
  ASSUME NEW doc, NEW d \in Nat, NEW e \in Nat, d <= e, Reads(doc, d)
  PROVE  Reads(doc, e)
  <1>1. /\ IsDocument(doc) /\ IsMapping(doc)
        /\ \A n \in DOMAIN doc : Plainly(n) =>
             /\ Len(n) <= d /\ doc[n] \in Containers \cup ReportRule.leaves
             /\ n # <<>> => doc[Front(n)] = "array" \/ Last(n) \in ReportKeys
        /\ \A s \in EvidenceIn(doc) : Len(s) <= d /\ Keeps(At(doc, s), EvidenceRule)
    BY DEF Reads
  <1>2. ASSUME NEW n \in DOMAIN doc, Len(n) <= d PROVE Len(n) <= e
    <2>1. Len(n) \in Nat
      BY <1>1, LenProperties DEF IsDocument
    <2> QED BY <1>2, <2>1
  <1>3. EvidenceIn(doc) \subseteq DOMAIN doc
    BY DEF EvidenceIn
  <1> QED BY <1>1, <1>2, <1>3 DEF Reads

(* The parts of an event.                                                  *)
LEMMA ErrorsRead ==
  ASSUME RawOK
  PROVE  Reads(PrimaryError, 10) /\ Reads(SecondaryErrors, 10)
  <1>1. ASSUME NEW e, IsError(e) PROVE Reads(SafeError(e), 9)
    BY <1>1, SafeErrorReads
  <1>2. Reads(PrimaryError, 10)
    <2>1. IsError(raw.error)
      BY EventsAssumption DEF EventsAssumption, RawOK
    <2>2. Reads(SafeError(raw.error), 10)
      BY <1>1, <2>1, ReadsMore
    <2>3. Reads(Leaf("null"), 10)
      <3>1. "null" \in Containers \cup ReportRule.leaves
        BY DEF ReportRule
      <3> QED BY <3>1, LeafReads
    <2> QED BY <2>2, <2>3 DEF PrimaryError
  <1>3. Reads(SecondaryErrors, 10)
    <2> DEFINE n == Len(FirstErrors)
               q == [i \in DOMAIN FirstErrors |-> SafeError(FirstErrors[i])]
    <2>1. /\ n \in Nat /\ n <= Len(Indices) /\ DOMAIN FirstErrors = 1..n
          /\ \A i \in 1..n : IsError(FirstErrors[i])
      BY FirstErrorsAre
    <2>2. DOMAIN q = 1..n /\ \A i \in 1..n : Reads(q[i], 9)
      BY <1>1, <2>1
    <2> HIDE DEF n, q
    <2>3. Reads(Elements(q), 9 + 1)
      BY <2>1, <2>2, ElementsRead
    <2> QED BY <2>3 DEF SecondaryErrors, q
  <1> QED BY <1>2, <1>3

LEMMA ObjectKeeps ==
  Keeps(Leaf("object"), EvidenceRule) /\ IsMapping(Leaf("object"))
  <1>1. IsDocument(Leaf("object")) /\ DOMAIN Leaf("object") = {<<>>} /\ Leaf("object")[<<>>] = "object"
    BY LeafIs
  <1>2. IsMapping(Leaf("object"))
    BY DEF IsMapping, Leaf
  <1>3. Len(<<>>) = 0 /\ EvidenceRule.depth = 4
    BY EmptySeq DEF EvidenceRule
  <1>4. Admitted(Leaf("object"), EvidenceRule, <<>>)
    BY <1>1 DEF Admitted, Containers
  <1> QED BY <1>1, <1>2, <1>3, <1>4 DEF Keeps

LEMMA RetainedKeeps ==
  ASSUME RawOK
  PROVE  Keeps(Retained(raw.evidence), EvidenceRule) /\ IsMapping(Retained(raw.evidence))
  <1>1. /\ EvidenceRule.depth = 4 /\ "null" \in EvidenceRule.leaves
        /\ EvidenceRule.items \in Nat /\ EvidenceRule.members \in Nat
    BY PartsAssumption DEF PartsAssumption, EvidenceRule
  <1>2. IsDocument(raw.evidence)
    BY EventsAssumption DEF EventsAssumption, RawOK
  <1>3. Keeps(Shown(raw.evidence, EvidenceRule), EvidenceRule) /\ IsMapping(Shown(raw.evidence, EvidenceRule))
    BY <1>1, <1>2, ShownKeeps
  <1>4. Keeps(Leaf("object"), EvidenceRule) /\ IsMapping(Leaf("object"))
    BY ObjectKeeps
  <1> QED BY <1>3, <1>4 DEF Retained

LEMMA LeavesRead ==
  ASSUME NEW n \in Nat, n <= Len(Indices), NEW value, value \in ReportRule.leaves
  PROVE  Reads(Elements([i \in 1..n |-> Leaf(value)]), 1)
  <1> DEFINE q == [i \in 1..n |-> Leaf(value)]
  <1>1. DOMAIN q = 1..n /\ \A i \in 1..n : Reads(q[i], 0)
    BY LeafReads
  <1> HIDE DEF q
  <1>2. Reads(Elements(q), 0 + 1)
    BY <1>1, ElementsRead
  <1> QED BY <1>2 DEF q

LEMMA OneReads ==
  ASSUME NEW doc, NEW d \in Nat, Reads(doc, d)
  PROVE  Reads(Elements(<<doc>>), d + 1) /\ Reads(Elements(<<>>), d + 1)
  <1>1. Len(Indices) >= 1 /\ Len(Indices) \in Nat
    BY PartsAssumption, LenProperties DEF PartsAssumption
  <1>2. ASSUME NEW q, NEW n \in {0, 1}, DOMAIN q = 1..n, \A i \in 1..n : Reads(q[i], d)
        PROVE  Reads(Elements(q), d + 1)
    <2>1. n \in Nat /\ n <= Len(Indices)
      BY <1>1
    <2> QED BY <1>2, <2>1, ElementsRead
  <1>3. DOMAIN <<doc>> = 1..1 /\ \A i \in 1..1 : Reads(<<doc>>[i], d)
    OBVIOUS
  <1>4. DOMAIN <<>> = 1..0 /\ \A i \in 1..0 : Reads(<<>>[i], d)
    OBVIOUS
  <1>5. Reads(Elements(<<doc>>), d + 1)
    BY <1>2, <1>3
  <1>6. Reads(Elements(<<>>), d + 1)
    BY <1>2, <1>4
  <1> QED BY <1>5, <1>6

(* Words that a report may say.                                            *)
LEMMA WordsRead ==
  ASSUME RawOK, raw.utc = "utc"
  PROVE  /\ {"hash", "count", "int", "null", "reason", "phase", "utc", "UNKNOWN", "AeostaraCore",
             raw.operation, raw.utc, raw.outcome, ObjectHash, profile} \subseteq ReportRule.leaves
         /\ \A v \in ReportRule.leaves : Reads(Leaf(v), 10)
  <1>1. raw.operation \in {"hash", "unavailable"} /\ raw.outcome \in Outcomes
    BY EventsAssumption DEF EventsAssumption, RawOK
  <1>2. {"hash", "count", "int", "null", "reason", "phase", "utc", "UNKNOWN", "AeostaraCore"}
          \subseteq ReportRule.leaves
    BY DEF ReportRule, Literals
  <1>3. ObjectHash \in ReportRule.leaves
    BY <1>2 DEF ObjectHash
  <1>4. raw.operation \in ReportRule.leaves /\ raw.outcome \in ReportRule.leaves
    BY <1>1 DEF ReportRule, Literals
  <1>5. profile \in ReportRule.leaves
    BY DEF ReportRule, Literals, RawOK
  <1>6. \A v \in ReportRule.leaves : Reads(Leaf(v), 10)
    BY LeafReads
  <1> QED BY <1>2, <1>3, <1>4, <1>5, <1>6

LEMMA EventReads ==
  ASSUME RawOK, raw.utc = "utc", NEW bulky \in BOOLEAN
  PROVE  Reads(Event(bulky), 11)
  <1> DEFINE f == EventFields(bulky)
             keys == DOMAIN f \ (IF bulky THEN {} ELSE {"evidenceUnavailableReason"})
             r == Restrict(f, keys)
  <1>1. DOMAIN f \subseteq ReportKeys
    BY DEF EventFields, ReportKeys
  <1>2. \A v \in {"hash", "count", "null", "reason", "phase", "AeostaraCore",
                  raw.operation, raw.utc, raw.outcome, ObjectHash} : Reads(Leaf(v), 10)
    BY WordsRead
  <1>3. Reads(Elements([i \in 1..Min({raw.rules, Widths.items}) |-> Leaf("hash")]), 10)
    <2> DEFINE n == Min({raw.rules, Widths.items})
    <2>1. raw.rules \in Nat /\ Widths.items \in Nat /\ Len(Indices) >= Widths.items /\ Len(Indices) \in Nat
      BY EventsAssumption, PartsAssumption, LenProperties DEF EventsAssumption, PartsAssumption, RawOK
    <2>2. n \in {raw.rules, Widths.items} /\ n <= Widths.items
      BY <2>1, MinHolds
    <2> HIDE DEF n
    <2>3. n \in Nat /\ n <= Len(Indices)
      BY <2>1, <2>2
    <2>4. Reads(Elements([i \in 1..n |-> Leaf("hash")]), 1)
      <3>1. "hash" \in ReportRule.leaves
        BY DEF ReportRule
      <3> QED BY <2>3, <3>1, LeavesRead
    <2>5. Reads(Elements([i \in 1..n |-> Leaf("hash")]), 10)
      BY <2>4, ReadsMore
    <2> QED BY <2>5 DEF n
  <1>4. Reads(PrimaryError, 10) /\ Reads(SecondaryErrors, 10)
    BY ErrorsRead
  <1>5. \A k \in DOMAIN f : k # "evidence" => Reads(f[k], 10)
    BY <1>2, <1>3, <1>4 DEF EventFields
  <1>6. Keeps(f["evidence"], EvidenceRule) /\ IsMapping(f["evidence"])
    <2>1. f["evidence"] = IF bulky THEN Leaf("object") ELSE Retained(raw.evidence)
      BY DEF EventFields
    <2>2. Keeps(Leaf("object"), EvidenceRule) /\ IsMapping(Leaf("object"))
      BY ObjectKeeps
    <2> HIDE DEF f
    <2> QED BY <2>1, <2>2, RetainedKeeps
  <1> HIDE DEF f
  <1>7. DOMAIN r = keys /\ \A k \in keys : r[k] = f[k]
    BY DEF Restrict
  <1>8. keys \subseteq DOMAIN f
    OBVIOUS
  <1> HIDE DEF r, keys
  <1>9. DOMAIN r \subseteq ReportKeys
    BY <1>1, <1>7, <1>8
  <1>10. ASSUME NEW k \in DOMAIN r
         PROVE  IF k = "evidence" THEN Keeps(r[k], EvidenceRule) /\ IsMapping(r[k]) ELSE Reads(r[k], 10)
    BY <1>5, <1>6, <1>7, <1>8
  <1>11. Reads(Fields(r), 10 + 1)
    BY <1>9, <1>10, FieldsRead
  <1> QED BY <1>11 DEF Event, r, keys, f

LEMMA IncidentReads ==
  ASSUME RawOK, raw.utc = "utc"
  PROVE  Reads(Incident, 11)
  <1> DEFINE f == [incidentID |-> Leaf("hash"), triggerPhase |-> Leaf("phase"),
                   affectedObjectHash |-> Leaf(ObjectHash), expectedContract |-> Leaf("reason"),
                   observedOutcome |-> Leaf(raw.outcome), timelineEventIDs |-> Elements(<<Leaf("hash")>>),
                   primaryError |-> PrimaryError, secondaryErrors |-> SecondaryErrors,
                   causeStatus |-> Leaf("UNKNOWN"), coverageGap |-> Leaf("reason")]
  <1>1. DOMAIN f \subseteq ReportKeys /\ "evidence" \notin DOMAIN f
    BY DEF ReportKeys
  <1>2. \A v \in {"hash", "reason", "phase", "UNKNOWN", raw.outcome, ObjectHash} : Reads(Leaf(v), 10)
    BY WordsRead
  <1>3. Reads(Elements(<<Leaf("hash")>>), 10)
    <2>1. Reads(Leaf("hash"), 0)
      <3>1. "hash" \in ReportRule.leaves
        BY DEF ReportRule
      <3> QED BY <3>1, LeafReads
    <2>2. Reads(Elements(<<Leaf("hash")>>), 0 + 1)
      BY <2>1, OneReads
    <2> QED BY <2>2, ReadsMore
  <1>4. Reads(PrimaryError, 10) /\ Reads(SecondaryErrors, 10)
    BY ErrorsRead
  <1>5. \A k \in DOMAIN f : Reads(f[k], 10)
    BY <1>2, <1>3, <1>4
  <1> HIDE DEF f
  <1>6. Reads(Fields(f), 10 + 1)
    BY <1>1, <1>5, FieldsRead
  <1> QED BY <1>6 DEF Incident, f

LEMMA LossReads ==
  ASSUME RawOK, raw.utc = "utc"
  PROVE  Reads(LossFields, 11)
  <1> DEFINE f == [dropped |-> Leaf("count"), truncated |-> Leaf("count"), redacted |-> Leaf("count"),
                   captureFailures |-> Leaf("count"), exportFailures |-> Leaf("null"),
                   exportFailuresUnavailableReason |-> Leaf("reason")]
  <1>1. DOMAIN f \subseteq ReportKeys /\ "evidence" \notin DOMAIN f
    BY DEF ReportKeys
  <1>2. \A v \in {"count", "null", "reason"} : Reads(Leaf(v), 10)
    BY WordsRead
  <1>3. \A k \in DOMAIN f : Reads(f[k], 10)
    BY <1>2
  <1> HIDE DEF f
  <1>4. Reads(Fields(f), 10 + 1)
    BY <1>1, <1>3, FieldsRead
  <1> QED BY <1>4 DEF LossFields, f

(* What the host calls its commit is a leaf, whatever it was.              *)
LEMMA CommitReads ==
  ASSUME RawOK, raw.utc = "utc"
  PROVE  Reads(Shown(Leaf(raw.commit), ReportRule), 10)
  <1> DEFINE leaf == Leaf(raw.commit)
             c == Shown(leaf, ReportRule)
  <1>1. IsDocument(leaf) /\ DOMAIN leaf = {<<>>}
    BY LeafIs
  <1> HIDE DEF leaf
  <1>2. /\ ReportRule.depth = 16 /\ "null" \in ReportRule.leaves
        /\ ReportRule.items \in Nat /\ ReportRule.members \in Nat
    BY DEF ReportRule, Unlimited
  <1>3. Keeps(c, ReportRule) /\ IsMapping(c)
    BY <1>1, <1>2, ShownKeeps
  <1>4. DOMAIN c = {<<>>}
    <2>1. 1..Len(<<>>) = {}
      BY EmptySeq
    <2>2. Visited(leaf, ReportRule) = {<<>>}
      BY <1>1, <2>1 DEF Visited
    <2> QED BY <2>2 DEF Shown
  <1> HIDE DEF c
  <1>5. c[<<>>] \in Containers \cup ReportRule.leaves
    BY <1>3, <1>4 DEF Keeps, Admitted
  <1>6. c = Leaf(c[<<>>])
    <2>1. c = [n \in {<<>>} |-> c[n]]
      BY <1>3, <1>4 DEF IsMapping
    <2>2. \A n \in {<<>>} : c[n] = c[<<>>]
      OBVIOUS
    <2> QED BY <2>1, <2>2 DEF Leaf
  <1>7. Reads(c, 10)
    BY <1>5, <1>6, LeafReads
  <1> QED BY <1>7 DEF c, leaf

LEMMA BuildContextReads ==
  ASSUME RawOK, raw.utc = "utc"
  PROVE  Reads(BuildContext, 11)
  <1> DEFINE f == [compilerVersion |-> Leaf("int"), pointerBits |-> Leaf("count"), processID |-> Leaf("count"),
                   osVersionUnavailableReason |-> Leaf("null"), sourceCommit |-> Leaf("null"),
                   sourceCommitUnavailableReason |-> Leaf("reason"), sourceDirty |-> Leaf("null"),
                   osArchitecture |-> Leaf("count"), osMajor |-> Leaf("count"), osMinor |-> Leaf("count"),
                   osBuild |-> Leaf("count"), hostSourceCommit |-> Shown(Leaf(raw.commit), ReportRule)]
  <1>1. DOMAIN f \subseteq ReportKeys /\ "evidence" \notin DOMAIN f
    BY DEF ReportKeys
  <1>2. \A v \in {"int", "count", "null", "reason"} : Reads(Leaf(v), 10)
    BY WordsRead
  <1>3. Reads(Shown(Leaf(raw.commit), ReportRule), 10)
    BY CommitReads
  <1>4. \A k \in DOMAIN f : Reads(f[k], 10)
    BY <1>2, <1>3
  <1> HIDE DEF f
  <1>5. Reads(Fields(f), 10 + 1)
    BY <1>1, <1>4, FieldsRead
  <1> QED BY <1>5 DEF BuildContext, f

(* The snapshot that a capture yields is clear, if the clock writes what   *)
(* the report can read.                                                    *)
LEMMA DocumentClear ==
  ASSUME RawOK, raw.utc = "utc", NEW bulky \in BOOLEAN
  PROVE  Clear(Document(bulky))
  <1> DEFINE events == Elements(<<Event(bulky)>>)
             incidents == Elements(IF raw.outcome \in Incidental THEN <<Incident>> ELSE <<>>)
             schema == Leaf("aeostara.diagnostics/1")
             sdkVersion == Leaf("sdk version")
             f == [schema |-> schema, sdkVersion |-> sdkVersion,
                   profile |-> Leaf(profile), sessionID |-> Leaf("hash"), buildContext |-> BuildContext,
                   captureStartUtc |-> Leaf(raw.utc), captureEndUtc |-> Leaf(raw.utc),
                   events |-> events, incidents |-> incidents,
                   loss |-> LossFields, rawMessagesUnavailableReason |-> Leaf("reason"),
                   bundleID |-> Leaf("hash")]
  <1>1. DOMAIN f \subseteq ReportKeys /\ "evidence" \notin DOMAIN f
    BY DEF ReportKeys
  <1>2. ASSUME NEW v \in ReportRule.leaves PROVE Reads(Leaf(v), 12)
    BY LeafReads
  <1>3. {"hash", "reason", raw.utc, profile} \subseteq ReportRule.leaves
    BY WordsRead
  <1>4. Reads(BuildContext, 12) /\ Reads(LossFields, 12)
    BY BuildContextReads, LossReads, ReadsMore
  <1>5. Reads(events, 12) /\ Reads(incidents, 12)
    <2>1. Reads(Event(bulky), 11) /\ Reads(Incident, 11)
      BY EventReads, IncidentReads
    <2>2. /\ Reads(Elements(<<Event(bulky)>>), 11 + 1)
          /\ Reads(Elements(<<Incident>>), 11 + 1) /\ Reads(Elements(<<>>), 11 + 1)
      BY <2>1, OneReads
    <2> QED BY <2>2
  <1>6. Reads(schema, 12) /\ Reads(sdkVersion, 12)
    <2>1. "aeostara.diagnostics/1" \in ReportRule.leaves /\ "sdk version" \in ReportRule.leaves
      BY Zenon DEF ReportRule, Literals
    <2> QED BY <1>2, <2>1, Zenon
  <1> HIDE DEF events, incidents, schema, sdkVersion
  <1>7. \A k \in DOMAIN f : Reads(f[k], 12)
    BY <1>2, <1>3, <1>4, <1>5, <1>6
  <1> HIDE DEF f
  <1>8. Reads(Fields(f), 12 + 1)
    BY <1>1, <1>7, FieldsRead
  <1>9. Clear(Fields(f))
    BY <1>8, ReadsIsClear
  <1> QED BY <1>9 DEF Document, f, events, incidents, schema, sdkVersion

(* Where the members of the items of a list are.                           *)
LEMMA ItemFields ==
  ASSUME NEW record, DOMAIN record \subseteq ReportKeys, \A k \in DOMAIN record : IsDocument(record[k]),
         NEW list \in DOMAIN record, NEW n \in Nat, n <= Len(Indices), NEW q, DOMAIN q = 1..n,
         \A i \in 1..n : IsDocument(q[i]), record[list] = Elements(q),
         NEW c \in Children(Fields(record), <<list>>)
  PROVE  \E i \in 1..n : \A key \in Parts : <<key>> \in DOMAIN q[i] =>
           /\ Append(c, key) \in DOMAIN Fields(record)
           /\ Fields(record)[Append(c, key)] = q[i][<<key>>]
  <1> DEFINE doc == Fields(record)
             parts == ItemsOf(q)
             items == Under(parts, "array")
  <1>1. DOMAIN record \subseteq Parts /\ list \in Parts
    BY PartsAssumption DEF PartsAssumption
  <1>2. IsDocument(doc)
    BY FieldsIs
  <1>3. Composed(doc, "object", record)
    BY <1>1, UnderHas DEF Fields
  <1>4. /\ Elements(q) = items /\ DOMAIN parts \subseteq Parts
        /\ \A i \in 1..n : Indices[i] \in DOMAIN parts /\ parts[Indices[i]] = q[i]
        /\ \A k \in DOMAIN parts : \E i \in 1..n : k = Indices[i]
    BY ItemsAre
  <1>5. ASSUME NEW k \in DOMAIN parts PROVE IsDocument(parts[k])
    BY <1>4
  <1>6. Composed(items, "array", parts)
    BY <1>4, <1>5, UnderHas
  <1>7. c \in DOMAIN doc /\ Len(c) = Len(<<list>>) + 1 /\ IsPrefix(<<list>>, c)
    BY DEF Children
  <1> HIDE DEF doc, parts, items
  <1>8. c \in Seq(Parts) /\ Len(c) = 2 /\ c[1] = list /\ c # <<>>
    <2> DEFINE s == <<list>>
    <2>1. s \in Seq(Parts) /\ Len(s) = 1 /\ s[1] = list /\ 1 \in 1..1
      BY <1>1
    <2>2. Len(c) = Len(s) + 1 /\ IsPrefix(s, c)
      BY <1>7
    <2> HIDE DEF s
    <2>3. c \in Seq(Parts) /\ Len(c) = 2
      BY <1>2, <1>7, <2>1, <2>2 DEF IsDocument
    <2>4. s[1] = c[1]
      <3>1. s \in Seq(Parts) /\ c \in Seq(Parts) /\ IsPrefix(s, c)
        BY <2>1, <2>2, <2>3
      <3>2. \A i \in 1..Len(s) : s[i] = c[i]
        BY <3>1, PrefixByElements
      <3> QED BY <2>1, <3>2
    <2>5. c = <<>> => Len(c) = 0
      BY <2>3, EmptySeq
    <2>6. c # <<>>
      BY <2>3, <2>5
    <2> QED BY <2>1, <2>3, <2>4, <2>6
  <1>9. PICK k \in DOMAIN record : \E m \in DOMAIN record[k] : c = <<k>> \o m
    BY <1>3, <1>7, <1>8 DEF Composed
  <1>10. PICK m \in DOMAIN record[k] : c = <<k>> \o m
    BY <1>9
  <1>11. m \in Seq(Parts) /\ k \in Parts /\ k = list /\ Len(m) = 1
    <2> DEFINE s == <<k>>
    <2>1. m \in Seq(Parts) /\ k \in Parts
      BY <1>1 DEF IsDocument
    <2>2. s \in Seq(Parts) /\ Len(s) = 1 /\ s[1] = k /\ 1 \in 1..1 /\ c = s \o m
      BY <1>10, <2>1
    <2> HIDE DEF s
    <2>3. Len(c) = Len(s) + Len(m) /\ Len(m) \in Nat /\ \A i \in 1..Len(s) : c[i] = s[i]
      BY <2>1, <2>2, Joined, LenProperties
    <2> QED BY <1>8, <2>1, <2>2, <2>3
  <1>12. m \in DOMAIN items
    BY <1>4, <1>11
  <1>13. PICK j \in DOMAIN parts : \E o \in DOMAIN parts[j] : m = <<j>> \o o
    <2>1. m # <<>>
      <3>1. m = <<>> => Len(m) = 0
        BY <1>11, EmptySeq
      <3> QED BY <1>11, <3>1
    <2> QED BY <1>6, <1>12, <2>1 DEF Composed
  <1>14. PICK o \in DOMAIN parts[j] : m = <<j>> \o o
    BY <1>13
  <1>15. m = <<j>> /\ j \in Parts
    <2> DEFINE s == <<j>>
    <2>1. o \in Seq(Parts) /\ j \in Parts /\ s \in Seq(Parts) /\ Len(s) = 1 /\ m = s \o o
      BY <1>4, <1>5, <1>14 DEF IsDocument
    <2> HIDE DEF s
    <2>2. Len(m) = Len(s) + Len(o) /\ Len(o) \in Nat
      BY <2>1, Joined, LenProperties
    <2>3. Len(o) = 0
      BY <1>11, <2>1, <2>2
    <2>4. o = <<>>
      BY <2>1, <2>3, EmptySeq
    <2>5. m = s
      BY <2>1, <2>4, ConcatEmptySeq
    <2> QED BY <2>1, <2>5 DEF s
  <1>16. PICK i \in 1..n : j = Indices[i]
    BY <1>4
  <1>17. ASSUME NEW key \in Parts, <<key>> \in DOMAIN q[i]
         PROVE  Append(c, key) \in DOMAIN doc /\ doc[Append(c, key)] = q[i][<<key>>]
    <2>1. parts[j] = q[i]
      BY <1>4, <1>16
    <2>2. <<j>> \o <<key>> \in DOMAIN items /\ items[<<j>> \o <<key>>] = q[i][<<key>>]
      BY <1>6, <1>17, <2>1 DEF Composed
    <2>3. /\ <<list>> \o (<<j>> \o <<key>>) \in DOMAIN doc
          /\ doc[<<list>> \o (<<j>> \o <<key>>)] = q[i][<<key>>]
      BY <1>3, <1>4, <2>2 DEF Composed
    <2>4. Append(c, key) = <<list>> \o (<<j>> \o <<key>>)
      <3>1. c = <<list>> \o <<j>>
        BY <1>10, <1>11, <1>15
      <3>2. \A a, b, e \in Parts : Append(<<a>> \o <<b>>, e) = <<a>> \o (<<b>> \o <<e>>)
        OBVIOUS
      <3> QED BY <1>1, <1>15, <1>17, <3>1, <3>2
    <2> QED BY <2>3, <2>4
  <1> QED BY <1>17 DEF doc

LEMMA FieldRoot ==
  ASSUME NEW record, DOMAIN record \subseteq ReportKeys, \A k \in DOMAIN record : IsDocument(record[k]),
         NEW k \in DOMAIN record, <<>> \in DOMAIN record[k]
  PROVE  <<k>> \in DOMAIN Fields(record) /\ Fields(record)[<<k>>] = record[k][<<>>]
  <1>1. DOMAIN record \subseteq Parts
    BY PartsAssumption DEF PartsAssumption
  <1>2. Composed(Fields(record), "object", record)
    BY <1>1, UnderHas DEF Fields
  <1>3. <<k>> \o <<>> = <<k>>
    OBVIOUS
  <1>4. <<k>> \o <<>> \in DOMAIN Fields(record) /\ Fields(record)[<<k>> \o <<>>] = record[k][<<>>]
    BY <1>2 DEF Composed
  <1> QED BY <1>3, <1>4

(* What the text of the report reads of an event and of an incident.       *)
Texts == {"hash", "commit", "utc"} \cup Literals

LEMMA EventSays ==
  ASSUME RawOK, raw.utc = "utc", NEW bulky \in BOOLEAN
  PROVE  /\ \A k \in {"utc", "phase", "outcome", "eventID"} :
              <<k>> \in DOMAIN Event(bulky) /\ Event(bulky)[<<k>>] \in Texts
         /\ <<"sequence">> \in DOMAIN Event(bulky) /\ Event(bulky)[<<"sequence">>] = "count"
  <1> DEFINE f == EventFields(bulky)
             keys == DOMAIN f \ (IF bulky THEN {} ELSE {"evidenceUnavailableReason"})
             r == Restrict(f, keys)
             K == {"utc", "phase", "outcome", "eventID", "sequence"}
  <1>1. raw.outcome \in Texts /\ {"utc", "phase", "hash"} \subseteq Texts
    <2>1. raw.outcome \in Outcomes
      BY EventsAssumption DEF EventsAssumption, RawOK
    <2> QED BY <2>1 DEF Texts, Literals
  <1>2. /\ f["utc"] = Leaf("utc") /\ f["phase"] = Leaf("phase") /\ f["outcome"] = Leaf(raw.outcome)
        /\ f["eventID"] = Leaf("hash") /\ f["sequence"] = Leaf("count")
    BY DEF EventFields
  <1>3. K \subseteq keys /\ keys \subseteq DOMAIN f /\ DOMAIN f \subseteq ReportKeys
    <2>1. DOMAIN f \subseteq ReportKeys
      BY DEF EventFields, ReportKeys
    <2>2. K \subseteq DOMAIN f /\ "evidenceUnavailableReason" \notin K
      BY DEF EventFields
    <2> HIDE DEF f, K
    <2> QED BY <2>1, <2>2
  <1>4. \A k \in DOMAIN f : IsDocument(f[k])
    BY FieldsOfEvent
  <1>5. \A v : <<>> \in DOMAIN Leaf(v) /\ Leaf(v)[<<>>] = v
    BY LeafIs
  <1> HIDE DEF f
  <1>6. DOMAIN r = keys /\ \A k \in keys : r[k] = f[k]
    BY DEF Restrict
  <1> HIDE DEF r, keys
  <1>7. DOMAIN r \subseteq ReportKeys /\ \A k \in DOMAIN r : IsDocument(r[k])
    BY <1>3, <1>4, <1>6
  <1>8. ASSUME NEW k \in K
        PROVE  <<k>> \in DOMAIN Fields(r) /\ Fields(r)[<<k>>] = f[k][<<>>]
    <2>1. k \in DOMAIN r /\ r[k] = f[k]
      BY <1>3, <1>6
    <2>2. <<>> \in DOMAIN r[k]
      BY <1>2, <1>5, <2>1
    <2> QED BY <1>7, <2>1, <2>2, FieldRoot
  <1>9. Event(bulky) = Fields(r)
    BY DEF Event, r, keys, f
  <1> QED BY <1>1, <1>2, <1>5, <1>8, <1>9

LEMMA IncidentSays ==
  ASSUME RawOK
  PROVE  /\ \A k \in {"incidentID", "triggerPhase", "observedOutcome"} :
              <<k>> \in DOMAIN Incident /\ Incident[<<k>>] \in Texts
         /\ <<"timelineEventIDs">> \in DOMAIN Incident
  <1> DEFINE f == [incidentID |-> Leaf("hash"), triggerPhase |-> Leaf("phase"),
                   affectedObjectHash |-> Leaf(ObjectHash), expectedContract |-> Leaf("reason"),
                   observedOutcome |-> Leaf(raw.outcome), timelineEventIDs |-> Elements(<<Leaf("hash")>>),
                   primaryError |-> PrimaryError, secondaryErrors |-> SecondaryErrors,
                   causeStatus |-> Leaf("UNKNOWN"), coverageGap |-> Leaf("reason")]
  <1>1. raw.outcome \in Texts /\ {"phase", "hash"} \subseteq Texts
    <2>1. raw.outcome \in Outcomes
      BY EventsAssumption DEF EventsAssumption, RawOK
    <2> QED BY <2>1 DEF Texts, Literals
  <1>2. \A v : IsDocument(Leaf(v)) /\ <<>> \in DOMAIN Leaf(v) /\ Leaf(v)[<<>>] = v
    BY LeafIs
  <1>3. IsDocument(Elements(<<Leaf("hash")>>)) /\ <<>> \in DOMAIN Elements(<<Leaf("hash")>>)
    <2>1. IsDocument(Elements(<<Leaf("hash")>>))
      BY <1>2, OneElement
    <2> QED BY <2>1 DEF Elements, Under
  <1>4. IsDocument(PrimaryError) /\ IsDocument(SecondaryErrors)
    BY CapturedErrors
  <1>5. DOMAIN f \subseteq ReportKeys
    BY DEF ReportKeys
  <1>6. \A k \in DOMAIN f : IsDocument(f[k])
    BY <1>2, <1>3, <1>4
  <1>7. /\ {"incidentID", "triggerPhase", "observedOutcome", "timelineEventIDs"} \subseteq DOMAIN f
        /\ f["incidentID"] = Leaf("hash") /\ f["triggerPhase"] = Leaf("phase")
        /\ f["observedOutcome"] = Leaf(raw.outcome)
        /\ f["timelineEventIDs"] = Elements(<<Leaf("hash")>>)
    OBVIOUS
  <1> HIDE DEF f
  <1>8. ASSUME NEW k \in {"incidentID", "triggerPhase", "observedOutcome", "timelineEventIDs"}
        PROVE  <<k>> \in DOMAIN Fields(f) /\ Fields(f)[<<k>>] = f[k][<<>>]
    <2>1. k \in DOMAIN f /\ <<>> \in DOMAIN f[k]
      BY <1>2, <1>3, <1>7
    <2> QED BY <1>5, <1>6, <2>1, FieldRoot
  <1>9. Incident = Fields(f)
    BY DEF Incident, f
  <1> QED BY <1>1, <1>2, <1>7, <1>8, <1>9

(* The document can be supported and rendered.                             *)
LEMMA DocumentRenders ==
  ASSUME RawOK, raw.utc = "utc", NEW bulky \in BOOLEAN
  PROVE  Supported(Document(bulky)) /\ Rendered(Document(bulky))
  <1> DEFINE found == IF raw.outcome \in Incidental THEN <<Incident>> ELSE <<>>
             events == Elements(<<Event(bulky)>>)
             incidents == Elements(found)
             name == "aeostara.diagnostics/1"
             schema == Leaf(name)
             sdkVersion == Leaf("sdk version")
             f == [schema |-> schema, sdkVersion |-> sdkVersion,
                   profile |-> Leaf(profile), sessionID |-> Leaf("hash"), buildContext |-> BuildContext,
                   captureStartUtc |-> Leaf(raw.utc), captureEndUtc |-> Leaf(raw.utc),
                   events |-> events, incidents |-> incidents,
                   loss |-> LossFields, rawMessagesUnavailableReason |-> Leaf("reason"),
                   bundleID |-> Leaf("hash")]
             doc == Fields(f)
  <1>1. Document(bulky) = doc
    BY DEF Document
  <1>2. DOMAIN f \subseteq ReportKeys
    BY DEF ReportKeys
  <1>3. \A v : IsDocument(Leaf(v)) /\ <<>> \in DOMAIN Leaf(v) /\ Leaf(v)[<<>>] = v
    BY LeafIs
  <1>4. IsDocument(Event(bulky)) /\ IsDocument(Incident)
    BY EventIs, IncidentIs
  <1>5. IsDocument(events) /\ IsDocument(incidents) /\ IsDocument(BuildContext) /\ IsDocument(LossFields)
    BY <1>4, OneElement, BuildContextIs, LossFieldsIs
  <1>6. /\ <<>> \in DOMAIN events /\ events[<<>>] = "array"
        /\ <<>> \in DOMAIN incidents /\ incidents[<<>>] = "array"
    <2>1. \A q : <<>> \in DOMAIN Elements(q) /\ Elements(q)[<<>>] = "array"
      BY DEF Elements, Under
    <2> HIDE DEF found
    <2> QED BY <2>1
  <1>7. IsDocument(schema) /\ IsDocument(sdkVersion) /\ <<>> \in DOMAIN schema /\ schema[<<>>] = name
    BY <1>3
  <1> HIDE DEF events, incidents, schema, sdkVersion, name
  <1>8. \A k \in DOMAIN f : IsDocument(f[k])
    BY <1>3, <1>5, <1>7
  <1>9. /\ {"schema", "bundleID", "profile", "incidents", "events"} \subseteq DOMAIN f
        /\ f["schema"] = schema /\ f["bundleID"] = Leaf("hash") /\ f["profile"] = Leaf(profile)
        /\ f["incidents"] = incidents /\ f["events"] = events
    OBVIOUS
  <1> HIDE DEF f
  <1>10. ASSUME NEW k \in {"schema", "bundleID", "profile", "incidents", "events"}
         PROVE  <<k>> \in DOMAIN doc /\ doc[<<k>>] = f[k][<<>>]
    <2>1. k \in DOMAIN f /\ <<>> \in DOMAIN f[k]
      BY <1>3, <1>6, <1>7, <1>9
    <2> QED BY <1>2, <1>8, <2>1, FieldRoot
  <1>11. {"hash", profile} \subseteq Texts
    BY DEF Texts, Literals, RawOK
  <1>12. ReportKeys \subseteq Parts /\ Len(Indices) >= 1 /\ Len(Indices) \in Nat
    BY PartsAssumption, LenProperties DEF PartsAssumption
  <1>13. ASSUME NEW e \in Children(doc, <<"events">>)
         PROVE  /\ HasTexts(doc, e, {"utc", "phase", "outcome", "eventID"})
                /\ Append(e, "sequence") \in DOMAIN doc /\ doc[Append(e, "sequence")] = "count"
    <2> DEFINE q == <<Event(bulky)>>
               n == 1
    <2>1. DOMAIN q = 1..n /\ n \in Nat /\ n <= Len(Indices)
      BY <1>12
    <2>2. f["events"] = Elements(q) /\ \A i \in 1..n : IsDocument(q[i]) /\ q[i] = Event(bulky)
      BY <1>4, <1>9 DEF events
    <2> HIDE DEF q, doc, n
    <2>3. \E i \in 1..n : \A key \in Parts : <<key>> \in DOMAIN q[i] =>
            Append(e, key) \in DOMAIN Fields(f) /\ Fields(f)[Append(e, key)] = q[i][<<key>>]
      <3>1. "events" \in DOMAIN f
        BY <1>9
      <3> QED BY <1>2, <1>8, <2>1, <2>2, <3>1, ItemFields DEF doc
    <2>4. \A key \in Parts : <<key>> \in DOMAIN Event(bulky) =>
            Append(e, key) \in DOMAIN doc /\ doc[Append(e, key)] = Event(bulky)[<<key>>]
      BY <2>2, <2>3 DEF doc
    <2>5. {"utc", "phase", "outcome", "eventID", "sequence"} \subseteq Parts
      BY <1>12 DEF ReportKeys
    <2>6. \A k \in {"utc", "phase", "outcome", "eventID"} : IsText(doc, Append(e, k))
      BY <2>4, <2>5, EventSays DEF IsText, Texts
    <2> QED BY <2>4, <2>5, <2>6, EventSays DEF HasTexts
  <1>14. ASSUME NEW i \in Children(doc, <<"incidents">>)
         PROVE  /\ HasTexts(doc, i, {"incidentID", "triggerPhase", "observedOutcome"})
                /\ Append(i, "timelineEventIDs") \in DOMAIN doc
    <2> DEFINE n == IF raw.outcome \in Incidental THEN 1 ELSE 0
    <2>1. DOMAIN found = 1..n /\ n \in {0, 1} /\ \A j \in 1..n : IsDocument(found[j]) /\ found[j] = Incident
      <3>1. CASE raw.outcome \in Incidental
        BY <1>4, <3>1
      <3>2. CASE raw.outcome \notin Incidental
        BY <3>2
      <3> QED BY <3>1, <3>2
    <2>2. f["incidents"] = Elements(found)
      BY <1>9 DEF incidents
    <2> HIDE DEF found, doc, n
    <2>3. \E j \in 1..n : \A key \in Parts : <<key>> \in DOMAIN found[j] =>
            Append(i, key) \in DOMAIN Fields(f) /\ Fields(f)[Append(i, key)] = found[j][<<key>>]
      <3>1. n \in Nat /\ n <= Len(Indices) /\ "incidents" \in DOMAIN f
        BY <1>9, <1>12, <2>1
      <3> QED BY <1>2, <1>8, <2>1, <2>2, <3>1, ItemFields DEF doc
    <2>4. \A key \in Parts : <<key>> \in DOMAIN Incident =>
            Append(i, key) \in DOMAIN doc /\ doc[Append(i, key)] = Incident[<<key>>]
      BY <2>1, <2>3 DEF doc
    <2>5. {"incidentID", "triggerPhase", "observedOutcome", "timelineEventIDs"} \subseteq Parts
      BY <1>12 DEF ReportKeys
    <2>6. \A k \in {"incidentID", "triggerPhase", "observedOutcome"} : IsText(doc, Append(i, k))
      BY <2>4, <2>5, IncidentSays DEF IsText, Texts
    <2> QED BY <2>4, <2>5, <2>6, IncidentSays DEF HasTexts
  <1>15. Supported(doc)
    BY <1>7, <1>9, <1>10 DEF Supported, name
  <1>16. HasTexts(doc, <<>>, {"bundleID", "profile"})
    <2>1. \A k \in {"bundleID", "profile"} : Append(<<>>, k) = <<k>>
      OBVIOUS
    <2>2. \A k \in {"bundleID", "profile"} : <<k>> \in DOMAIN doc /\ doc[<<k>>] \in Texts
      BY <1>3, <1>9, <1>10, <1>11
    <2> HIDE DEF doc
    <2> QED BY <2>1, <2>2 DEF HasTexts, IsText, Texts
  <1>17. \A list \in {<<"incidents">>, <<"events">>} : list \in DOMAIN doc /\ doc[list] = "array"
    BY <1>6, <1>9, <1>10
  <1> HIDE DEF doc
  <1>18. Rendered(doc)
    BY <1>13, <1>14, <1>16, <1>17 DEF Rendered
  <1> QED BY <1>1, <1>15, <1>18

(* Nothing counted, nothing cleaned away.                                  *)
LEMMA ShownWhole ==
  ASSUME NEW doc, IsDocument(doc), IsMapping(doc), NEW rule, rule.depth \in Nat,
         Redactions(doc, rule) = 0, Truncations(doc, rule) = 0
  PROVE  Shown(doc, rule) = doc
  <1> DEFINE V == Visited(doc, rule)
             seen == {n \in V : Len(n) <= rule.depth}
             A == {n \in seen : ~Admitted(doc, rule, n)}
             B == {n \in UNION {Children(doc, m) : m \in seen} : Within(doc, rule, n) /\ ~Allowed(doc, rule, n)}
             C == {n \in V : \/ Len(n) > rule.depth
                             \/ \E m \in Children(doc, n) : ~Within(doc, rule, m)}
  <1>1. V \subseteq DOMAIN doc /\ DOMAIN doc \subseteq Seq(Parts) /\ IsFiniteSet(DOMAIN doc) /\ IsTree(doc)
    BY DEF Visited, IsDocument
  <1>2. A = {} /\ B = {}
    <2>1. A \subseteq DOMAIN doc /\ B \subseteq DOMAIN doc
      BY <1>1 DEF Children
    <2>2. Cardinality(A) + Cardinality(B) = 0
      BY DEF Redactions
    <2> HIDE DEF A, B, V
    <2>3. IsFiniteSet(A) /\ IsFiniteSet(B)
      BY <1>1, <2>1, FS_Subset
    <2>4. Cardinality(A) \in Nat /\ Cardinality(B) \in Nat
      BY <2>3, FS_CardinalityType
    <2>5. Cardinality(A) = 0 /\ Cardinality(B) = 0
      BY <2>2, <2>4
    <2> QED BY <2>3, <2>5, FS_EmptySet
  <1>3. C = {}
    <2>1. C \subseteq DOMAIN doc
      BY <1>1
    <2>2. Cardinality(C) = 0
      BY DEF Truncations
    <2> HIDE DEF C, V
    <2>3. IsFiniteSet(C)
      BY <1>1, <2>1, FS_Subset
    <2> QED BY <2>2, <2>3, FS_EmptySet
  <1>4. ASSUME NEW n \in V
        PROVE  /\ Len(n) \in Nat /\ Len(n) <= rule.depth /\ Admitted(doc, rule, n)
               /\ \A m \in Children(doc, n) : Within(doc, rule, m) /\ Allowed(doc, rule, m)
    <2>1. Len(n) \in Nat
      BY <1>1, LenProperties
    <2>2. n \notin C
      BY <1>3
    <2>3. Len(n) <= rule.depth /\ \A m \in Children(doc, n) : Within(doc, rule, m)
      BY <2>1, <2>2
    <2>4. n \in seen
      BY <2>3
    <2> QED BY <1>2, <2>1, <2>3, <2>4
  <1> DEFINE Fine(m, i) == /\ i <= rule.depth + 1 /\ Within(doc, rule, SubSeq(m, 1, i))
                           /\ Allowed(doc, rule, SubSeq(m, 1, i))
  <1>5. \A m : m \in V <=> m \in DOMAIN doc /\ \A i \in 1..Len(m) : Fine(m, i)
    BY DEF Visited
  <1> DEFINE T == {l \in Nat : \A n \in DOMAIN doc : Len(n) = l => n \in V}
  <1> HIDE DEF V, A, B, C, Fine
  <1>6. 0 \in T
    <2> SUFFICES ASSUME NEW n \in DOMAIN doc, Len(n) = 0 PROVE n \in V
      OBVIOUS
    <2> QED BY <1>5
  <1>7. ASSUME NEW l \in Nat, l \in T PROVE l + 1 \in T
    <2> SUFFICES ASSUME NEW n \in DOMAIN doc, Len(n) = l + 1 PROVE n \in V
      OBVIOUS
    <2> DEFINE f == Front(n)
    <2>1. n \in Seq(Parts) /\ n # <<>>
      <3>1. n = <<>> => Len(n) = 0
        BY <1>1, EmptySeq
      <3> QED BY <1>1, <3>1
    <2>2. f \in Seq(Parts) /\ Len(f) = l /\ IsPrefix(f, n) /\ f \in DOMAIN doc
      <3>1. f \in Seq(Parts) /\ Len(f) = Len(n) - 1 /\ IsPrefix(f, n)
        BY <2>1, FrontIs
      <3>2. f \in DOMAIN doc
        BY <1>1, <2>1 DEF IsTree
      <3> QED BY <3>1, <3>2
    <2>3. f \in V
      BY <1>7, <2>2
    <2>4. n \in Children(doc, f)
      BY <2>2 DEF Children
    <2>5. Within(doc, rule, n) /\ Allowed(doc, rule, n) /\ l <= rule.depth
      BY <1>4, <2>2, <2>3, <2>4
    <2>6. ASSUME NEW i \in 1..Len(n) PROVE Fine(n, i)
      <3>1. CASE i = Len(n)
        <4>1. SubSeq(n, 1, i) = n
          BY <2>1, <3>1, SubSeqFull
        <4>2. i <= rule.depth + 1
          BY <2>5, <3>1
        <4> QED BY <2>5, <4>1, <4>2 DEF Fine
      <3>2. CASE i # Len(n)
        <4>1. i \in 1..Len(f)
          BY <2>2, <3>2
        <4>2. SubSeq(f, 1, i) = SubSeq(n, 1, i)
          BY <2>1, <4>1, WayOfFront
        <4>3. Fine(f, i)
          BY <1>5, <2>3, <4>1
        <4> QED BY <4>2, <4>3 DEF Fine
      <3> QED BY <3>1, <3>2
    <2> QED BY <1>5, <2>6
  <1>8. Nat \subseteq T
    <2> HIDE DEF T
    <2> QED BY <1>6, <1>7, SetInduction
  <1>9. V = DOMAIN doc
    <2>1. \A n \in DOMAIN doc : Len(n) \in T
      BY <1>1, <1>8, LenProperties
    <2> QED BY <1>1, <2>1
  <1>10. Shown(doc, rule) = [n \in V |-> doc[n]]
    BY <1>4 DEF Shown, V
  <1> QED BY <1>9, <1>10 DEF IsMapping

(* No cut counted, and an error is reported as it is.                      *)
LEMMA ReportedWhole ==
  ASSUME NEW error, IsError(error), ErrorCuts(error) = 0
  PROVE  Reported(error) = DOMAIN error
  <1> DEFINE D == DOMAIN error
             R == Reported(error)
             causes(g) == Cardinality(Children(error, Append(g, "causes")))
             A == {n \in ErrorsIn(error) : (Nesting(n) = ErrorDepth /\ causes(n) > 0) \/ causes(n) > Widths.causes}
             fine(n) == Nesting(n) <= ErrorDepth /\ \A i \in 1..Nesting(n) : Place(n[2 * i]) <= Widths.causes
             T == {l \in Nat : \A n \in D : Len(n) <= l => n \in R}
  <1>1. R \subseteq D /\ D \subseteq Seq(Parts) /\ IsFiniteSet(D) /\ IsTree(error)
    BY DEF Reported, IsError, IsDocument
  <1>2. A = {}
    <2>1. A \subseteq D
      BY <1>1 DEF ErrorsIn
    <2>2. Cardinality(A) = 0
      BY DEF ErrorCuts
    <2> HIDE DEF A, D
    <2>3. IsFiniteSet(A)
      BY <1>1, <2>1, FS_Subset
    <2> QED BY <2>2, <2>3, FS_EmptySet
  <1>3. \A n \in D : n \in R <=> fine(n)
    BY DEF Reported
  <1>4. \A g \in D : IsFiniteSet(Children(error, Append(g, "causes"))) /\ causes(g) \in Nat
    <2>1. \A g : Children(error, g) \subseteq D
      BY DEF Children
    <2> QED BY <1>1, <2>1, FS_Subset, FS_CardinalityType
  <1>5. ASSUME NEW g \in R, Len(g) % 2 = 0
        PROVE  causes(g) <= Widths.causes /\ (causes(g) > 0 => Nesting(g) # ErrorDepth)
    <2>1. g \in ErrorsIn(error)
      BY <1>5 DEF ErrorsIn
    <2>2. g \notin A
      BY <1>2
    <2>3. ~(causes(g) > Widths.causes)
      BY <2>1, <2>2
    <2>4. Widths.causes \in Nat /\ causes(g) \in Nat
      BY <1>1, <1>4, PartsAssumption DEF PartsAssumption
    <2>5. causes(g) > 0 => Nesting(g) # ErrorDepth
      BY <2>1, <2>2
    <2> HIDE DEF causes
    <2> QED BY <2>3, <2>4, <2>5
  <1> HIDE DEF A, R, fine, causes
  <1>6. 0 \in T
    <2> SUFFICES ASSUME NEW n \in D, Len(n) <= 0 PROVE n \in R
      OBVIOUS
    <2>1. n = <<>> /\ Len(n) = 0
      BY <1>1, EmptySeq, LenProperties
    <2>2. Nesting(n) = 0 /\ ErrorDepth = 4
      BY <2>1 DEF Nesting, ErrorDepth
    <2> QED BY <1>3, <2>2 DEF fine
  <1>7. ASSUME NEW l \in Nat, l \in T PROVE l + 1 \in T
    <2> SUFFICES ASSUME NEW n \in D, Len(n) = l + 1 PROVE n \in R
      <3>1. \A n \in D : Len(n) <= l + 1 => Len(n) <= l \/ Len(n) = l + 1
        BY <1>1, LenProperties
      <3> QED BY <1>7, <3>1
    <2> DEFINE f == Front(n)
    <2>1. n \in Seq(Parts) /\ n # <<>>
      <3>1. n = <<>> => Len(n) = 0
        BY <1>1, EmptySeq
      <3> QED BY <1>1, <3>1
    <2>2. /\ f \in Seq(Parts) /\ Len(f) = l /\ IsPrefix(f, n) /\ \A i \in 1..l : f[i] = n[i]
          /\ Last(n) = n[l + 1]
      <3>1. /\ f \in Seq(Parts) /\ Len(f) = Len(n) - 1 /\ IsPrefix(f, n)
            /\ \A i \in 1..(Len(n) - 1) : f[i] = n[i]
            /\ Last(n) = n[Len(n)]
        BY <2>1, FrontIs
      <3>2. Len(n) - 1 = l
        OBVIOUS
      <3> QED BY <3>1, <3>2
    <2>3. f \in D /\ error[f] \in Containers
      BY <1>1, <2>1 DEF IsTree
    <2>4. f \in R
      BY <1>7, <2>2, <2>3
    <2>5. Nesting(f) \in Nat /\ Nesting(f) <= ErrorDepth /\ \A i \in 1..Nesting(f) : Place(f[2 * i]) <= Widths.causes
      <3>1. Nesting(f) \in Nat
        BY <2>2 DEF Nesting
      <3> QED BY <1>3, <2>3, <2>4, <3>1 DEF fine
    <2>6. CASE l % 2 = 0
      <3>1. Nesting(n) = Nesting(f) /\ \A i \in 1..Nesting(f) : 2 * i \in 1..l
        <4>1. (l + 1) \div 2 = l \div 2 /\ \A i \in 1..(l \div 2) : 2 * i \in 1..l
          BY <2>6
        <4> QED BY <2>2, <4>1 DEF Nesting
      <3>2. \A i \in 1..Nesting(f) : n[2 * i] = f[2 * i]
        BY <2>2, <3>1
      <3> QED BY <1>3, <2>5, <3>1, <3>2 DEF fine
    <2>7. CASE l % 2 # 0
      <3> DEFINE g == Front(f)
                 e == Last(n)
      <3>1. f # <<>> /\ Last(f) = "causes"
        <4>1. f = <<>> => Len(f) = 0
          BY EmptySeq
        <4>2. Last(f) = "causes"
          BY <2>2, <2>3, <2>7, ErrorNode
        <4> QED BY <2>2, <2>7, <4>1, <4>2
      <3>2. g \in Seq(Parts) /\ Len(g) = l - 1 /\ l >= 1 /\ \A i \in 1..(l - 1) : g[i] = f[i]
        BY <2>2, <3>1, FrontIs
      <3>3. g \in D /\ f = Append(g, "causes")
        <4>1. g \in D
          BY <1>1, <2>3, <3>1 DEF IsTree
        <4> QED BY <2>2, <3>1, <4>1, FrontAndLast
      <3>4. g \in R /\ Len(g) % 2 = 0
        <4>1. Len(g) <= l /\ (l - 1) % 2 = 0
          BY <2>7, <3>2
        <4> QED BY <1>7, <3>2, <3>3, <4>1
      <3>5. Nesting(g) \in Nat /\ Nesting(g) <= ErrorDepth /\ \A i \in 1..Nesting(g) : Place(g[2 * i]) <= Widths.causes
        <4>1. Nesting(g) \in Nat
          BY <3>2 DEF Nesting
        <4> QED BY <1>3, <3>3, <3>4, <4>1 DEF fine
      <3>6. /\ e \in Range(Indices)
            /\ \A i \in 1..Place(e) : Append(f, Indices[i]) \in D
        <4>1. Len(n) % 2 = 0
          BY <2>7
        <4> QED BY <2>1, <4>1, ErrorNode
      <3>7. Place(e) \in 1..Len(Indices) /\ Indices[Place(e)] = e
        <4>1. \E i \in 1..Len(Indices) : Indices[i] = e
          BY <3>6, PartsAssumption, LenProperties DEF PartsAssumption, Range
        <4> QED BY <4>1 DEF Place
      <3>8. Place(e) <= causes(g) /\ causes(g) \in Nat /\ causes(g) > 0
        <4> DEFINE k == Place(e)
                   K == Children(error, f)
                   F == [i \in 1..k |-> Append(f, Indices[i])]
        <4>1. k \in Nat /\ k >= 1 /\ k <= Len(Indices) /\ Len(Indices) \in Nat
          BY <3>7, PartsAssumption, LenProperties DEF PartsAssumption
        <4>2. ASSUME NEW i \in 1..k
              PROVE  i \in 1..Len(Indices) /\ Indices[i] \in Parts
          BY <4>1, PartsAssumption, ElementOfSeq DEF PartsAssumption
        <4>3. ASSUME NEW i \in 1..k PROVE F[i] \in K /\ Last(F[i]) = Indices[i]
          <5>1. F[i] = Append(f, Indices[i]) /\ F[i] \in D
            BY <3>6
          <5>2. Len(F[i]) = Len(f) + 1 /\ Last(F[i]) = Indices[i] /\ F[i] # <<>> /\ Front(F[i]) = f
                /\ F[i] \in Seq(Parts)
            BY <2>2, <4>2, <5>1, AppendIs
          <5>3. IsPrefix(f, F[i])
            BY <5>2, FrontIs
          <5> QED BY <5>1, <5>2, <5>3 DEF Children
        <4>4. DOMAIN F = 1..k /\ \A i, j \in 1..k : F[i] = F[j] => i = j
          <5>1. \A i, j \in 1..Len(Indices) : Indices[i] = Indices[j] => i = j
            BY PartsAssumption DEF PartsAssumption
          <5>2. DOMAIN F = 1..k
            OBVIOUS
          <5> HIDE DEF F, k
          <5> QED BY <4>2, <4>3, <5>1, <5>2
        <4> DEFINE I == {F[i] : i \in 1..k}
        <4> HIDE DEF F, k, K
        <4>5. I \subseteq K /\ IsFiniteSet(K) /\ Cardinality(K) = causes(g) /\ Cardinality(K) \in Nat
          BY <1>4, <3>3, <4>3 DEF K, causes
        <4>6. (\A i \in 1..k : F[i] \in I) /\ (\A r \in I : \E i \in 1..k : r = F[i])
          OBVIOUS
        <4> HIDE DEF I
        <4>7. Cardinality(I) = k /\ Cardinality(I) <= Cardinality(K)
          <5>1. Cardinality(I) = k
            BY <4>1, <4>4, <4>6, FamilyCount
          <5> QED BY <4>5, <5>1, FS_Subset
        <4> QED BY <4>1, <4>5, <4>7 DEF k
      <3>9. causes(g) <= Widths.causes /\ Nesting(g) # ErrorDepth
        BY <1>5, <3>4, <3>8
      <3>10. Widths.causes \in Nat /\ Place(e) \in Nat
        BY <3>7, PartsAssumption DEF PartsAssumption
      <3>11. Place(e) <= Widths.causes
        BY <3>8, <3>9, <3>10
      <3>12. Nesting(n) = Nesting(g) + 1 /\ 2 * (Nesting(g) + 1) = l + 1 /\ \A i \in 1..Nesting(g) : 2 * i \in 1..(l - 1)
        <4>1. /\ (l + 1) \div 2 = (l - 1) \div 2 + 1 /\ 2 * ((l - 1) \div 2 + 1) = l + 1
              /\ \A i \in 1..((l - 1) \div 2) : 2 * i \in 1..(l - 1)
          BY <2>7
        <4> QED BY <3>2, <4>1 DEF Nesting
      <3>13. ASSUME NEW i \in 1..Nesting(n) PROVE Place(n[2 * i]) <= Widths.causes
        <4>1. CASE i = Nesting(g) + 1
          BY <2>2, <3>11, <3>12, <4>1
        <4>2. CASE i # Nesting(g) + 1
          <5>1. i \in 1..Nesting(g)
            BY <3>5, <3>12, <4>2
          <5>2. 2 * i \in 1..(l - 1) /\ 2 * i \in 1..l
            BY <3>2, <3>12, <5>1
          <5>3. n[2 * i] = g[2 * i]
            BY <2>2, <3>2, <5>2
          <5> QED BY <3>5, <5>1, <5>3
        <4> QED BY <4>1, <4>2
      <3>14. Nesting(n) <= ErrorDepth
        BY <3>5, <3>9, <3>12 DEF ErrorDepth
      <3> QED BY <1>3, <3>13, <3>14 DEF fine
    <2> QED BY <2>6, <2>7
  <1>8. Nat \subseteq T
    <2> HIDE DEF T
    <2> QED BY <1>6, <1>7, SetInduction
  <1>9. \A n \in D : n \in R
    <2>1. \A n \in D : Len(n) \in T /\ Len(n) \in Nat /\ Len(n) <= Len(n)
      BY <1>1, <1>8, LenProperties
    <2> QED BY <2>1
  <1> QED BY <1>1, <1>9 DEF R, D

LEMMA SafeErrorWhole ==
  ASSUME NEW error, IsError(error), ErrorCuts(error) = 0, NEW m \in DOMAIN error
  PROVE  m \in DOMAIN SafeError(error) /\ SafeError(error)[m] = error[m]
  <1> DEFINE reasons(n) ==
               [messageUnavailableReason |-> "reason",
                nativeCodeUnavailableReason |->
                  IF error[Append(n, "nativeCode")] = "null" THEN "reason" ELSE "null"]
             D == Reported(error) \cup UNION {{Append(n, k) : k \in DOMAIN reasons(n)} : n \in ErrorsIn(error)}
             value(n) == IF n \in DOMAIN error THEN error[n] ELSE reasons(Front(n))[Last(n)]
             safe == SafeError(error)
  <1>1. safe = [n \in D |-> value(n)]
    BY DEF SafeError
  <1>2. m \in D
    BY ReportedWhole
  <1>3. value(m) = error[m]
    OBVIOUS
  <1> HIDE DEF D, value
  <1> QED BY <1>1, <1>2, <1>3

(* Where the fields of the event are in the document.                      *)
LEMMA FieldAt ==
  ASSUME RawOK, NEW k \in DOMAIN EventFields(FALSE), k # "evidenceUnavailableReason",
         IsMapping(EventFields(FALSE)[k])
  PROVE  At(Document(FALSE), <<"events", Indices[1]>> \o <<k>>) = EventFields(FALSE)[k]
  <1> DEFINE found == IF raw.outcome \in Incidental THEN <<Incident>> ELSE <<>>
             q == <<Event(FALSE)>>
             events == Elements(q)
             incidents == Elements(found)
             schema == Leaf("aeostara.diagnostics/1")
             sdkVersion == Leaf("sdk version")
             f == [schema |-> schema, sdkVersion |-> sdkVersion,
                   profile |-> Leaf(profile), sessionID |-> Leaf("hash"), buildContext |-> BuildContext,
                   captureStartUtc |-> Leaf(raw.utc), captureEndUtc |-> Leaf(raw.utc),
                   events |-> events, incidents |-> incidents,
                   loss |-> LossFields, rawMessagesUnavailableReason |-> Leaf("reason"),
                   bundleID |-> Leaf("hash")]
             g == EventFields(FALSE)
             keys == DOMAIN g \ {"evidenceUnavailableReason"}
             r == Restrict(g, keys)
             first == Indices[1]
             parts == ItemsOf(q)
  <1>1. Document(FALSE) = Under(f, "object")
    BY DEF Document, Fields
  <1>2. /\ ReportKeys \subseteq Parts /\ Len(Indices) >= 1 /\ Len(Indices) \in Nat
        /\ first \in Parts /\ IsFiniteSet(ReportKeys)
    <2>1. Indices \in Seq(Parts) /\ ReportKeys \subseteq Parts /\ Len(Indices) >= 1
      BY PartsAssumption DEF PartsAssumption
    <2>2. Len(Indices) \in Nat
      BY <2>1, LenProperties
    <2>3. 1 \in 1..Len(Indices)
      BY <2>1, <2>2
    <2> QED BY <2>1, <2>2, <2>3, ElementOfSeq, KeysFinite
  <1>3. /\ DOMAIN f \subseteq ReportKeys /\ "events" \in DOMAIN f /\ f["events"] = events
    BY DEF ReportKeys
  <1>4. \A v : IsDocument(Leaf(v))
    BY LeafIs
  <1>5. IsDocument(Event(FALSE)) /\ IsDocument(Incident)
    BY EventIs, IncidentIs
  <1>6. IsDocument(events) /\ IsDocument(incidents) /\ IsDocument(BuildContext) /\ IsDocument(LossFields)
    BY <1>5, OneElement, BuildContextIs, LossFieldsIs
  <1>7. IsDocument(schema) /\ IsDocument(sdkVersion)
    BY <1>4
  <1>8. DOMAIN q = 1..1 /\ q[1] = Event(FALSE)
    OBVIOUS
  <1>9. /\ Elements(q) = Under(parts, "array")
        /\ DOMAIN parts \subseteq Parts /\ IsFiniteSet(DOMAIN parts)
        /\ first \in DOMAIN parts /\ parts[first] = Event(FALSE)
        /\ \A j \in DOMAIN parts : IsDocument(parts[j])
    <2> DEFINE n == 1
    <2>1. n \in Nat /\ n <= Len(Indices) /\ n \in 1..n /\ \A i \in 1..n : i = n
      BY <1>2
    <2>2. DOMAIN q = 1..n /\ q[n] = Event(FALSE) /\ first = Indices[n]
      BY <1>8
    <2> HIDE DEF q, first, n
    <2>3. /\ Elements(q) = Under(parts, "array")
          /\ DOMAIN parts \subseteq Parts /\ IsFiniteSet(DOMAIN parts)
          /\ \A i \in 1..n : Indices[i] \in DOMAIN parts /\ parts[Indices[i]] = q[i]
          /\ \A j \in DOMAIN parts : \E i \in 1..n : j = Indices[i]
      BY <2>1, <2>2, ItemsAre
    <2> HIDE DEF parts
    <2>4. first \in DOMAIN parts /\ parts[first] = Event(FALSE)
      BY <2>1, <2>2, <2>3
    <2>5. ASSUME NEW j \in DOMAIN parts PROVE IsDocument(parts[j])
      <3>1. PICK i \in 1..n : j = Indices[i]
        BY <2>3
      <3>2. j = first
        BY <2>1, <2>2, <3>1
      <3> QED BY <1>5, <2>4, <3>2
    <2> QED BY <2>3, <2>4, <2>5
  <1> HIDE DEF events, incidents, schema, sdkVersion, q, parts
  <1>10. \A j \in DOMAIN f : IsDocument(f[j])
    BY <1>4, <1>6, <1>7
  <1> HIDE DEF f, first
  <1>11. DOMAIN g \subseteq ReportKeys /\ \A j \in DOMAIN g : IsDocument(g[j])
    <2>1. DOMAIN g \subseteq ReportKeys
      BY DEF EventFields, ReportKeys
    <2> QED BY <2>1, FieldsOfEvent
  <1>12. Event(FALSE) = Under(r, "object")
    BY DEF Event, Fields
  <1>13. DOMAIN r = keys /\ \A j \in keys : r[j] = g[j]
    BY DEF Restrict
  <1> HIDE DEF g, r
  <1>14. k \in DOMAIN r /\ r[k] = g[k] /\ DOMAIN r \subseteq ReportKeys /\ \A j \in DOMAIN r : IsDocument(r[j])
    BY <1>11, <1>13 DEF g
  <1> HIDE DEF keys
  <1>15. k \in Parts /\ IsFiniteSet(DOMAIN r) /\ IsFiniteSet(DOMAIN f) /\ DOMAIN r \subseteq Parts /\ DOMAIN f \subseteq Parts
    BY <1>2, <1>3, <1>14, FS_Subset
  <1> DEFINE sk == <<k>>
             sf == <<first>>
  <1>16. sk \in Seq(Parts) /\ sf \in Seq(Parts) /\ sf \o sk \in Seq(Parts)
    <2>1. sk \in Seq(Parts) /\ sf \in Seq(Parts)
      BY <1>2, <1>15
    <2> QED BY <2>1, ConcatProperties
  <1>17. At(Under(r, "object"), sk) = g[k]
    <2>1. "object" \in Containers
      BY DEF Containers
    <2>2. <<>> \in Seq(Parts)
      OBVIOUS
    <2>3. At(Under(r, "object"), <<k>> \o <<>>) = At(r[k], <<>>)
      BY <1>14, <1>15, <2>1, <2>2, AtUnder
    <2>4. <<k>> \o <<>> = <<k>>
      BY <1>16, ConcatEmptySeq
    <2>5. At(g[k], <<>>) = g[k]
      BY <1>14, AtRoot DEF g
    <2> QED BY <1>14, <2>3, <2>4, <2>5
  <1>18. At(Under(parts, "array"), sf \o sk) = At(Event(FALSE), sk)
    <2>1. "array" \in Containers
      BY DEF Containers
    <2> HIDE DEF sk
    <2>2. At(Under(parts, "array"), <<first>> \o sk) = At(parts[first], sk)
      BY <1>9, <1>16, <2>1, AtUnder
    <2> QED BY <1>9, <2>2
  <1>19. At(Under(f, "object"), <<"events">> \o (sf \o sk)) = At(events, sf \o sk)
    <2>1. "object" \in Containers
      BY DEF Containers
    <2> HIDE DEF sk, sf
    <2>2. "events" \in DOMAIN f /\ f["events"] = events /\ sf \o sk \in Seq(Parts)
      BY <1>3, <1>16
    <2>3. At(Under(f, "object"), <<"events">> \o (sf \o sk)) = At(f["events"], sf \o sk)
      BY <1>10, <1>15, <2>1, <2>2, AtUnder
    <2> QED BY <2>2, <2>3
  <1>20. <<"events", first>> \o <<k>> = <<"events">> \o (sf \o sk)
    OBVIOUS
  <1>21. events = Under(parts, "array")
    BY <1>9 DEF events
  <1> HIDE DEF sk, sf
  <1>22. At(Document(FALSE), <<"events">> \o (sf \o sk)) = g[k]
    BY <1>1, <1>12, <1>17, <1>18, <1>19, <1>21
  <1> QED BY <1>20, <1>22 DEF first, g

(* A list of leaves has as many items as it was made of.                   *)
LEMMA ListCount ==
  ASSUME NEW doc, IsDocument(doc), NEW s \in Seq(Parts), NEW n \in Nat, n <= Len(Indices), NEW value,
         At(doc, s) = Elements([i \in 1..n |-> Leaf(value)])
  PROVE  Cardinality(Children(doc, s)) = n
  <1> DEFINE q == [i \in 1..n |-> Leaf(value)]
             parts == ItemsOf(q)
             items == Under(parts, "array")
             K == Children(doc, s)
             F == [i \in 1..n |-> s \o <<Indices[i]>>]
  <1>1. DOMAIN q = 1..n /\ \A i \in 1..n : q[i] = Leaf(value)
    OBVIOUS
  <1>2. IsDocument(Leaf(value)) /\ DOMAIN Leaf(value) = {<<>>}
    BY LeafIs
  <1>3. /\ \A i, j \in 1..Len(Indices) : Indices[i] = Indices[j] => i = j
        /\ \A i \in 1..n : i \in 1..Len(Indices) /\ Indices[i] \in Parts
    <2>1. /\ Indices \in Seq(Parts) /\ Len(Indices) \in Nat
          /\ \A i, j \in 1..Len(Indices) : Indices[i] = Indices[j] => i = j
      BY PartsAssumption, LenProperties DEF PartsAssumption
    <2>2. \A i \in 1..n : i \in 1..Len(Indices)
      BY <2>1
    <2> QED BY <2>1, <2>2, ElementOfSeq
  <1>4. At(doc, s) = Elements(q)
    OBVIOUS
  <1> HIDE DEF q
  <1>5. /\ Elements(q) = items /\ DOMAIN parts \subseteq Parts
        /\ \A i \in 1..n : Indices[i] \in DOMAIN parts /\ parts[Indices[i]] = q[i]
        /\ \A j \in DOMAIN parts : \E i \in 1..n : j = Indices[i]
    BY <1>1, ItemsAre
  <1> HIDE DEF parts
  <1>6. ASSUME NEW j \in DOMAIN parts PROVE parts[j] = Leaf(value) /\ IsDocument(parts[j])
    <2>1. PICK i \in 1..n : j = Indices[i]
      BY <1>5
    <2> QED BY <1>1, <1>2, <1>5, <2>1
  <1>7. Composed(items, "array", parts)
    BY <1>5, <1>6, UnderHas
  <1> HIDE DEF items
  <1>8. /\ \A m \in DOMAIN items : s \o m \in DOMAIN doc
        /\ \A m \in Seq(Parts) : s \o m \in DOMAIN doc => m \in DOMAIN items
    <2>1. At(doc, s) = items
      BY <1>4, <1>5
    <2> QED BY <2>1, AtIs
  <1>9. ASSUME NEW i \in 1..n
        PROVE  F[i] \in K /\ F[i][Len(s) + 1] = Indices[i]
    <2> DEFINE m == <<Indices[i]>>
    <2>1. m \in Seq(Parts) /\ Len(m) = 1 /\ m[1] = Indices[i] /\ 1 \in 1..1
      BY <1>3
    <2>2. m \in DOMAIN items
      <3>1. Indices[i] \in DOMAIN parts /\ <<>> \in DOMAIN parts[Indices[i]]
        BY <1>2, <1>5, <1>6
      <3>2. m \o <<>> = m
        BY <2>1, ConcatEmptySeq
      <3> QED BY <1>7, <3>1, <3>2 DEF Composed
    <2>3. F[i] = s \o m
      OBVIOUS
    <2> HIDE DEF m, F, K
    <2>4. /\ s \o m \in DOMAIN doc /\ Len(s \o m) = Len(s) + 1 /\ IsPrefix(s, s \o m)
          /\ (s \o m)[Len(s) + 1] = m[1]
      BY <1>8, <2>1, <2>2, Joined
    <2> QED BY <2>1, <2>3, <2>4 DEF K, Children
  <1>10. DOMAIN F = 1..n /\ \A i, j \in 1..n : F[i] = F[j] => i = j
    <2>1. DOMAIN F = 1..n
      OBVIOUS
    <2> HIDE DEF F
    <2> QED BY <1>3, <1>9, <2>1
  <1>11. ASSUME NEW c \in K PROVE \E i \in 1..n : c = F[i]
    <2> DEFINE m == SubSeq(c, Len(s) + 1, Len(c))
    <2>1. c \in DOMAIN doc /\ c \in Seq(Parts) /\ Len(c) = Len(s) + 1 /\ IsPrefix(s, c)
      BY DEF Children, IsDocument
    <2>2. m \in Seq(Parts) /\ c = s \o m /\ Len(c) = Len(s) + Len(m) /\ Len(m) \in Nat /\ Len(s) \in Nat
      BY <2>1, SplitAt, LenProperties
    <2> HIDE DEF m
    <2>3. Len(m) = 1 /\ m \in DOMAIN items
      <3>1. Len(m) = 1
        <4>1. \A a, b \in Nat : a + 1 = a + b => b = 1
          OBVIOUS
        <4>2. Len(s) + 1 = Len(s) + Len(m)
          BY <2>1, <2>2, Zenon
        <4> QED BY <2>2, <4>1, <4>2, Zenon
      <3>2. s \o m \in DOMAIN doc
        BY <2>1, <2>2
      <3> QED BY <1>8, <2>2, <3>1, <3>2
    <2>4. m # <<>>
      <3>1. m = <<>> => Len(m) = 0
        BY <2>2, EmptySeq
      <3> QED BY <2>3, <3>1
    <2>5. PICK j \in DOMAIN parts : \E o \in DOMAIN parts[j] : m = <<j>> \o o
      BY <1>7, <2>3, <2>4 DEF Composed
    <2>6. m = <<j>>
      <3>1. PICK o \in DOMAIN parts[j] : m = <<j>> \o o
        BY <2>5
      <3>2. o = <<>> /\ <<j>> \in Seq(Parts)
        BY <1>2, <1>5, <1>6
      <3> QED BY <3>1, <3>2, ConcatEmptySeq
    <2>7. PICK i \in 1..n : j = Indices[i]
      BY <1>5
    <2>8. c = F[i]
      BY <2>2, <2>6, <2>7
    <2> QED BY <2>8
  <1> HIDE DEF F, K
  <1>12. Cardinality(K) = n
    BY <1>9, <1>10, <1>11, FamilyCount
  <1> QED BY <1>12 DEF K

LEMMA TwoParts ==
  ASSUME NEW a \in Parts, NEW b \in Parts
  PROVE  <<a>> \in Seq(Parts) /\ <<a>> \o <<b>> = <<a, b>>
  <1> DEFINE s == <<a>>
             t == <<b>>
             u == <<a, b>>
  <1>1. /\ s \in Seq(Parts) /\ t \in Seq(Parts) /\ u \in Seq(Parts)
        /\ Len(s) = 1 /\ Len(t) = 1 /\ Len(u) = 2
        /\ s[1] = a /\ t[1] = b /\ u[1] = a /\ u[2] = b
    OBVIOUS
  <1> HIDE DEF s, t, u
  <1>2. /\ s \o t \in Seq(Parts) /\ Len(s \o t) = Len(s) + Len(t)
        /\ \A i \in 1..Len(s) : (s \o t)[i] = s[i]
        /\ \A i \in 1..Len(t) : (s \o t)[Len(s) + i] = t[i]
    <2>1. s \in Seq(Parts) /\ t \in Seq(Parts)
      BY <1>1
    <2> QED BY <2>1, Joined
  <1>3. (s \o t)[1] = a /\ (s \o t)[2] = b
    <2>1. 1 \in 1..Len(s) /\ 1 \in 1..Len(t) /\ Len(s) + 1 = 2
      BY <1>1
    <2>2. (s \o t)[1] = s[1] /\ (s \o t)[Len(s) + 1] = t[1]
      BY <1>2, <2>1
    <2> QED BY <1>1, <2>1, <2>2
  <1>4. \A i \in 1..2 : (s \o t)[i] = u[i]
    <2>1. \A i \in 1..2 : i = 1 \/ i = 2
      OBVIOUS
    <2> QED BY <1>1, <1>3, <2>1
  <1>5. s \o t = u
    <2>1. Len(s \o t) = Len(u) /\ \A i \in 1..Len(u) : (s \o t)[i] = u[i]
      BY <1>1, <1>2, <1>4
    <2> QED BY <1>1, <1>2, <2>1, SeqEqual
  <1> QED BY <1>1, <1>5 DEF s, t, u

LEMMA ThreeParts ==
  ASSUME NEW a \in Seq(Parts), NEW b \in Seq(Parts), NEW c \in Seq(Parts)
  PROVE  (a \o b) \o c = a \o (b \o c)
  BY ConcatAssociative

LEMMA FourParts ==
  ASSUME NEW a \in Seq(Parts), NEW b \in Seq(Parts), NEW c \in Seq(Parts), NEW d \in Seq(Parts)
  PROVE  (a \o (b \o c)) \o d = (a \o b) \o (c \o d)
  <1>1. a \o b \in Seq(Parts)
    BY ConcatProperties
  <1>2. ((a \o b) \o c) \o d = (a \o b) \o (c \o d)
    BY <1>1, ThreeParts
  <1>3. (a \o b) \o c = a \o (b \o c)
    BY ThreeParts
  <1> QED BY <1>2, <1>3

(* LossSaid of a document.                                                 *)
Says(doc) ==
  LET event == <<"events", Indices[1]>>
      has(node, d) == \A n \in DOMAIN d : doc[event \o node \o n] = d[n]
  IN  /\ Empty(raw.evidence) \/ At(doc, event \o <<"evidence">>) = raw.evidence
      /\ raw.failed => has(<<"primaryError">>, raw.error)
      /\ \A i \in DOMAIN raw.secondary : has(<<"secondaryErrors", Indices[i]>>, raw.secondary[i])
      /\ Cardinality(Children(doc, event \o <<"ruleReferenceHashes">>)) = raw.rules

LEMMA DocumentSays ==
  ASSUME RawOK, NEW bulky \in BOOLEAN, Loss(bulky) = [redacted |-> 0, truncated |-> 0]
  PROVE  Says(Document(bulky))
  <1> DEFINE doc == Document(FALSE)
             g == EventFields(FALSE)
             event == <<"events", Indices[1]>>
  <1>1. /\ ~bulky
        /\ RetentionLoss(raw.evidence).redacted = 0 /\ RetentionLoss(raw.evidence).truncated = 0
        /\ raw.rules <= Widths.items /\ Len(raw.secondary) <= Widths.causes
        /\ \A i \in 1..Len(FirstErrors) : ErrorCuts(FirstErrors[i]) = 0
        /\ raw.failed => ErrorCuts(raw.error) = 0
    BY LossIs DEF NothingLost
  <1>2. /\ IsDocument(raw.evidence) /\ IsMapping(raw.evidence) /\ IsError(raw.error) /\ raw.rules \in Nat
        /\ raw.secondary \in Seq(Range(raw.secondary))
    BY EventsAssumption DEF EventsAssumption, RawOK, IsMapping
  <1>3. /\ Indices \in Seq(Parts) /\ Len(Indices) \in Nat /\ Len(Indices) >= 1
        /\ Len(Indices) >= Widths.items /\ Widths.items \in Nat
        /\ Widths.causes \in Nat /\ Widths.members \in Nat /\ ReportKeys \subseteq Parts
        /\ \A i \in 1..Len(Indices) : Indices[i] \in Parts
    BY PartsAssumption, LenProperties, ElementOfSeq DEF PartsAssumption
  <1>4. /\ event \in Seq(Parts)
        /\ \A k \in {"evidence", "primaryError", "secondaryErrors", "ruleReferenceHashes"} :
             k \in Parts /\ event \o <<k>> \in Seq(Parts)
    <2>1. 1 \in 1..Len(Indices)
      BY <1>3
    <2>2. "events" \in Parts /\ Indices[1] \in Parts
      BY <1>3, <2>1 DEF ReportKeys
    <2>3. event \in Seq(Parts)
      BY <2>2
    <2>4. \A k \in {"evidence", "primaryError", "secondaryErrors", "ruleReferenceHashes"} : k \in Parts
      BY <1>3 DEF ReportKeys
    <2> HIDE DEF event
    <2> QED BY <2>3, <2>4, ConcatProperties
  <1>5. IsDocument(doc)
    BY DocumentIs
  <1>6. ASSUME NEW k \in {"evidence", "primaryError", "secondaryErrors", "ruleReferenceHashes"}, IsMapping(g[k])
        PROVE  /\ At(doc, event \o <<k>>) = g[k]
               /\ \A m \in DOMAIN g[k] : doc[event \o <<k>> \o m] = g[k][m]
    <2>1. k \in DOMAIN g /\ k # "evidenceUnavailableReason"
      BY DEF EventFields
    <2>2. At(doc, event \o <<k>>) = g[k]
      BY <1>6, <2>1, FieldAt
    <2> DEFINE s == event \o <<k>>
    <2>3. s \in Seq(Parts)
      BY <1>4
    <2> HIDE DEF doc, g, event, s
    <2>4. \A m \in DOMAIN At(doc, s) : At(doc, s)[m] = doc[s \o m]
      BY <1>5, <2>3, AtIs
    <2>5. At(doc, s) = g[k]
      BY <2>2 DEF s
    <2>6. \A m \in DOMAIN g[k] : doc[s \o m] = g[k][m]
      BY <2>4, <2>5
    <2> QED BY <2>2, <2>6 DEF s
  <1>7. Empty(raw.evidence) \/ At(doc, event \o <<"evidence">>) = raw.evidence
    <2>1. CASE profile = "LEAN"
      <3>1. RetentionLoss(raw.evidence) = [redacted |-> IF Empty(raw.evidence) THEN 0 ELSE 1, truncated |-> 0]
        BY <2>1 DEF RetentionLoss
      <3>2. ~Empty(raw.evidence) => RetentionLoss(raw.evidence) = [redacted |-> 1, truncated |-> 0]
        BY <3>1, Zenon
      <3>3. [redacted |-> 1, truncated |-> 0].redacted # 0
        OBVIOUS
      <3> QED BY <1>1, <3>2, <3>3, Zenon
    <2>2. CASE profile # "LEAN"
      <3>1. EvidenceRule.depth \in Nat
        BY DEF EvidenceRule
      <3>2. Shown(raw.evidence, EvidenceRule) = raw.evidence
        BY <1>1, <1>2, <2>2, <3>1, ShownWhole DEF RetentionLoss
      <3>3. g["evidence"] = raw.evidence
        BY <2>2, <3>2 DEF EventFields, Retained
      <3> QED BY <1>2, <1>6, <3>3
    <2> QED BY <2>1, <2>2
  <1>8. ASSUME raw.failed, NEW m \in DOMAIN raw.error
        PROVE  doc[event \o <<"primaryError">> \o m] = raw.error[m]
    <2>1. g["primaryError"] = SafeError(raw.error)
      BY <1>8 DEF EventFields, PrimaryError
    <2>2. IsMapping(SafeError(raw.error))
      BY DEF IsMapping, SafeError
    <2>3. m \in DOMAIN SafeError(raw.error) /\ SafeError(raw.error)[m] = raw.error[m]
      BY <1>1, <1>2, <1>8, SafeErrorWhole
    <2> HIDE DEF g, doc, event
    <2> QED BY <1>6, <2>1, <2>2, <2>3
  <1>9. ASSUME NEW i \in DOMAIN raw.secondary, NEW m \in DOMAIN raw.secondary[i]
        PROVE  doc[event \o <<"secondaryErrors", Indices[i]>> \o m] = raw.secondary[i][m]
    <2> DEFINE n == Len(FirstErrors)
               q == [j \in DOMAIN FirstErrors |-> SafeError(FirstErrors[j])]
               parts == ItemsOf(q)
               sl == <<"secondaryErrors">>
               si == <<Indices[i]>>
    <2>1. FirstErrors = raw.secondary
      <3> DEFINE s == raw.secondary
                 k == Min({Len(s), Widths.causes})
      <3>1. s \in Seq(Range(s)) /\ Len(s) \in Nat
        BY <1>2, LenProperties
      <3>2. k \in {Len(s), Widths.causes} /\ \A o \in {Len(s), Widths.causes} : k <= o
        BY <1>3, <3>1, MinHolds
      <3>3. k = Len(s)
        <4> HIDE DEF k
        <4> QED BY <1>1, <1>3, <3>1, <3>2
      <3>4. SubSeq(s, 1, Len(s)) = s
        BY <3>1, SubSeqFull
      <3> QED BY <3>3, <3>4 DEF FirstErrors
    <2>2. /\ n \in Nat /\ n <= Len(Indices) /\ DOMAIN FirstErrors = 1..n
          /\ \A j \in 1..n : IsError(FirstErrors[j])
      BY FirstErrorsAre
    <2>3. DOMAIN q = 1..n /\ i \in 1..n /\ q[i] = SafeError(raw.secondary[i])
      BY <2>1, <2>2
    <2>4. \A j \in 1..n : IsDocument(q[j])
      BY <2>2, SafeErrorIs
    <2>5. m \in DOMAIN q[i] /\ q[i][m] = raw.secondary[i][m]
      <3>1. IsError(raw.secondary[i]) /\ ErrorCuts(raw.secondary[i]) = 0
        BY <1>1, <2>1, <2>2, <2>3
      <3> QED BY <2>3, <3>1, SafeErrorWhole
    <2>6. g["secondaryErrors"] = Elements(q)
      BY DEF EventFields, SecondaryErrors
    <2> HIDE DEF q, n, g, doc
    <2>7. /\ Elements(q) = Under(parts, "array") /\ DOMAIN parts \subseteq Parts
          /\ \A j \in 1..n : Indices[j] \in DOMAIN parts /\ parts[Indices[j]] = q[j]
          /\ \A k \in DOMAIN parts : \E j \in 1..n : k = Indices[j]
      BY <2>2, <2>3, ItemsAre
    <2> HIDE DEF parts
    <2>8. \A k \in DOMAIN parts : IsDocument(parts[k])
      BY <2>4, <2>7
    <2>9. Composed(Elements(q), "array", parts)
      BY <2>7, <2>8, UnderHas
    <2>10. si \o m \in DOMAIN Elements(q) /\ Elements(q)[si \o m] = q[i][m] /\ IsMapping(Elements(q))
      <3>1. Indices[i] \in DOMAIN parts /\ m \in DOMAIN parts[Indices[i]] /\ parts[Indices[i]] = q[i]
        BY <2>3, <2>5, <2>7
      <3> QED BY <2>9, <3>1 DEF Composed
    <2>11. doc[(event \o sl) \o (si \o m)] = q[i][m]
      <3> HIDE DEF event, si
      <3>1. \A o \in DOMAIN g["secondaryErrors"] : doc[(event \o sl) \o o] = g["secondaryErrors"][o]
        BY <1>6, <2>6, <2>10
      <3> QED BY <2>6, <2>10, <3>1
    <2>12. (event \o sl) \o (si \o m) = event \o <<"secondaryErrors", Indices[i]>> \o m
      <3>1. Indices[i] \in Parts /\ "secondaryErrors" \in Parts /\ m \in Seq(Parts)
        <4>1. m \in Seq(Parts)
          BY <2>3, <2>4, <2>5 DEF IsDocument
        <4>2. i \in 1..Len(Indices)
          BY <1>3, <2>2, <2>3
        <4> QED BY <1>3, <1>4, <4>1, <4>2
      <3>2. ASSUME NEW a \in Parts, NEW b \in Parts PROVE <<a>> \in Seq(Parts) /\ <<a>> \o <<b>> = <<a, b>>
        BY TwoParts
      <3>3. sl \in Seq(Parts) /\ si \in Seq(Parts) /\ sl \o si = <<"secondaryErrors", Indices[i]>>
        BY <3>1, <3>2
      <3> HIDE DEF sl, si, event
      <3>4. (event \o sl) \o (si \o m) = event \o (sl \o si) \o m
        <4>1. event \in Seq(Parts) /\ sl \in Seq(Parts) /\ si \in Seq(Parts) /\ m \in Seq(Parts)
          BY <1>4, <3>1, <3>3
        <4>2. (event \o (sl \o si)) \o m = (event \o sl) \o (si \o m)
          <5>1. \A a, b, c, d \in Seq(Parts) : (a \o (b \o c)) \o d = (a \o b) \o (c \o d)
            BY FourParts
          <5> QED BY <4>1, <5>1, SMTT(60)
        <4> QED BY <4>2
      <3> QED BY <3>3, <3>4, Zenon
    <2> QED BY <2>5, <2>11, <2>12
  <1>10. Cardinality(Children(doc, event \o <<"ruleReferenceHashes">>)) = raw.rules
    <2> DEFINE n == Min({raw.rules, Widths.items})
               q == [i \in 1..n |-> Leaf("hash")]
    <2>1. n \in {raw.rules, Widths.items} /\ n <= raw.rules /\ n <= Widths.items
      BY <1>2, <1>3, MinHolds
    <2>2. g["ruleReferenceHashes"] = Elements(q)
      BY DEF EventFields
    <2> HIDE DEF n
    <2>3. n = raw.rules /\ n \in Nat /\ n <= Len(Indices)
      BY <1>1, <1>2, <1>3, <2>1
    <2>4. IsMapping(Elements(q))
      <3>1. \A p, kind : IsMapping(Under(p, kind))
        BY DEF IsMapping, Under
      <3> HIDE DEF q
      <3> QED BY <3>1 DEF Elements
    <2> HIDE DEF g
    <2>5. At(doc, event \o <<"ruleReferenceHashes">>) = Elements(q)
      BY <1>6, <2>2, <2>4
    <2> HIDE DEF doc, event
    <2>6. event \o <<"ruleReferenceHashes">> \in Seq(Parts)
      BY <1>4
    <2>7. Cardinality(Children(doc, event \o <<"ruleReferenceHashes">>)) = n
      BY <1>5, <2>3, <2>5, <2>6, ListCount
    <2> QED BY <2>3, <2>7
  <1>11. Document(bulky) = doc
    BY <1>1
  <1> HIDE DEF doc
  <1>12. Says(doc)
    BY <1>7, <1>8, <1>9, <1>10, Zenon DEF Says
  <1> QED BY <1>11, <1>12

-------------------------------------------------------------------------------
(* The report's invariant.  That a report is clean follows from its making *)
(* alone, but only for a document, a tree: cleaning cuts at a node what is *)
(* below it.  So the snapshot has to be one, when it is captured and after *)
(* the host has put something in the place of a part of it.                *)
ReportInv ==
  /\ RawOK /\ tampered \in BOOLEAN
  /\ loss.redacted \in Nat /\ loss.truncated \in Nat
  /\ IsDocument(snapshot)
  /\ report.made \in {"no", "refused", "oversized", "yes"}
  /\ report.made = "yes" =>
       Clear(report.document) /\ \A n \in DOMAIN report.document : CleanAt(report.document, n)

LEMMA ReportInitInv ==
  ReportInit => ReportInv
  <1> SUFFICES ASSUME ReportInit PROVE ReportInv
    OBVIOUS
  <1>1. RawOK /\ tampered \in BOOLEAN /\ report.made = "no"
    BY DEF ReportInit, RawOK
  <1>2. loss.redacted \in Nat /\ loss.truncated \in Nat
    BY DEF ReportInit
  <1>3. IsDocument(snapshot)
    <2>1. snapshot = <<>> /\ DOMAIN <<>> = {}
      BY DEF ReportInit
    <2> QED BY <2>1, FS_EmptySet DEF IsDocument, IsTree
  <1> QED BY <1>1, <1>2, <1>3 DEF ReportInv

LEMMA CaptureInv ==
  ASSUME ReportInv, NEW bulky \in BOOLEAN, Capture(bulky)
  PROVE  ReportInv'
  <1>1. RawOK /\ RawOK'
    BY DEF ReportInv, Capture, RawOK
  <1>2. IsDocument(snapshot')
    BY <1>1, DocumentIs DEF Capture
  <1>3. loss'.redacted \in Nat /\ loss'.truncated \in Nat
    BY <1>1, LossIs DEF Capture
  <1> QED BY <1>1, <1>2, <1>3 DEF ReportInv, Capture

LEMMA TamperInv ==
  ASSUME ReportInv, NEW t \in Tamperings, Tamper(t.node, t.value)
  PROVE  ReportInv'
  <1> DEFINE node == t.node
             cut == Restrict(snapshot, {n \in DOMAIN snapshot : ~IsPrefix(node, n)})
             at == [n \in {node} |-> t.value]
  <1>1. node \in Seq(Parts) /\ IsDocument(t.value)
    BY TamperingsAssumption DEF TamperingsAssumption
  <1>2. /\ DOMAIN cut = {n \in DOMAIN snapshot : ~IsPrefix(node, n)}
        /\ \A n \in DOMAIN cut : cut[n] = snapshot[n]
    BY DEF Restrict
  <1>3. Front(node) \in DOMAIN snapshot /\ snapshot[Front(node)] \in Containers
    BY DEF Tamper
  <1>4. DOMAIN snapshot \subseteq Seq(Parts) /\ IsFiniteSet(DOMAIN snapshot) /\ IsTree(snapshot)
    BY DEF ReportInv, IsDocument
  <1>5. DOMAIN at = {node} /\ at[node] = t.value
    OBVIOUS
  <1>6. snapshot' = Graft(cut, at)
    BY DEF Tamper
  <1> HIDE DEF cut, at, node
  <1>7. ASSUME NEW n \in DOMAIN cut, n # <<>> PROVE Front(n) \in DOMAIN cut /\ cut[Front(n)] \in Containers
    <2>1. n \in DOMAIN snapshot /\ ~IsPrefix(node, n) /\ n \in Seq(Parts)
      BY <1>2, <1>4
    <2>2. Front(n) \in DOMAIN snapshot /\ snapshot[Front(n)] \in Containers
      BY <1>4, <1>7, <2>1 DEF IsTree
    <2>3. IsPrefix(Front(n), n) /\ Front(n) \in Seq(Parts)
      BY <1>7, <2>1, FrontIs
    <2>4. ~IsPrefix(node, Front(n))
      BY <1>1, <2>1, <2>3, PrefixTransitive
    <2> QED BY <1>2, <2>2, <2>4
  <1>8. IsDocument(cut)
    <2>1. IsFiniteSet(DOMAIN cut)
      BY <1>2, <1>4, FS_Subset
    <2> QED BY <1>2, <1>4, <1>7, <2>1 DEF IsDocument, IsTree
  <1>9. Apart(at)
    BY <1>1, <1>5 DEF Apart, IsDocument
  <1>10. IsFiniteSet(DOMAIN at) /\ \A s \in DOMAIN at : IsDocument(at[s])
    BY <1>1, <1>5, FS_Singleton
  <1>11. node # <<>> => Front(node) \in DOMAIN cut /\ cut[Front(node)] \in Containers
    <2> SUFFICES ASSUME node # <<>> PROVE Front(node) \in DOMAIN cut /\ cut[Front(node)] \in Containers
      OBVIOUS
    <2>1. Front(node) \in Seq(Parts) /\ Len(Front(node)) = Len(node) - 1 /\ Len(node) \in Nat
      BY <1>1, FrontIs
    <2>2. ~IsPrefix(node, Front(node))
      <3>1. IsPrefix(node, Front(node)) => Len(node) <= Len(Front(node))
        BY <1>1, <2>1, PrefixByElements
      <3> QED BY <2>1, <3>1
    <2> QED BY <1>2, <1>3, <2>2
  <1>12. IsDocument(Graft(cut, at))
    BY <1>5, <1>8, <1>9, <1>10, <1>11, GraftTree
  <1>13. UNCHANGED <<raw, profile, loss, report>> /\ tampered' = TRUE
    BY DEF Tamper
  <1> QED BY <1>6, <1>12, <1>13 DEF ReportInv, RawOK

LEMMA MakeInv ==
  ASSUME ReportInv, NEW fits \in BOOLEAN, MakeDiagnosticExport(fits)
  PROVE  ReportInv'
  <1> DEFINE doc == Checked(snapshot)
             made == [made |-> "yes", document |-> doc, redactions |-> CheckedRedactions(snapshot)]
  <1>1. IsDocument(snapshot)
    BY DEF ReportInv
  <1>2. Clear(doc)
    BY <1>1, CheckedIsClear
  <1>3. \A n \in DOMAIN doc : CleanAt(doc, n)
    BY <1>1, CheckedIsClean
  <1>4. report' \in {[made |-> "refused"], [made |-> "oversized"], made}
    BY DEF MakeDiagnosticExport
  <1>5. made.made = "yes" /\ made.document = doc
    OBVIOUS
  <1> HIDE DEF doc, made
  <1>6. /\ report'.made \in {"no", "refused", "oversized", "yes"}
        /\ report'.made = "yes" =>
             Clear(report'.document) /\ \A n \in DOMAIN report'.document : CleanAt(report'.document, n)
    BY <1>2, <1>3, <1>4, <1>5
  <1>7. UNCHANGED <<raw, profile, snapshot, loss, tampered>>
    BY DEF MakeDiagnosticExport
  <1> QED BY <1>6, <1>7 DEF ReportInv, RawOK

LEMMA ReportNextInv ==
  ASSUME ReportInv, [ReportNext]_reportVars
  PROVE  ReportInv'
  <1>1. ASSUME NEW bulky \in BOOLEAN, Capture(bulky) PROVE ReportInv'
    BY <1>1, CaptureInv
  <1>2. ASSUME NEW t \in Tamperings, Tamper(t.node, t.value) PROVE ReportInv'
    BY <1>2, TamperInv
  <1>3. ASSUME NEW fits \in BOOLEAN, MakeDiagnosticExport(fits) PROVE ReportInv'
    BY <1>3, MakeInv
  <1>4. CASE UNCHANGED reportVars
    BY <1>4 DEF ReportInv, RawOK, reportVars
  <1> QED BY <1>1, <1>2, <1>3, <1>4 DEF ReportNext

LEMMA ReportInvImplies ==
  ReportInv => ReportClean
  <1> SUFFICES ASSUME ReportInv PROVE ReportClean
    OBVIOUS
  <1>1. ReportTypeOK
    BY DEF ReportInv, RawOK, ReportTypeOK, IsDocument, Clear
  <1>2. NothingLeaks
    <2> SUFFICES ASSUME report.made = "yes", NEW n \in DOMAIN report.document
                 PROVE  LET doc == report.document
                            evidence(m) == \E i \in 1..Len(m) - 1 : m[i] = "evidence"
                            rule(m) == IF evidence(m) THEN EvidenceRule ELSE ReportRule
                        IN  /\ doc[n] \in Containers \cup (IF evidence(n) \/ (n # <<>> /\ Last(n) = "evidence")
                                                           THEN EvidenceRule.leaves ELSE ReportRule.leaves)
                            /\ n # <<>> /\ doc[Front(n)] = "object" => Last(n) \in rule(n).keys
                            /\ Len(n) <= ReportRule.depth + EvidenceRule.depth + 2
      BY DEF NothingLeaks
    <2>1. CleanAt(report.document, n)
      BY DEF ReportInv
    <2> QED BY <2>1 DEF CleanAt, Evident
  <1> QED BY <1>1, <1>2 DEF ReportClean

(* A report is a tree, and says nothing that is not on the lists: whatever *)
(* event was captured, however long the lists are and whatever the host    *)
(* wrote into the snapshot, makeDiagnosticExport leaves only the listed    *)
(* keys and values, by the one rule outside evidence and by the other in   *)
(* it, and no node is deeper than both together allow.                     *)
THEOREM ReportsAreClean == ReportSpec => []ReportClean
  <1>1. ReportInit => ReportInv
    BY ReportInitInv
  <1>2. ReportInv /\ [ReportNext]_reportVars => ReportInv'
    BY ReportNextInv
  <1>3. ReportInv => ReportClean
    BY ReportInvImplies
  <1> QED BY <1>1, <1>2, <1>3, PTL DEF ReportSpec

(* What the report of a snapshot repeats: the check leaves it as it is, and*)
(* it can be rendered.                                                     *)
Repeatable == Clear(snapshot) /\ Supported(snapshot) /\ Rendered(snapshot)

FaithfulInv ==
  /\ ReportInv /\ ExportRepeatsCapture /\ LossSaid
  /\ snapshot # <<>> /\ ~tampered /\ raw.utc = "utc" => Repeatable
  /\ report.made # "no" => snapshot # <<>>

LEMMA FaithfulInitInv ==
  ReportInit => FaithfulInv
  <1> SUFFICES ASSUME ReportInit PROVE FaithfulInv
    OBVIOUS
  <1>1. snapshot = <<>> /\ report.made = "no"
    BY DEF ReportInit
  <1> QED BY <1>1, ReportInitInv DEF FaithfulInv, ExportRepeatsCapture, LossSaid

LEMMA FaithfulCaptureInv ==
  ASSUME FaithfulInv, NEW bulky \in BOOLEAN, Capture(bulky)
  PROVE  FaithfulInv'
  <1> DEFINE doc == Document(bulky)
  <1>1. ReportInv /\ ReportInv' /\ RawOK
    BY CaptureInv DEF FaithfulInv, ReportInv
  <1>2. /\ snapshot = <<>> /\ snapshot' = doc
        /\ raw' = raw /\ tampered' = tampered /\ report' = report
    BY DEF Capture
  <1>3. report.made = "no"
    BY <1>2 DEF FaithfulInv
  <1>4. raw.utc = "utc" => Clear(doc) /\ Supported(doc) /\ Rendered(doc)
    BY <1>1, DocumentClear, DocumentRenders
  <1>5. loss' = [redacted |-> 0, truncated |-> 0] => Says(doc)
    BY <1>1, DocumentSays DEF Capture
  <1> HIDE DEF doc
  <1>6. raw.utc = "utc" => Repeatable'
    BY <1>2, <1>4 DEF Repeatable
  <1>7. ExportRepeatsCapture'
    BY <1>2, <1>3 DEF ExportRepeatsCapture
  <1>8. LossSaid'
    <2> SUFFICES ASSUME loss' = [redacted |-> 0, truncated |-> 0] PROVE Says(snapshot)'
      BY DEF LossSaid, Says
    <2>1. Says(doc)
      BY <1>5
    <2> QED BY <1>2, <2>1 DEF Says
  <1> QED BY <1>1, <1>2, <1>3, <1>6, <1>7, <1>8 DEF FaithfulInv

LEMMA FaithfulMakeInv ==
  ASSUME FaithfulInv, NEW fits \in BOOLEAN, MakeDiagnosticExport(fits)
  PROVE  FaithfulInv'
  <1> DEFINE doc == Checked(snapshot)
             made == [made |-> "yes", document |-> doc, redactions |-> CheckedRedactions(snapshot)]
  <1>1. ReportInv' /\ UNCHANGED <<raw, profile, snapshot, loss, tampered>> /\ snapshot # <<>>
    BY MakeInv DEF FaithfulInv, MakeDiagnosticExport
  <1>2. ExportRepeatsCapture'
    <2> SUFFICES ASSUME ~tampered, raw.utc = "utc"
                 PROVE  /\ report'.made # "refused"
                        /\ report'.made = "yes" => report'.document = snapshot /\ report'.redactions = 0
      BY <1>1 DEF ExportRepeatsCapture
    <2>1. Clear(snapshot) /\ Supported(snapshot) /\ Rendered(snapshot)
      BY <1>1 DEF FaithfulInv, Repeatable
    <2>2. doc = snapshot /\ CheckedRedactions(snapshot) = 0
      BY <2>1, ClearStays
    <2>3. report' \in {[made |-> "oversized"], made}
      BY <2>1, <2>2 DEF MakeDiagnosticExport
    <2>4. made.made = "yes" /\ made.document = snapshot /\ made.redactions = 0
      BY <2>2
    <2> HIDE DEF made
    <2> QED BY <2>3, <2>4
  <1>3. Repeatable => Repeatable'
    BY <1>1 DEF Repeatable
  <1>4. LossSaid'
    BY <1>1 DEF FaithfulInv, LossSaid
  <1> QED BY <1>1, <1>2, <1>3, <1>4 DEF FaithfulInv

LEMMA FaithfulNextInv ==
  ASSUME FaithfulInv, [ReportNext]_reportVars
  PROVE  FaithfulInv'
  <1>1. ASSUME NEW bulky \in BOOLEAN, Capture(bulky) PROVE FaithfulInv'
    BY <1>1, FaithfulCaptureInv
  <1>2. ASSUME NEW t \in Tamperings, Tamper(t.node, t.value) PROVE FaithfulInv'
    <2>1. ReportInv' /\ tampered' = TRUE /\ report' = report /\ report.made = "no"
      BY <1>2, TamperInv DEF FaithfulInv, Tamper
    <2> QED BY <2>1 DEF FaithfulInv, ExportRepeatsCapture, LossSaid
  <1>3. ASSUME NEW fits \in BOOLEAN, MakeDiagnosticExport(fits) PROVE FaithfulInv'
    BY <1>3, FaithfulMakeInv
  <1>4. CASE UNCHANGED reportVars
    <2>1. ReportInv'
      BY <1>4, ReportNextInv DEF FaithfulInv
    <2>2. UNCHANGED <<raw, snapshot, tampered, report, loss>>
      BY <1>4 DEF reportVars
    <2>3. LossSaid'
      BY <2>2 DEF FaithfulInv, LossSaid
    <2> QED BY <2>1, <2>2, <2>3 DEF FaithfulInv, Repeatable, ExportRepeatsCapture
  <1> QED BY <1>1, <1>2, <1>3, <1>4 DEF ReportNext

(* A report is faithful, for every event, lists of any length and whatever *)
(* the host wrote (takeSnapshot, then makeDiagnosticExport).  The report of*)
(* a snapshot nobody edited repeats it: what the collector puts in a       *)
(* document passes the second rule, evidence in it its own, and the report *)
(* is neither refused nor claims a redaction.  A report that is read back  *)
(* and checked again changes no more: what the check removed made lists    *)
(* shorter and nodes less deep, never the reverse, and each rule admits    *)
(* what it writes in the place of what it removes.  And if the capture     *)
(* counted nothing, all the event's evidence, errors and rules are there.  *)
THEOREM ReportsStayFaithful == ReportSpec => []ReportFaithful
  <1>1. ReportInit => FaithfulInv
    BY FaithfulInitInv
  <1>2. FaithfulInv /\ [ReportNext]_reportVars => FaithfulInv'
    BY FaithfulNextInv
  <1>3. FaithfulInv => ReportFaithful
    BY ClearStays DEF FaithfulInv, ReportInv, ExportSettles, ReportFaithful
  <1> QED BY <1>1, <1>2, <1>3, PTL DEF ReportSpec
================================================================================
