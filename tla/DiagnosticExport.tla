----------------------------- MODULE DiagnosticExport -----------------------------
(***************************************************************************)
(* exportDiagnosticBundle (Diagnostics.cpp): a diagnostic report is a pair *)
(* of files that is written to a staging directory of its own, read back,  *)
(* and renamed to the destination.  No lock is taken: calls of any threads *)
(* and processes, and whoever else creates a directory of that name, meet  *)
(* at the destination.                                                     *)
(*                                                                         *)
(* A file is absent, cut off or whole.  The writer may be the host's, and  *)
(* may say it wrote what it did not.  A rename onto a directory fails.     *)
(***************************************************************************)
EXTENDS Naturals, FiniteSets

CONSTANTS
  Calls,     \* of exportDiagnosticBundle, all to one destination
  Other,     \* who else creates the destination
  Absent,    \* no directory
  Faults     \* "host", "crash", "other"

Files == {"json", "markdown"}

(* Who made a directory, and what its files hold.                          *)
Directories == [by : Calls \cup {Other}, holds : [Files -> {"none", "part", "whole"}]]

ASSUME CallsAssumption == Other \notin Calls /\ Absent \notin Directories
ASSUME FaultsAssumption == Faults \subseteq {"host", "crash", "other"}

VARIABLES
  destination, staging,  \* the directory there; per call, its own
  pc,
  result                 \* per call: complete, and the paths it reports

vars == <<destination, staging, pc, result>>

Checking(f) == IF f = "json" THEN "check json" ELSE "check markdown"
AfterCheck(f) == IF f = "json" THEN "markdown" ELSE "rename"

Whole(d) == \A f \in Files : d.holds[f] = "whole"

(* The staging directory of a call is its own, and the files it has passed *)
(* are whole.                                                              *)
OwnPair(c) ==
  /\ staging[c] # Absent => staging[c].by = c
  /\ pc[c] \in {"json", "check json", "markdown", "check markdown", "rename"} =>
       staging[c] # Absent
  /\ pc[c] \in {"markdown", "check markdown", "rename"} =>
       staging[c].holds["json"] = "whole"
  /\ pc[c] = "rename" => staging[c].holds["markdown"] = "whole"

(* TypeOK: the types, each call works in a directory of its own, and holds *)
(* the whole pair there when it comes to the rename.                       *)
TypeOK ==
  /\ destination \in Directories \cup {Absent}
  /\ staging \in [Calls -> Directories \cup {Absent}]
  /\ pc \in [Calls -> {"exists", "create", "json", "check json", "markdown",
                       "check markdown", "rename", "renamed", "returned", "dead"}]
  /\ result \in [Calls -> [complete : BOOLEAN, staged : BOOLEAN, files : SUBSET Files]]
  /\ \A c \in Calls : OwnPair(c)

Init ==
  /\ destination = Absent
  /\ staging = [c \in Calls |-> Absent]
  /\ pc = [c \in Calls |-> "exists"]
  /\ result = [c \in Calls |-> [complete |-> FALSE, staged |-> FALSE, files |-> {}]]

Host == "host" \in Faults
Goto(c, step) == pc' = [pc EXCEPT ![c] = step]
(* Any exception ends the call; the paths reported so far stay in result.  *)
Fail(c) == Goto(c, "returned") /\ UNCHANGED result

-------------------------------------------------------------------------------
Exists(c) ==
  /\ pc[c] = "exists"
  /\ \/ destination = Absent /\ Goto(c, "create") /\ UNCHANGED result
     \/ (Host \/ destination # Absent) /\ Fail(c)
  /\ UNCHANGED <<destination, staging>>

CreateStaging(c) ==
  /\ pc[c] = "create"
  /\ \/ /\ staging' = [staging EXCEPT ![c] =
             [by |-> c, holds |-> [f \in Files |-> "none"]]]
        /\ result' = [result EXCEPT ![c].staged = TRUE]
        /\ Goto(c, "json")
     \/ Host /\ Fail(c) /\ UNCHANGED staging
  /\ UNCHANGED destination

(* The writer stores any part of a file, and throws or not.                *)
Write(c, f) ==
  /\ pc[c] = f
  /\ \E content \in {"none", "part", "whole"} :
       /\ staging' = [staging EXCEPT ![c].holds[f] = content]
       /\ \/ (Host \/ content = "whole") /\ Goto(c, Checking(f)) /\ UNCHANGED result
          \/ Host /\ Fail(c)
  /\ UNCHANGED destination

(* checkExportFile                                                         *)
Matches(c, f) == staging[c].holds[f] = "whole"

Check(c, f) ==
  /\ pc[c] = Checking(f)
  /\ \/ /\ Matches(c, f) /\ Goto(c, AfterCheck(f))
        /\ result' = [result EXCEPT ![c].files = @ \cup {f}]
     \/ (Host \/ ~Matches(c, f)) /\ Fail(c)
  /\ UNCHANGED <<destination, staging>>

Move(c) ==
  /\ destination' = staging[c]
  /\ staging' = [staging EXCEPT ![c] = Absent]

\* Mutant: the rename replaces a directory that appeared meanwhile.
Rename_Replaces(c) ==
  /\ pc[c] = "rename"
  /\ \/ Move(c) /\ Goto(c, "renamed") /\ UNCHANGED result
     \/ Host /\ Move(c) /\ Fail(c)
     \/ Host /\ Fail(c) /\ UNCHANGED <<destination, staging>>
\* Mutant: the rename is tried until it works.
Rename_Retries(c) ==
  /\ pc[c] = "rename" /\ destination = Absent
  /\ Move(c) /\ Goto(c, "renamed") /\ UNCHANGED result
(* It may fail after its effect.                                           *)
Rename(c) ==
  /\ pc[c] = "rename"
  /\ \/ destination = Absent /\ Move(c) /\ Goto(c, "renamed") /\ UNCHANGED result
     \/ Host /\ destination = Absent /\ Move(c) /\ Fail(c)
     \/ (Host \/ destination # Absent) /\ Fail(c) /\ UNCHANGED <<destination, staging>>

Report(c) ==
  /\ pc[c] = "renamed" /\ Goto(c, "returned")
  /\ result' = [result EXCEPT ![c].complete = TRUE, ![c].staged = FALSE]
  /\ UNCHANGED <<destination, staging>>

Crash(c) ==
  /\ "crash" \in Faults
  /\ pc[c] \notin {"returned", "dead"} /\ Goto(c, "dead")
  /\ UNCHANGED <<destination, staging, result>>

OtherCreates ==
  /\ "other" \in Faults /\ destination = Absent
  /\ destination' = [by |-> Other, holds |-> [f \in Files |-> "none"]]
  /\ UNCHANGED <<staging, pc, result>>

Step(c) ==
  \/ Exists(c) \/ CreateStaging(c) \/ Rename(c) \/ Report(c)
  \/ \E f \in Files : Write(c, f) \/ Check(c, f)

Next == OtherCreates \/ \E c \in Calls : Step(c) \/ Crash(c)

Spec     == Init /\ [][Next]_vars
FairSpec == Spec /\ \A c \in Calls : WF_vars(Step(c))

-------------------------------------------------------------------------------
(* PairWhole: what a call puts at the destination is the whole pair, though*)
(* it writes the files one after the other and may die or fail in between. *)
PairWhole ==
  destination # Absent /\ destination.by \in Calls => Whole(destination)

(* CompleteStays: the report of a call that said complete is at the        *)
(* destination, and no later call or directory takes its place.            *)
CompleteStays ==
  \A c \in Calls : result[c].complete => destination # Absent /\ destination.by = c

(* FailureLocates: a call that returned without success reports the        *)
(* staging directory it left behind, if there is one.                      *)
FailureLocates ==
  \A c \in Calls :
    pc[c] = "returned" /\ staging[c] # Absent => result[c].staged /\ ~result[c].complete

(* CallsReturn: every call returns, also the one that lost the destination.*)
CallsReturn == \A c \in Calls : <>(pc[c] \in {"returned", "dead"})

(* ExportSound: what is at the destination is the whole pair of the export *)
(* that said so, and every other export says where its files are.          *)
ExportSound == PairWhole /\ CompleteStays /\ FailureLocates
===============================================================================
