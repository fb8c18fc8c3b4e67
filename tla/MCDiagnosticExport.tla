---------------------------- MODULE MCDiagnosticExport ----------------------------
(***************************************************************************)
(* Small instances for TLC of what a host makes of diagnostics: exports    *)
(* that race for a destination, one report from the event to its text, or  *)
(* the chains that callers make and edit.  They share no state; a          *)
(* behaviour is of one subject.                                            *)
(***************************************************************************)
EXTENDS DiagnosticExport, DiagnosticReport, DiagnosticChains

CONSTANTS c1, c2, c3

ThreeCalls == {c1, c2, c3}

-------------------------------------------------------------------------------
(* Events, each with one thing in it that the rules are about.             *)

Strings == STRING
FourIndices == <<"0", "1", "2", "3">>
KeyNames == <<"api_token", "bytes", "count", "evidence", "planHash", "state">>
KeyOrder == [k \in ToSet(KeyNames) |-> CHOOSE i \in DOMAIN KeyNames : KeyNames[i] = k]
Scaled == [items |-> 2, members |-> 3, causes |-> 2]

State(doc) == Fields([state |-> doc])
Failure(code, causes) ==
  Fields([kind |-> Leaf("error kind"), nativeCode |-> Leaf(code), causes |-> Elements(causes)])

Plain  == Failure("int", <<>>)
Chain4 == Failure("null", <<Failure("int", <<Failure("null", <<Failure("int", <<Plain>>)>>)>>)>>)
Chain5 == Failure("int", <<Chain4>>)
Broad  == Failure("null", <<Plain, Plain, Plain>>)

Deep4 == State(State(State(State(Leaf("word")))))
Deep5 == State(Deep4)

Evidence ==
  {Leaf("object"), Leaf("text"), Leaf("null"), Deep4, Deep5, State(Elements(<<Deep4>>)),
   Fields([bytes |-> Leaf("count"), state |-> Leaf("fraction")]),
   Fields([api_token |-> Leaf("hash"), planHash |-> Leaf("hash"), state |-> Leaf("word")]),
   Fields([api_token |-> Deep4, bytes |-> Leaf("int"), planHash |-> Leaf("commit"), state |-> Leaf("text")]),
   Fields([k \in {"bytes", "count", "planHash", "state"} |-> Leaf("int")]),
   Elements(<<Leaf("bool"), Leaf("phase")>>), Elements(<<Leaf("int"), Leaf("int"), Leaf("text")>>)}

SimpleEvent ==
  [operation |-> "hash", utc |-> "utc", outcome |-> "PASSED", object |-> "hash", rules |-> 1,
   failed |-> FALSE, error |-> Plain, secondary |-> <<>>, evidence |-> Leaf("object"), commit |-> "commit"]

Failed(error) == [SimpleEvent EXCEPT !.outcome = "FAILED", !.failed = TRUE, !.error = error]

HostEvents ==
  {[SimpleEvent EXCEPT !.evidence = e] : e \in Evidence}
    \cup {[Failed(e) EXCEPT !.evidence = State(Leaf("word"))] : e \in {Plain, Chain4, Chain5, Broad}}
    \cup {[Failed(Plain) EXCEPT !.secondary = s] : s \in {<<Chain4>>, <<Plain, Chain5, Broad>>}}
    \cup {[SimpleEvent EXCEPT !.utc = "text"], [SimpleEvent EXCEPT !.object = "text", !.commit = "text"],
          [SimpleEvent EXCEPT !.operation = "unavailable", !.rules = 3]}

Edits ==
  {[node |-> n, value |-> v] :
     n \in {<<"secret">>, <<"schema">>, <<"profile">>, <<"buildContext", "sourceCommit">>,
            <<"events", "0", "evidence">>, <<"events", "0", "utc">>, <<"events", "1">>, <<"incidents">>,
            <<"loss", "evidence">>, <<"events", "0", "primaryError", "causes", "0", "evidence">>},
     v \in {Leaf("text"), Leaf("phase"), Elements(<<>>), Deep5, Fields([evidence |-> Leaf("commit")])}}

-------------------------------------------------------------------------------
(* What the factories of chains are called with.                           *)

Rule(family) == [identity |-> family, family |-> family, source |-> "specs"]
Said(kind, stage, disposition, family) ==
  [kind |-> kind, severity |-> "ERROR", stage |-> stage, disposition |-> disposition, explained |-> TRUE,
   rules |-> <<Rule(family)>>, sources |-> {"specs"}, evidence |-> "state"]

Detected  == Said("STATE_VALIDITY", "DETECTION", "BLOCKED", "ASH-STATE")
Recovered == Said("RECOVERY", "RECOVERY", "PENDING", "ASH-RECOVERY")
Escalated == Said("CONTAINMENT", "ESCALATION", "ESCALATED", "ASH-CONTAINMENT")
Halted    == Said("SAFE_HALT", "TERMINAL", "TERMINAL", "ASH-HALT")

HostContents ==
  {Detected, Recovered, Escalated, Halted,
   [Detected EXCEPT !.stage = "CLASSIFICATION", !.rules[1].family = "ASH-HALT"],
   [Halted EXCEPT !.disposition = "RESOLVED"], [Recovered EXCEPT !.kind = "POLICY"],
   [Recovered EXCEPT !.sources = {"other"}, !.explained = FALSE],
   [Detected EXCEPT !.severity = "FATAL"]}

-------------------------------------------------------------------------------
(* One of the three.                                                       *)

VARIABLE subject

ExportOff ==
  /\ destination = Absent /\ staging = [c \in Calls |-> Absent] /\ pc = [c \in Calls |-> "dead"]
  /\ result = [c \in Calls |-> [complete |-> FALSE, staged |-> FALSE, files |-> {}]]

ReportOff ==
  /\ raw = SimpleEvent /\ profile = "LEAN" /\ snapshot = <<>>
  /\ loss = [redacted |-> 0, truncated |-> 0] /\ tampered = FALSE /\ report = [made |-> "no"]

HostInit ==
  \/ subject = "exports" /\ Init /\ ReportOff /\ ChainsInit
  \/ subject = "report"  /\ ExportOff /\ ReportInit /\ ChainsInit
  \/ subject = "chains"  /\ ExportOff /\ ReportOff /\ ChainsInit

others == <<reportVars, chainVars, subject>>

HostNext ==
  \/ subject = "exports" /\ Next /\ UNCHANGED others
  \/ subject = "report" /\ ReportNext /\ UNCHANGED <<vars, chainVars, subject>>
  \/ subject = "chains" /\ ChainsNext /\ UNCHANGED <<vars, reportVars, subject>>

HostSpec ==
  /\ HostInit /\ [][HostNext]_<<vars, others>>
  /\ \A c \in Calls : WF_vars(subject = "exports" /\ Step(c) /\ UNCHANGED others)
===============================================================================
