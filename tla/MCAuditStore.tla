------------------------------ MODULE MCAuditStore ------------------------------
(* Small instances of AuditStore for TLC.                                  *)
EXTENDS AuditStore, TLC

CONSTANTS s1, s2, s3, p1, p2, r1, r2, c1, c2, c3

ThreeSinks == {s1, s2, s3}
Two        == {s1, s2}

(* Three sessions of one process, two of them of the same request, with a  *)
(* registry for one chain.                                                 *)
Shared ==
  [sinks     |-> ThreeSinks,
   processOf |-> [s \in ThreeSinks |-> p1],
   requestOf |-> s1 :> r1 @@ s2 :> r1 @@ s3 :> r2,
   chainOf   |-> s1 :> c1 @@ s2 :> c2 @@ s3 :> c3,
   maxChains |-> 1, maxLines |-> 3, maxEvents |-> 1, faults |-> {"io"}]

(* Two processes that record the same audit chain in the same second: two  *)
(* events each with cut-off writes, or one each with every fault.          *)
TwoProcesses(events, faults) ==
  [sinks     |-> Two,
   processOf |-> s1 :> p1 @@ s2 :> p2,
   requestOf |-> [s \in Two |-> r1],
   chainOf   |-> [s \in Two |-> c1],
   maxChains |-> 1, maxLines |-> 2 * events, maxEvents |-> events,
   faults    |-> faults]

(* Two unrelated sessions of one process that fill registry and file       *)
(* exactly: two events each, or one each with cut-off writes and crashes.  *)
Unrelated(events, faults) ==
  [sinks     |-> Two,
   processOf |-> [s \in Two |-> p1],
   requestOf |-> s1 :> r1 @@ s2 :> r2,
   chainOf   |-> s1 :> c1 @@ s2 :> c2,
   maxChains |-> 2, maxLines |-> 2 * events, maxEvents |-> events,
   faults    |-> faults]

FileLayouts ==
  {Shared, TwoProcesses(2, {"torn"}), TwoProcesses(1, {"io", "torn", "crash"}),
   Unrelated(2, {}), Unrelated(1, {"torn", "crash"})}
===============================================================================
