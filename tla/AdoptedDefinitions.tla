--------------------------- MODULE AdoptedDefinitions --------------------------
(***************************************************************************)
(* The definitions the program is pinned to: the canonical code C, the     *)
(* catalog K of recognized valid states, the fallback registry and the     *)
(* policy bundle whose hash plan() accepts.  A state of nine bits is the   *)
(* set of the coordinates whose bit is 1, so 000011110 is {4, 5, 6, 7} and *)
(* exclusive or is symmetric difference.                                   *)
(***************************************************************************)
EXTENDS Naturals

Coordinates == 0..8

CanonicalCode ==
  {{}, {4, 5, 6, 7}, {2, 3, 6, 7}, {2, 3, 4, 5}, {1, 3, 5, 7}, {1, 3, 4, 6},
   {1, 2, 5, 6}, {1, 2, 4, 7}, {0, 3, 5, 6}, {0, 3, 4, 7}, {0, 2, 5, 7},
   {0, 2, 4, 6}, {0, 1, 6, 7}, {0, 1, 4, 5}, {0, 1, 2, 3},
   {0, 1, 2, 3, 4, 5, 6, 7}}

RecognizedStates == {{}, {8}}

(* The two profiles: the sources whose values a coordinate is bound to, and *)
(* the mapping status each defect of the evidence is declared to lead to.  *)
DirectProfile ==
  [sources  |-> {"observed"},
   declares |-> [absent |-> "BLOCKED", nonbinary |-> "FAILED",
                 unsupported |-> "BLOCKED", disagreement |-> "AMBIGUOUS"]]

ClaimsProfile == [DirectProfile EXCEPT !.sources = {"observed", "claims"}]

(* FALLBACK-STATE-001 and -002, named by their rank.                       *)
FallbackRegistry == {[rank |-> 0, candidate |-> {}],
                     [rank |-> 1, candidate |-> {8}]}

(* The one rule of the adopted bundle.                                     *)
PolicyRules == {[category |-> "APPLY_CORRECTION", target |-> {},
                 slots |-> Coordinates]}
===============================================================================
