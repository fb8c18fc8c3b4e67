-------------------------- MODULE MCDiagnosticCollector --------------------------
(* Small instances of DiagnosticCollector for TLC.                         *)
EXTENDS DiagnosticCollector, TLC

CONSTANTS s1, s2

TwoSessions == {s1, s2}
Symmetry    == Permutations(TwoSessions)
===============================================================================
