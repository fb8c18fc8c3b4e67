----------------------------- MODULE HealContract ------------------------------
(***************************************************************************)
(* What a recovery session promises to the owner of one configuration      *)
(* document, without its phases, calls, records or threads.  The document  *)
(* is written only while the original can be recovered from storage, the   *)
(* session ends with at most one verdict, the verdict tells the truth      *)
(* about the document, and after it the document is left alone.  Nothing   *)
(* is promised about reaching a verdict: the process may die.              *)
(***************************************************************************)
EXTENDS Integers

CONSTANTS
  Docs,      \* the contents the document can have
  Original,  \* the content found
  Approved   \* the content the approved plan leads to

VARIABLES
  doc,       \* the content of the document
  cover,     \* a verified backup and a record of the start are stored
  verdict

vars == <<doc, cover, verdict>>

Verdicts == {"open", "healed", "rejected", "restored", "stuck"}

Init == doc = Original /\ cover = FALSE /\ verdict = "open"

Arm == verdict = "open" /\ cover' = TRUE /\ UNCHANGED <<doc, verdict>>

Write ==
  /\ verdict = "open" /\ cover
  /\ doc' \in Docs
  /\ UNCHANGED <<cover, verdict>>

Truthful(v) ==
  /\ v = "healed" => cover /\ doc = Approved
  /\ v = "rejected" => doc = Original
  /\ v = "restored" => cover /\ doc = Original
  /\ v = "stuck" => cover

Conclude ==
  /\ verdict = "open"
  /\ verdict' \in Verdicts \ {"open"} /\ Truthful(verdict')
  /\ UNCHANGED <<doc, cover>>

Next == Arm \/ Write \/ Conclude

Spec == Init /\ [][Next]_vars
===============================================================================
