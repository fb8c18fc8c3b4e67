------------------------------- MODULE CommandLine -----------------------------
(***************************************************************************)
(* The command line program (Main.cpp, CommandParser.cpp, CLIRunner.cpp):  *)
(* how arguments become a command and results become an exit code.  An     *)
(* argument is the name of a command or option, "path" for any other plain *)
(* word, or "-x" for any other word that starts with a dash.               *)
(***************************************************************************)
EXTENDS Naturals, Sequences, SequencesExt

Commands == {"validate", "diff", "heal"}
Options  == {"--config", "--desired", "--invariants", "--audit"}

IsDashed(arg) == arg \in Options \cup {"--help", "-x"}

(* One argument: an option takes the next word whatever it is; help and    *)
(* errors end the parse; the first other plain word is the config path.    *)
TakeArgument(acc, arg) ==
  IF acc.status # "open" THEN acc
  ELSE IF acc.pending # "" THEN [acc EXCEPT !.given = @ \cup {acc.pending}, !.pending = ""]
  ELSE IF arg \in Options THEN [acc EXCEPT !.pending = arg]
  ELSE IF arg = "--help" THEN [acc EXCEPT !.status = "help"]
  ELSE IF "--config" \notin acc.given /\ ~IsDashed(arg)
  THEN [acc EXCEPT !.given = @ \cup {"--config"}]
  ELSE [acc EXCEPT !.status = "invalid"]

(* "help", "invalid", or the command to run.                               *)
ParseCommand(args) ==
  IF args = <<>> \/ Head(args) = "--help" THEN "help"
  ELSE IF Head(args) \notin Commands THEN "invalid"
  ELSE LET end == FoldLeft(TakeArgument,
                           [status |-> "open", given |-> {}, pending |-> ""], Tail(args))
       IN IF end.status # "open" THEN end.status
          ELSE IF end.pending = "" /\ {"--config", "--desired"} \subseteq end.given
          THEN Head(args) ELSE "invalid"

FailureExitCode(code) ==
  IF code \in {"AMBIGUOUS", "BLOCKED", "UNSUPPORTED_EVIDENCE", "STALE_STATE",
               "POLICY_REJECTED", "VERIFICATION_FAILED"} THEN 1 ELSE 2

(* A result is a verdict, with the code of the failure when it failed; an  *)
(* exception that leaves the engine is the verdict "thrown".               *)
ExitCode(verdict, code) ==
  CASE verdict = "failed" -> FailureExitCode(code)
    [] verdict = "thrown" -> 2
    [] verdict \in {"valid", "planned", "healed", "unchanged"} -> 0
    [] verdict = "drift" -> 1
===============================================================================
