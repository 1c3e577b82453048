----------------------------- MODULE MCOperator -----------------------------
(* What an administrator does from outside the daemons, for TLC: the service  *)
(* script on one host, or the manual switch scripts on both.  The two share   *)
(* no state, and a behaviour is about one of them.                            *)

EXTENDS ServiceScript, ManualTool

VARIABLE about

MCInit ==
    /\ about \in {"service", "switch"}
    /\ Init /\ ToolInit
    /\ about = "service" => holds = {}

Serves   == about = "service" /\ Next /\ UNCHANGED <<about, toolVars>>
Switches == about = "switch" /\ ToolNext /\ UNCHANGED <<about, vars>>

MCNext == Serves \/ Switches

MCSpec == MCInit /\ [][MCNext]_<<about, vars, toolVars>>

=============================================================================
