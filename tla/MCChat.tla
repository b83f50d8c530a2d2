------------------------------- MODULE MCChat -------------------------------
(* The hosts of a conversation for TLC: the react hook (Conversation), and *)
(* the VS Code extension's engine manager and chat panel.  The panel sees  *)
(* of the manager only that its awaits settle and the hook is another      *)
(* program, so a behaviour exercises one of the three.                     *)
EXTENDS Conversation, EngineManager, ChatTurns, TLC

VARIABLE focus
sumVars == <<focus, vars, managerVars, chatVars>>

HostInit ==
  /\ focus \in {"hook", "engines", "panel"} /\ Init /\ ManagerInit /\ ChatInit
  /\ focus # "engines" => \E c \in Files : conn = [t \in Calls |-> c]
  /\ focus # "hook" => opts = [approval |-> TRUE, schema |-> TRUE, local |-> TRUE]

HostNext ==
  \/ focus = "hook" /\ Next /\ UNCHANGED <<focus, managerVars, chatVars>>
  \/ focus = "engines" /\ ManagerNext /\ UNCHANGED <<focus, vars, chatVars>>
  \/ focus = "panel" /\ ChatNext /\ UNCHANGED <<focus, vars, managerVars>>

HostSpec == HostInit /\ [][HostNext]_sumVars

\* Calls are interchangeable, and so are resets.
Symmetric == Permutations(Calls) \cup Permutations(Resets)
=============================================================================
