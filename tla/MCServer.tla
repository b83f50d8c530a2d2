------------------------------ MODULE MCServer ------------------------------
(* The server and the model call its routes make, for TLC.  The path of a  *)
(* request through the server, the connections it keeps and one callModel  *)
(* share no state, so a behaviour exercises one of the three.              *)
EXTENDS ServerConnections, ServerRequest, CallModel, TLC

VARIABLE focus

GeneratedIds == <<CHOOSE i \in Ids \ Configured : TRUE>>

\* What another behaviour exercises stays in one of its initial states.
ServerInit ==
  /\ focus \in {"connections", "request", "call"}
  /\ ConnInit /\ ReqInit /\ Init
  /\ focus # "request" => adapter = "cli" /\ route = "list" /\ declared
  /\ focus # "call" => ~aborted

OfRequest(A) == focus = "request" /\ A /\ UNCHANGED <<focus, connVars, vars>>
OfCall(A) == focus = "call" /\ A /\ UNCHANGED <<focus, connVars, reqVars>>

ServerNext ==
  \/ focus = "connections" /\ ConnNext /\ UNCHANGED <<focus, reqVars, vars>>
  \/ OfRequest(ReqNext)
  \/ OfCall(Next)

\* The fairness of ReqSpec and of LiveSpec, for the behaviours that follow a
\* request or a call.
ServerSpec ==
  /\ ServerInit /\ [][ServerNext]_<<focus, connVars, reqVars, vars>>
  /\ WF_reqVars(OfRequest(Server)) /\ WF_reqVars(OfRequest(Settle))
  /\ WF_reqVars(OfRequest(EndBody \/ Disconnect))
  /\ WF_vars(OfCall(Begin)) /\ WF_vars(OfCall(SoftTimeout)) /\ WF_vars(OfCall(HardTimeout))
  /\ WF_vars(OfCall(Resend)) /\ WF_vars(OfCall(\E ticks \in Backoffs : StartBackoff(ticks)))
  /\ WF_vars(OfCall(Finish)) /\ WF_vars(OfCall(Wake)) /\ WF_vars(OfCall(Tick))

\* Every request that reaches the server is answered or its client is gone, and
\* every callModel settles although the provider may never answer.
RequestsEnd ==
  /\ focus = "request" => RequestEnds
  /\ focus = "call" => CallSettles
=============================================================================
