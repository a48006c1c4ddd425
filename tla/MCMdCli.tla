------------------------------ MODULE MCMdCli ------------------------------
(***************************************************************************)
(* The gateway with one broker, as it is deployed: the threads of its      *)
(* broker client, and the frames of the messages it sends and gets.  MdCli *)
(* has requests as numbers and Message has a client that is never silent;  *)
(* `part` names the one that moves.                                        *)
(***************************************************************************)
EXTENDS MdCli, Message

VARIABLE part

gatewayVars == <<vars, messageVars, part>>

GatewayInit ==
    /\ Init /\ MessageInit
    /\ part \in {"threads", "frames"}

InThreads(A) == part = "threads" /\ A /\ UNCHANGED <<messageVars, part>>
InFrames(A) == part = "frames" /\ A /\ UNCHANGED <<vars, part>>

\* The fairness of MdCli; Message has none.
GatewaySpec ==
    /\ GatewayInit /\ [][InThreads(Next) \/ InFrames(MessageNext)]_gatewayVars
    /\ WF_gatewayVars(InThreads(SendQueue)) /\ WF_gatewayVars(InThreads(RecvStep))
    /\ \A b \in Brokers : SF_gatewayVars(InThreads(Receive(b)))
=============================================================================
