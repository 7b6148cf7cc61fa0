----------------------------- MODULE MCProgress -----------------------------
(***************************************************************************)
(* Instances, for TLC, of what serves a request: the gateway that lets it  *)
(* in, and the run of the agent (AgentRun) that answers it.  They share no *)
(* state; one of them runs, the one the initial state picks, and the other *)
(* stays as it is.                                                         *)
(***************************************************************************)
EXTENDS AgentRun

CONSTANTS Requests, Sessions, NoOne

VARIABLES
  part,  \* the component that runs
  serving, key, streamed, result, locks, ref, held, mine, row, msgs,
  history, returned, charged, billed, spent

gatewayVars ==
  <<serving, key, streamed, result, locks, ref, held, mine, row, msgs,
    history, returned, charged, billed, spent>>
bothVars == <<part, gatewayVars, vars>>

Gate == INSTANCE SessionGateway WITH
  pc <- serving, session <- key, stream <- streamed, reply <- returned,
  MostTokens <- 0, UserMax <- 2, SessionMax <- 2,
  MaxFaults <- 0, MaxDeletes <- 0, MaxCrashes <- 0
-----------------------------------------------------------------------------
(* Which requests stream makes a difference to the gateway only.           *)
BothInit ==
  /\ part \in {"gateway", "agent"}
  /\ Gate!Init /\ Init
  /\ part = "agent" => streamed = {}

GateAlone == part = "gateway" /\ UNCHANGED <<part, vars>>
AgentAlone == part = "agent" /\ UNCHANGED <<part, gatewayVars>>

BothNext == (GateAlone /\ Gate!Next) \/ (AgentAlone /\ Next)

(* The fairness of each, as its module has it.                             *)
BothSpec ==
  /\ BothInit /\ [][BothNext]_bothVars
  /\ \A r \in Requests :
       /\ WF_bothVars(GateAlone /\ Gate!ServeStep(r))
       /\ SF_bothVars(GateAlone /\ Gate!LockMutex(r))
  /\ WF_bothVars(AgentAlone /\ (Work \/ StreamDelta))
-----------------------------------------------------------------------------
(* The properties of the agent's runs are those of AgentRun; of the gateway*)
(* it is that it serves its callers in turns, each in the end.             *)
ImplementsTurns == Gate!ImplementsTurns
=============================================================================
