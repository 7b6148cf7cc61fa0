----------------------------- MODULE SessionTurns -----------------------------
(***************************************************************************)
(* What the gateway promises its channels (api/gateway.go, doc of Gateway):*)
(* within one session requests take turns, sessions do not wait for each   *)
(* other, and every request that came in gets its turn.  A restart of the  *)
(* process loses the requests under way and nothing else.                  *)
(***************************************************************************)
EXTENDS Naturals

CONSTANTS Requests, Sessions, NoOne

VARIABLES phase,    \* new, queued, talking, leaving, done or lost
          session,  \* the session a request belongs to
          turn      \* who talks in a session

turnVars == <<phase, session, turn>>

NoTurn == [s \in Sessions |-> NoOne]

TurnInit ==
  /\ phase = [r \in Requests |-> "new"]
  /\ session \in [Requests -> Sessions]
  /\ turn = NoTurn

ComeIn(r) ==
  /\ phase[r] = "new"
  /\ phase' = [phase EXCEPT ![r] = "queued"]
  /\ UNCHANGED <<session, turn>>

Begin(r) ==
  /\ phase[r] = "queued"
  /\ turn[session[r]] = NoOne
  /\ phase' = [phase EXCEPT ![r] = "talking"]
  /\ turn' = [turn EXCEPT ![session[r]] = r]
  /\ UNCHANGED session

End(r) ==
  /\ phase[r] = "talking"
  /\ phase' = [phase EXCEPT ![r] = "leaving"]
  /\ turn' = [turn EXCEPT ![session[r]] = NoOne]
  /\ UNCHANGED session

Leave(r) ==
  /\ phase[r] = "leaving"
  /\ phase' = [phase EXCEPT ![r] = "done"]
  /\ UNCHANGED <<session, turn>>

Lose ==
  /\ phase' = [r \in Requests |->
                 IF phase[r] \in {"new", "done"} THEN phase[r] ELSE "lost"]
  /\ turn' = NoTurn
  /\ UNCHANGED session

TurnNext == Lose \/ \E r \in Requests : ComeIn(r) \/ Begin(r) \/ End(r) \/ Leave(r)

TurnSteps == TurnInit /\ [][TurnNext]_turnVars

TurnSpec ==
  /\ TurnSteps
  /\ \A r \in Requests :
       SF_turnVars(Begin(r)) /\ WF_turnVars(End(r)) /\ WF_turnVars(Leave(r))
==============================================================================
