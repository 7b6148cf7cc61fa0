------------------------------ MODULE AgentRun ------------------------------
(***************************************************************************)
(* The runs of one session inside the engine (engine/engine.go), one after *)
(* another: the orchestrator that agent/team.go builds for every call, the *)
(* hooks GoalEnforcer, PlanEnforcer and StateEnforcer put before and after *)
(* every call of the model (agent/goal.go, agent/plan.go, agent/state.go), *)
(* the budgets of agent/guard.go, and the state files of artifact/store.go *)
(* that outlive a run and a crash.                                         *)
(*                                                                         *)
(* The model, and the loop of the agent framework that calls it, run the   *)
(* hooks in the order of their installation and execute its tool calls one *)
(* by one, are external: the model answers anything.  The contracts are in *)
(* Contracts.  A text is what it is a part of: a "narration" beside tool   *)
(* calls, the "answer", an answer that was "held" back, or the "notice" of *)
(* a budget that is used up.                                               *)
(***************************************************************************)
EXTENDS Contracts, FiniteSets

CONSTANTS
  EnableSubAgents, EnableGoal, EnablePlan,  \* TeamConfig
  MaxGoalNudges, MaxPlanNudges,
  MaxLLMCalls, MaxToolIterations,           \* GuardrailConfig
  MaxRuns, MaxCrashes, MaxFaults,           \* bounds on the session
  MaxSteps, MaxEntries                      \* bounds on a plan and on each log

ASSUME SwitchesAssumption == {EnableSubAgents, EnableGoal, EnablePlan} \subseteq BOOLEAN
ASSUME BoundsAssumption ==
  {MaxGoalNudges, MaxPlanNudges, MaxLLMCalls, MaxToolIterations,
   MaxRuns, MaxCrashes, MaxFaults, MaxSteps, MaxEntries} \subseteq Nat

VARIABLES
  pc,         \* where the run is
  goal, plan, \* what the stores of the run hold for its scope
  nudges,     \* how many answers each contract has held back
  remind,     \* the contracts that have held the last answer back
  told,       \* the contracts the request under way reminds the model of
  calls, iterations,
  stream,     \* whether the request under way is streamed
  delta,      \* DeltaState.sawDelta
  partial,    \* whether a part of the answer under way has been streamed
  reply,      \* the texts Engine.Chat has collected
  files,      \* the state files of the session: the entries each holds
  acked,      \* the entries of the logs whose writing was reported to the model
  writing,    \* the file being written, and its content
  resume,     \* the entries of the logs the request under way was given
  unread,     \* whether it was given none, the files being unreadable
  lost,       \* the reported entries a write that was cut off has left out
  runs, crashes, faults

contract == <<goal, plan, nudges, remind, told>>
budget == <<calls, iterations>>
output == <<stream, delta, partial, reply>>
store == <<files, acked, writing, lost>>
handed == <<resume, unread>>
session == <<runs, crashes, faults>>
vars == <<pc, contract, budget, output, store, handed, session>>

Contract == {"goal", "plan"}
Texts == {"narration", "held", "answer", "notice"}
Logs == {"PROGRESS", "LEARNINGS"}
Files == Logs \cup {"PLAN"}
NoFile == [name |-> "none", content |-> {}]
Ends == {"new", "answered", "broken", "failed", "cut"}

GoalInstalled == EnableSubAgents /\ EnableGoal
PlanInstalled == EnableSubAgents /\ EnablePlan

TypeOK ==
  /\ pc \in Ends \cup {"before", "model", "tools", "writing"}
  /\ goal \in Goals
  /\ plan \in Seq(Steps) /\ Len(plan) <= MaxSteps
  /\ nudges \in [goal : 0 .. MaxGoalNudges, plan : 0 .. MaxPlanNudges]
  /\ remind \subseteq Contract /\ told \subseteq Contract
  /\ calls \in 0 .. MaxLLMCalls /\ iterations \in 0 .. MaxToolIterations
  /\ {stream, delta, partial} \subseteq BOOLEAN
  /\ reply \subseteq Texts
  /\ files \in [Files -> SUBSET (1 .. MaxEntries)] /\ acked \in [Logs -> SUBSET (1 .. MaxEntries)]
  /\ writing \in [name : Files \cup {"none"}, content : SUBSET (1 .. MaxEntries)]
  /\ resume \in [Logs -> SUBSET (1 .. MaxEntries)]
  /\ unread \in BOOLEAN
  /\ lost \in [Logs -> SUBSET (1 .. MaxEntries)]
  /\ runs \in 0 .. MaxRuns /\ crashes \in 0 .. MaxCrashes /\ faults \in 0 .. MaxFaults

-----------------------------------------------------------------------------
(* What the hooks decide *)

GoalBlocks == GoalInstalled /\ (goal = NoGoal \/ GoalOpen(goal))
PlanBlocks == PlanInstalled /\ PlanOpen(plan)

(* Fault variant: one reminder too many.                                   *)
GoalHoldsOnceMore == GoalBlocks /\ nudges.goal <= MaxGoalNudges

(* Fault variant: a log is overwritten as the plan is.                     *)
NewContentOnly(n, e) == {e}

(* The contract that holds an answer back: the goal is asked first, and a  *)
(* contract that has used up its reminders lets everything pass.           *)
GoalHolds == GoalBlocks /\ nudges.goal < MaxGoalNudges
PlanHolds == PlanBlocks /\ nudges.plan < MaxPlanNudges

(* Of a reminder the plan's names the step to do next.                     *)
Nudged(c) == c \in remind /\ IF c = "goal" THEN GoalBlocks ELSE PlanBlocks /\ NextStep(plan) # 0

(* Fault variant: streaming is off only while an answer was held back.     *)
StreamedUnlessHeld == remind = {}

(* Only while no answer may be held back is a request streamed.            *)
Streamed == ~GoalBlocks /\ ~PlanBlocks

(* What Engine.Chat keeps of a text: a whole message only if no part of    *)
(* any message of the run has been streamed.                               *)
Collected(text) == IF partial \/ ~delta THEN reply \cup {text} ELSE reply

Snapshot == [n \in Logs |-> files[n]]

OutOfCalls == calls = MaxLLMCalls
OutOfIterations == iterations = MaxToolIterations

-----------------------------------------------------------------------------
(* A run *)

(* The stores, the hooks' counters and the collected text are new in every *)
(* call of the engine; only the files are there before it.                 *)
FreshContract == /\ goal' = NoGoal /\ plan' = NoPlan
                 /\ nudges' = [goal |-> 0, plan |-> 0]
                 /\ remind' = {} /\ told' = {}

Unresumed == resume' = [n \in Logs |-> {}]

FreshRequest == /\ calls' = 0 /\ iterations' = 0
                /\ Unresumed /\ unread' = FALSE

FreshOutput == /\ stream' = FALSE /\ delta' = FALSE /\ partial' = FALSE
               /\ reply' = {}

Init ==
  /\ pc = "new"
  /\ goal = NoGoal /\ plan = NoPlan
  /\ nudges = [goal |-> 0, plan |-> 0] /\ remind = {} /\ told = {}
  /\ calls = 0 /\ iterations = 0
  /\ stream = FALSE /\ delta = FALSE /\ partial = FALSE /\ reply = {}
  /\ files = [n \in Files |-> {}] /\ acked = [n \in Logs |-> {}]
  /\ writing = NoFile /\ lost = [n \in Logs |-> {}]
  /\ resume = [n \in Logs |-> {}] /\ unread = FALSE
  /\ runs = 0 /\ crashes = 0 /\ faults = 0

BeginRun ==
  /\ pc \in Ends /\ runs < MaxRuns
  /\ runs' = runs + 1
  /\ pc' = "before"
  /\ FreshContract /\ FreshRequest /\ FreshOutput
  /\ UNCHANGED <<store, crashes, faults>>

(* StateEnforcer gives the first request of a run the files.  It has noted *)
(* that it did before it reads them: a run whose first call could not read *)
(* them is not told of them at all, and the call goes on.                  *)
ReadState ==
  \/ /\ calls = 0
     /\ resume' = Snapshot
     /\ UNCHANGED <<unread, faults>>
  \/ /\ calls = 0 /\ faults < MaxFaults
     /\ unread' = TRUE /\ faults' = faults + 1
     /\ Unresumed
  \/ /\ calls > 0
     /\ unread' = FALSE
     /\ Unresumed
     /\ UNCHANGED faults

(* The hooks before a call of the model.  The other two consume their      *)
(* flags, remind the model of what is open, and turn streaming off while   *)
(* an answer may be held back.                                             *)
BeforeModel ==
  /\ pc = "before" /\ ~OutOfCalls
  /\ pc' = "model"
  /\ calls' = calls + 1
  /\ ReadState
  /\ told' = {c \in Contract : Nudged(c)}
  /\ remind' = {}
  /\ stream' = Streamed
  /\ partial' = FALSE
  /\ UNCHANGED <<goal, plan, nudges, iterations, delta, reply, store, runs, crashes>>

(* A part of the answer: every hook lets it pass.                          *)
StreamDelta ==
  /\ pc = "model" /\ stream /\ ~partial
  /\ partial' = TRUE /\ delta' = TRUE
  /\ UNCHANGED <<pc, contract, budget, stream, reply, store, handed, session>>

(* The model gives an answer and calls no tool.  One contract after the    *)
(* other may hold it back; then the loop goes on.                          *)
Hold(c) ==
  /\ nudges' = [nudges EXCEPT ![c] = @ + 1]
  /\ remind' = {c}
  /\ reply' = IF partial THEN reply \cup {"held"} ELSE reply
  /\ pc' = "before"

AnswerHeld ==
  /\ pc = "model" /\ (stream => partial)
  /\ \/ GoalHolds /\ Hold("goal")
     \/ ~GoalHolds /\ PlanHolds /\ Hold("plan")
  /\ UNCHANGED <<goal, plan, told, budget, stream, delta, partial, store, handed, session>>

AnswerReleased ==
  /\ pc = "model" /\ (stream => partial)
  /\ ~GoalHolds /\ ~PlanHolds
  /\ reply' = Collected("answer")
  /\ pc' = "answered"
  /\ UNCHANGED <<contract, budget, stream, delta, partial, store, handed, session>>

(* The model calls a tool, perhaps with a text beside the call.            *)
CallsTool ==
  /\ pc = "model"
  /\ \/ reply' = Collected("narration")
     \/ ~partial /\ UNCHANGED reply
  /\ pc' = "tools"
  /\ UNCHANGED <<contract, budget, stream, delta, partial, store, handed, session>>

(* An error event: Engine.Chat skips it and returns what it has.           *)
ModelFails ==
  /\ pc = "model"
  /\ pc' = "failed"
  /\ reply' = IF partial THEN reply \cup {"narration"} ELSE reply
  /\ UNCHANGED <<contract, budget, stream, delta, partial, store, handed, session>>

(* Fault variant: nobody closes the run at the budget of calls.            *)
CircuitBreakTools ==
  /\ pc = "tools" /\ OutOfIterations
  /\ pc' = "broken"
  /\ reply' = reply \cup {"notice"}
  /\ UNCHANGED <<contract, budget, stream, delta, partial, store, handed, session>>

(* The framework ends the run at a budget; Chat appends a notice.          *)
CircuitBreak ==
  /\ \/ pc = "before" /\ OutOfCalls
     \/ pc = "tools" /\ OutOfIterations
  /\ pc' = "broken"
  /\ reply' = reply \cup {"notice"}
  /\ UNCHANGED <<contract, budget, stream, delta, partial, store, handed, session>>

(* The timeout of the call, or the client that goes away: the channel is   *)
(* closed as at a normal end.                                              *)
Cut ==
  /\ pc \in {"before", "model", "tools"}
  /\ pc' = "cut"
  /\ reply' = IF pc = "model" /\ partial THEN reply \cup {"narration"} ELSE reply
  /\ UNCHANGED <<contract, budget, stream, delta, partial, store, handed, session>>

-----------------------------------------------------------------------------
(* The tools *)

ToolRuns == /\ pc = "tools" /\ ~OutOfIterations
            /\ iterations' = iterations + 1

ContractTool == /\ ToolRuns
                /\ pc' = "before"
                /\ UNCHANGED <<nudges, remind, told, calls, output, store, handed, session>>

CreateGoal ==
  /\ GoalInstalled /\ ContractTool
  /\ goal' = NewGoal
  /\ UNCHANGED plan

UpdateGoal(p) ==
  /\ GoalInstalled /\ ContractTool
  /\ goal # NoGoal /\ ~GoalPatchRefused(goal, p)
  /\ goal' = PatchedGoal(goal, p)
  /\ UNCHANGED plan

CreatePlan(n) ==
  /\ PlanInstalled /\ ContractTool
  /\ n <= MaxSteps
  /\ plan' = WithSteps(NoPlan, n)
  /\ UNCHANGED goal

AddSteps(n) ==
  /\ PlanInstalled /\ ContractTool
  /\ plan # NoPlan /\ Len(plan) + n <= MaxSteps
  /\ plan' = WithSteps(plan, n)
  /\ UNCHANGED goal

UpdateStep(i, p) ==
  /\ PlanInstalled /\ ContractTool
  /\ i \in DOMAIN plan /\ ~StepPatchRefused(plan[i], p)
  /\ plan' = [plan EXCEPT ![i] = PatchedStep(plan[i], p)]
  /\ UNCHANGED goal

(* A refused call of one of these tools, get_goal, get_plan, read_state,   *)
(* a delegation to the coder or the reviewer, and every other tool; also a *)
(* tool of the state files that fails before its file is opened to write.  *)
OtherTool == ContractTool /\ UNCHANGED <<goal, plan>>

(* update_plan overwrites its file (of a plan the model tells only whether *)
(* there is one), update_progress and append_learning read the file and    *)
(* write it back with one entry more.  Writing cuts the file off before it *)
(* fills it.                                                               *)
NewContent(n, e) == IF n = "PLAN" THEN {e} ELSE files[n] \cup {e}

(* The entries of a log are numbered as they come.                         *)
NextEntry(n, e) ==
  LET used == acked[n] \cup files[n]
  IN  e \notin used /\ 1 .. (e - 1) \subseteq used

WriteState(n, e) ==
  /\ ToolRuns
  /\ IF n = "PLAN" THEN e = 1 ELSE NextEntry(n, e)
  /\ writing' = [name |-> n, content |-> NewContent(n, e)]
  /\ files' = [files EXCEPT ![n] = {}]
  /\ pc' = "writing"
  /\ UNCHANGED <<contract, calls, output, acked, lost, handed, session>>

FinishWrite ==
  /\ pc = "writing"
  /\ LET n == writing.name
     IN  /\ files' = [files EXCEPT ![n] = writing.content]
         /\ acked' = [m \in Logs |-> IF m = n THEN acked[m] \cup writing.content ELSE acked[m]]
  /\ writing' = NoFile
  /\ pc' = "before"
  /\ UNCHANGED <<contract, budget, output, lost, handed, session>>

(* The write gets no further: the file holds the first part of what it     *)
(* should hold.                                                            *)
CutOff ==
  LET n == writing.name
  IN  \E last \in 0 .. MaxEntries :
        LET filled == {e \in writing.content : e <= last} IN
        /\ files' = [files EXCEPT ![n] = filled]
        /\ lost' = [m \in Logs |-> IF m = n THEN acked[m] \ filled ELSE lost[m]]
        /\ writing' = NoFile

(* The disk fails under the write.  The tool returns the error and the run *)
(* goes on; what the file held before is not put back.                     *)
WriteFails ==
  /\ pc = "writing" /\ faults < MaxFaults
  /\ CutOff
  /\ faults' = faults + 1
  /\ pc' = "before"
  /\ UNCHANGED <<contract, budget, output, acked, handed, runs, crashes>>

(* The process dies: of the run only the files are left.                   *)
Crash ==
  /\ pc \notin Ends /\ crashes < MaxCrashes
  /\ crashes' = crashes + 1
  /\ pc' = "new"
  /\ FreshContract /\ FreshRequest /\ FreshOutput
  /\ IF pc = "writing" THEN CutOff ELSE UNCHANGED <<files, lost, writing>>
  /\ UNCHANGED <<acked, runs, faults>>

UseTool ==
  \/ CreateGoal
  \/ \E p \in GoalPatches : UpdateGoal(p)
  \/ \E n \in 1 .. MaxSteps : CreatePlan(n) \/ AddSteps(n)
  \/ \E i \in 1 .. MaxSteps, p \in StepPatches : UpdateStep(i, p)
  \/ OtherTool
  \/ \E n \in Files, e \in 1 .. MaxEntries : WriteState(n, e)

(* What the process does of itself while a run is under way.               *)
Work ==
  \/ BeforeModel
  \/ AnswerHeld \/ AnswerReleased \/ CallsTool \/ ModelFails
  \/ CircuitBreak
  \/ UseTool
  \/ FinishWrite \/ WriteFails

(* No further request comes.                                               *)
Quiet == pc \in Ends /\ runs = MaxRuns /\ UNCHANGED vars

Next == BeginRun \/ StreamDelta \/ Work \/ Cut \/ Crash \/ Quiet

Spec == Init /\ [][Next]_vars

(* The loop of the framework goes on while the model answers, and the      *)
(* model answers every request.                                            *)
FairSpec == Spec /\ WF_vars(Work \/ StreamDelta)
-----------------------------------------------------------------------------
(* Properties *)

(* agent/goal.go: streaming is off while a contract is open, because "half *)
(* an answer would reach the front end before the decision to hold it      *)
(* back".  No part of an answer that is held back is among the run's text, *)
(* whatever tools, reminders and new plans came between the decision to    *)
(* stream and the decision to hold.                                        *)
NoPrematureText == "held" \notin reply

(* agent/state.go: the progress and the lessons reported as written are    *)
(* there for the next run.  A reported entry is in its file or in the      *)
(* write under way, through failing writes and crashes, unless it is one   *)
(* that a write that was cut off has left out (a later entry is safe       *)
(* again, and so is another file); and the first request of a run carries  *)
(* it, unless the files could not be read then.                            *)
Safe(n) == acked[n] \ lost[n]

ProgressSurvives ==
  \A n \in Logs :
    /\ Safe(n) \subseteq IF writing.name = n THEN writing.content ELSE files[n]
    /\ pc = "model" /\ calls = 1 /\ ~unread => Safe(n) \subseteq resume[n]

(* However often the contracts hold an answer back and whatever the model  *)
(* does, the budgets and the reminders end every run.                      *)
EveryRunEnds == pc \notin Ends ~> pc \in Ends
=============================================================================
