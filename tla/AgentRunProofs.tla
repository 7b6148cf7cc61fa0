---------------------------- MODULE AgentRunProofs ----------------------------
(***************************************************************************)
(* Theorems about module AgentRun, for any budgets, with or without the    *)
(* contracts, and for any number of runs and crashes.                      *)
(***************************************************************************)
EXTENDS AgentRun, TLAPS

(* The file under way is known exactly while it is written. *)
WritingKnown ==
  /\ pc # "writing" => writing = NoFile
  /\ pc = "writing" => writing.name \in Files

(* A request is streamed only while no answer to it may be held back, and  *)
(* only of a streamed one a part has been passed on.  No tool runs between *)
(* the two, so what was open at the decision to stream is open still.      *)
StreamedFree ==
  pc = "model" => /\ partial => stream
                  /\ stream => ~GoalBlocks /\ ~PlanBlocks

Inv == TypeOK /\ WritingKnown

LEMMA BoundsNat ==
  /\ MaxGoalNudges \in Nat /\ MaxPlanNudges \in Nat
  /\ MaxLLMCalls \in Nat /\ MaxToolIterations \in Nat
  /\ MaxRuns \in Nat /\ MaxCrashes \in Nat /\ MaxFaults \in Nat
  /\ MaxSteps \in Nat /\ MaxEntries \in Nat
BY BoundsAssumption

-----------------------------------------------------------------------------
(* What the contracts make of goals and plans *)

LEMMA GoalTyped ==
  /\ NoGoal \in Goals /\ NewGoal \in Goals
  /\ \A g \in Goals, p \in GoalPatches : PatchedGoal(g, p) \in Goals
<1>1. NoGoal \in Goals /\ NewGoal \in Goals
  BY DEF NoGoal, NewGoal, Goals, GoalStatuses
<1>2. ASSUME NEW g \in Goals, NEW p \in GoalPatches
      PROVE  PatchedGoal(g, p) \in Goals
  <2>1. /\ g.status \in GoalStatuses \cup {"none"} /\ g.blocker \in BOOLEAN
        /\ p.status \in GoalStatuses \cup {"keep"} /\ p.blocker \in PatchTexts
    BY DEF Goals, GoalPatches
  <2> DEFINE status == IF p.status = "keep" THEN g.status ELSE p.status
  <2>2. status \in GoalStatuses \cup {"none"}
    BY <2>1
  <2>3. PatchedGoal(g, p).blocker \in BOOLEAN
    BY <2>1 DEF PatchedGoal, TextAfter
  <2> QED
    BY <2>2, <2>3 DEF PatchedGoal, Goals
<1> QED
  BY <1>1, <1>2

LEMMA PlanTyped ==
  /\ NoPlan \in Seq(Steps) /\ Len(NoPlan) = 0
  /\ \A steps \in Seq(Steps), n \in Nat :
       /\ WithSteps(steps, n) \in Seq(Steps)
       /\ Len(WithSteps(steps, n)) = Len(steps) + n
<1>1. NoPlan \in Seq(Steps) /\ Len(NoPlan) = 0
  BY DEF NoPlan
<1>2. ASSUME NEW steps \in Seq(Steps), NEW n \in Nat
      PROVE  /\ WithSteps(steps, n) \in Seq(Steps)
             /\ Len(WithSteps(steps, n)) = Len(steps) + n
  <2> DEFINE more == [i \in 1 .. n |-> [status |-> "pending", note |-> FALSE]]
  <2>1. [status |-> "pending", note |-> FALSE] \in Steps
    BY DEF Steps, StepStatuses
  <2>2. more \in Seq(Steps) /\ Len(more) = n
    BY <2>1
  <2> QED
    BY <2>2 DEF WithSteps
<1> QED
  BY <1>1, <1>2

LEMMA StepTyped ==
  ASSUME NEW s \in Steps, NEW p \in StepPatches
  PROVE  PatchedStep(s, p) \in Steps
<1>1. /\ s.status \in StepStatuses /\ s.note \in BOOLEAN
      /\ p.status \in StepStatuses \cup {"keep"} /\ p.note \in PatchTexts
  BY DEF Steps, StepPatches
<1>2. (IF p.status = "keep" THEN s.status ELSE p.status) \in StepStatuses
  BY <1>1
<1>3. TextAfter(s.note, p.note) \in BOOLEAN
  BY <1>1 DEF TextAfter
<1> QED
  BY <1>2, <1>3 DEF PatchedStep, Steps

-----------------------------------------------------------------------------
(* Type correctness *)

LEMMA InitInv == Init => Inv
<1> SUFFICES ASSUME Init PROVE Inv
  OBVIOUS
<1>1. nudges \in [goal : 0 .. MaxGoalNudges, plan : 0 .. MaxPlanNudges]
  BY BoundsNat DEF Init
<1>2. plan \in Seq(Steps) /\ Len(plan) <= MaxSteps
  BY PlanTyped, BoundsNat DEF Init
<1>3. writing \in [name : Files \cup {"none"}, content : SUBSET (1 .. MaxEntries)]
  BY DEF Init, NoFile
<1>4. /\ files \in [Files -> SUBSET (1 .. MaxEntries)] /\ acked \in [Logs -> SUBSET (1 .. MaxEntries)]
      /\ resume \in [Logs -> SUBSET (1 .. MaxEntries)] /\ lost \in [Logs -> SUBSET (1 .. MaxEntries)]
  BY DEF Init
<1>5. /\ calls \in 0 .. MaxLLMCalls /\ iterations \in 0 .. MaxToolIterations
      /\ runs \in 0 .. MaxRuns /\ crashes \in 0 .. MaxCrashes /\ faults \in 0 .. MaxFaults
  BY BoundsNat DEF Init
<1>6. /\ {stream, delta, partial} \subseteq BOOLEAN /\ reply = {} /\ unread = FALSE
      /\ remind = {} /\ told = {} /\ goal = NoGoal /\ pc = "new" /\ writing = NoFile
  BY DEF Init
<1> QED
  BY <1>1, <1>2, <1>3, <1>4, <1>5, <1>6, GoalTyped DEF Inv, TypeOK, WritingKnown, Ends

(* The stores and the hooks as a new run finds them. *)
LEMMA FreshTyped ==
  ASSUME FreshContract, FreshRequest, FreshOutput
  PROVE  /\ goal' \in Goals
         /\ plan' \in Seq(Steps) /\ Len(plan') <= MaxSteps
         /\ nudges' \in [goal : 0 .. MaxGoalNudges, plan : 0 .. MaxPlanNudges]
         /\ remind' \subseteq Contract /\ told' \subseteq Contract
         /\ calls' \in 0 .. MaxLLMCalls /\ iterations' \in 0 .. MaxToolIterations
         /\ resume' \in [Logs -> SUBSET (1 .. MaxEntries)] /\ unread' \in BOOLEAN
         /\ {stream', delta', partial'} \subseteq BOOLEAN
         /\ reply' \subseteq Texts
<1>1. nudges' \in [goal : 0 .. MaxGoalNudges, plan : 0 .. MaxPlanNudges]
  BY BoundsNat DEF FreshContract
<1>2. plan' \in Seq(Steps) /\ Len(plan') <= MaxSteps
  BY PlanTyped, BoundsNat DEF FreshContract
<1>3. calls' \in 0 .. MaxLLMCalls /\ iterations' \in 0 .. MaxToolIterations
  BY BoundsNat DEF FreshRequest
<1>4. resume' \in [Logs -> SUBSET (1 .. MaxEntries)] /\ unread' \in BOOLEAN
  BY DEF FreshRequest, Unresumed
<1>5. goal' \in Goals /\ remind' \subseteq Contract /\ told' \subseteq Contract
  BY GoalTyped DEF FreshContract
<1>6. {stream', delta', partial'} \subseteq BOOLEAN
  BY DEF FreshOutput
<1>7. reply' \subseteq Texts
  BY DEF FreshOutput
<1> QED
  BY <1>1, <1>2, <1>3, <1>4, <1>5, <1>6, <1>7, Zenon

LEMMA BeginRunInv == Inv /\ BeginRun => Inv'
<1> SUFFICES ASSUME Inv, BeginRun PROVE Inv'
  OBVIOUS
<1>1. runs' \in 0 .. MaxRuns
  BY BoundsNat DEF Inv, TypeOK, BeginRun
<1>2. UNCHANGED <<files, acked, writing, lost, crashes, faults>> /\ pc' = "before"
  BY DEF BeginRun, store
<1>3. writing = NoFile
  BY DEF Inv, WritingKnown, BeginRun, Ends
<1>4. FreshContract /\ FreshRequest /\ FreshOutput
  BY DEF BeginRun
<1> QED
  BY <1>1, <1>2, <1>3, <1>4, FreshTyped DEF Inv, TypeOK, WritingKnown

(* A file that is cut off holds a part of what it should, and nothing is   *)
(* being written any more.                                                 *)
LEMMA CutOffTyped ==
  ASSUME Inv, pc = "writing", CutOff
  PROVE  /\ files' \in [Files -> SUBSET (1 .. MaxEntries)]
         /\ lost' \in [Logs -> SUBSET (1 .. MaxEntries)]
         /\ writing' = NoFile
<1>1. PICK last \in 0 .. MaxEntries :
        /\ files' = [files EXCEPT ![writing.name] = {e \in writing.content : e <= last}]
        /\ lost' = [m \in Logs |-> IF m = writing.name
                                   THEN acked[m] \ {e \in writing.content : e <= last} ELSE lost[m]]
        /\ writing' = NoFile
  BY DEF CutOff
<1>2. /\ writing.content \subseteq 1 .. MaxEntries
      /\ files \in [Files -> SUBSET (1 .. MaxEntries)]
      /\ acked \in [Logs -> SUBSET (1 .. MaxEntries)] /\ lost \in [Logs -> SUBSET (1 .. MaxEntries)]
  BY DEF Inv, TypeOK
<1>3. files' \in [Files -> SUBSET (1 .. MaxEntries)]
  BY <1>1, <1>2
<1>4. lost' \in [Logs -> SUBSET (1 .. MaxEntries)]
  BY <1>1, <1>2
<1> QED
  BY <1>1, <1>3, <1>4

LEMMA CrashInv == Inv /\ Crash => Inv'
<1> SUFFICES ASSUME Inv, Crash PROVE Inv'
  OBVIOUS
<1>1. crashes' \in 0 .. MaxCrashes
  BY BoundsNat DEF Inv, TypeOK, Crash
<1>2. UNCHANGED <<acked, runs, faults>> /\ pc' = "new"
  BY DEF Crash
<1>3. /\ files' \in [Files -> SUBSET (1 .. MaxEntries)]
      /\ lost' \in [Logs -> SUBSET (1 .. MaxEntries)]
      /\ writing' = NoFile
  <2>1. CASE pc = "writing"
    BY <2>1, CutOffTyped DEF Crash
  <2>2. CASE pc # "writing"
    BY <2>2 DEF Crash, Inv, TypeOK, WritingKnown
  <2> QED
    BY <2>1, <2>2
<1>4. writing' \in [name : Files \cup {"none"}, content : SUBSET (1 .. MaxEntries)]
  BY <1>3 DEF NoFile
<1>5. FreshContract /\ FreshRequest /\ FreshOutput
  BY DEF Crash
<1> QED
  BY <1>1, <1>2, <1>3, <1>4, <1>5, FreshTyped DEF Inv, TypeOK, WritingKnown, Ends

LEMMA BeforeModelInv == Inv /\ BeforeModel => Inv'
<1> SUFFICES ASSUME Inv, BeforeModel PROVE Inv'
  OBVIOUS
<1>1. calls' \in 0 .. MaxLLMCalls
  BY BoundsNat DEF Inv, TypeOK, BeforeModel, OutOfCalls
<1>2. /\ resume' \in [Logs -> SUBSET (1 .. MaxEntries)] /\ unread' \in BOOLEAN
      /\ faults' \in 0 .. MaxFaults
  <2>1. /\ files \in [Files -> SUBSET (1 .. MaxEntries)] /\ Logs \subseteq Files
        /\ unread \in BOOLEAN /\ faults \in 0 .. MaxFaults
    BY DEF Inv, TypeOK, Files
  <2>2. resume' = Snapshot \/ Unresumed
    BY DEF BeforeModel, ReadState
  <2>3. resume' \in [Logs -> SUBSET (1 .. MaxEntries)]
    BY <2>1, <2>2 DEF Snapshot, Unresumed
  <2>4. unread' \in BOOLEAN
    BY <2>1 DEF BeforeModel, ReadState
  <2>5. faults' \in 0 .. MaxFaults
    BY <2>1, BoundsNat DEF BeforeModel, ReadState
  <2> QED
    BY <2>3, <2>4, <2>5
<1>3. stream' \in BOOLEAN
  BY DEF BeforeModel, Streamed
<1>4. /\ UNCHANGED <<goal, plan, nudges, iterations, delta, reply, files, acked, writing, lost, runs, crashes>>
      /\ pc = "before" /\ pc' = "model" /\ remind' = {} /\ partial' = FALSE
      /\ told' \subseteq Contract
  BY DEF BeforeModel, store
<1> QED
  BY <1>1, <1>2, <1>3, <1>4 DEF Inv, TypeOK, WritingKnown

LEMMA AnswerHeldInv == Inv /\ AnswerHeld => Inv'
<1> SUFFICES ASSUME Inv, AnswerHeld PROVE Inv'
  OBVIOUS
<1>1. nudges' \in [goal : 0 .. MaxGoalNudges, plan : 0 .. MaxPlanNudges]
  <2>1. /\ nudges.goal \in 0 .. MaxGoalNudges /\ nudges.plan \in 0 .. MaxPlanNudges
        /\ nudges \in [goal : 0 .. MaxGoalNudges, plan : 0 .. MaxPlanNudges]
    BY DEF Inv, TypeOK
  <2>2. CASE GoalHolds /\ Hold("goal")
    <3>1. nudges.goal + 1 \in 0 .. MaxGoalNudges
      BY <2>1, <2>2, BoundsNat DEF GoalHolds
    <3>2. nudges' = [nudges EXCEPT !["goal"] = nudges.goal + 1]
      BY <2>2 DEF Hold
    <3> QED
      BY <2>1, <3>1, <3>2
  <2>3. CASE PlanHolds /\ Hold("plan")
    <3>1. nudges.plan + 1 \in 0 .. MaxPlanNudges
      BY <2>1, <2>3, BoundsNat DEF PlanHolds
    <3>2. nudges' = [nudges EXCEPT !["plan"] = nudges.plan + 1]
      BY <2>3 DEF Hold
    <3> QED
      BY <2>1, <3>1, <3>2
  <2> QED
    BY <2>2, <2>3 DEF AnswerHeld
<1>2. /\ UNCHANGED <<goal, plan, told, calls, iterations, stream, delta, partial,
                     files, acked, writing, lost, resume, unread, runs, crashes, faults>>
      /\ pc = "model" /\ pc' = "before"
      /\ remind' \subseteq Contract /\ reply' \subseteq reply \cup {"held"}
  BY DEF AnswerHeld, Hold, budget, store, handed, session, Contract
<1> QED
  BY <1>1, <1>2 DEF Inv, TypeOK, WritingKnown, Texts

(* The steps that end the model's turn or the run. *)
LEMMA TurnInv ==
  Inv /\ (StreamDelta \/ AnswerReleased \/ CallsTool \/ ModelFails \/ CircuitBreak \/ Cut) => Inv'
<1> SUFFICES ASSUME Inv, StreamDelta \/ AnswerReleased \/ CallsTool \/ ModelFails \/ CircuitBreak \/ Cut
             PROVE  Inv'
  OBVIOUS
<1>1. UNCHANGED <<goal, plan, nudges, remind, told, calls, iterations, stream,
                  files, acked, writing, lost, resume, unread, runs, crashes, faults>>
  BY DEF StreamDelta, AnswerReleased, CallsTool, ModelFails, CircuitBreak, Cut,
         contract, budget, store, handed, session
<1>2. delta' \in BOOLEAN /\ partial' \in BOOLEAN
  BY DEF StreamDelta, AnswerReleased, CallsTool, ModelFails, CircuitBreak, Cut, Inv, TypeOK
<1>3. reply' \subseteq Texts
  BY DEF StreamDelta, AnswerReleased, CallsTool, ModelFails, CircuitBreak, Cut, Inv, TypeOK,
         Collected, Texts
<1>4. pc # "writing" /\ pc' # "writing" /\ pc' \in Ends \cup {"before", "model", "tools"}
  BY DEF StreamDelta, AnswerReleased, CallsTool, ModelFails, CircuitBreak, Cut, Ends
<1> QED
  BY <1>1, <1>2, <1>3, <1>4 DEF Inv, TypeOK, WritingKnown

LEMMA ToolRunsTyped ==
  ASSUME Inv, ToolRuns
  PROVE  iterations' \in 0 .. MaxToolIterations
<1>1. MaxToolIterations \in Nat
  BY BoundsNat
<1>2. iterations \in 0 .. MaxToolIterations /\ iterations # MaxToolIterations /\ iterations' = iterations + 1
  BY DEF Inv, TypeOK, ToolRuns, OutOfIterations
<1> QED
  BY <1>1, <1>2

LEMMA ContractToolInv ==
  ASSUME Inv, ContractTool, goal' \in Goals, plan' \in Seq(Steps), Len(plan') <= MaxSteps
  PROVE  Inv'
<1>1. /\ UNCHANGED <<nudges, remind, told, calls, stream, delta, partial, reply,
                     files, acked, writing, lost, resume, unread, runs, crashes, faults>>
      /\ pc = "tools" /\ pc' = "before"
  BY DEF ContractTool, ToolRuns, output, store, handed, session
<1>2. iterations' \in 0 .. MaxToolIterations
  BY ToolRunsTyped DEF ContractTool
<1> QED
  BY <1>1, <1>2 DEF Inv, TypeOK, WritingKnown

LEMMA WriteStateInv ==
  ASSUME Inv, NEW n \in Files, NEW e \in 1 .. MaxEntries, WriteState(n, e)
  PROVE  Inv'
<1>1. /\ UNCHANGED <<goal, plan, nudges, remind, told, calls, stream, delta, partial, reply,
                     acked, lost, resume, unread, runs, crashes, faults>>
      /\ pc' = "writing" /\ writing'.name = n
  BY DEF WriteState, contract, output, handed, session
<1>2. iterations' \in 0 .. MaxToolIterations
  BY ToolRunsTyped DEF WriteState
<1>3. writing' \in [name : Files \cup {"none"}, content : SUBSET (1 .. MaxEntries)]
  BY DEF WriteState, NewContent, Inv, TypeOK
<1>4. files' \in [Files -> SUBSET (1 .. MaxEntries)]
  BY DEF WriteState, Inv, TypeOK
<1> QED
  BY <1>1, <1>2, <1>3, <1>4 DEF Inv, TypeOK, WritingKnown

LEMMA FinishWriteInv == Inv /\ FinishWrite => Inv'
<1> SUFFICES ASSUME Inv, FinishWrite PROVE Inv'
  OBVIOUS
<1>1. /\ UNCHANGED <<goal, plan, nudges, remind, told, calls, iterations, stream, delta, partial,
                     reply, lost, resume, unread, runs, crashes, faults>>
      /\ pc' = "before" /\ writing' = NoFile
  BY DEF FinishWrite, contract, budget, output, handed, session
<1>2. writing.name \in Files /\ writing.content \subseteq 1 .. MaxEntries
  BY DEF Inv, TypeOK, WritingKnown, FinishWrite
<1>3. /\ files' \in [Files -> SUBSET (1 .. MaxEntries)]
      /\ acked' \in [Logs -> SUBSET (1 .. MaxEntries)]
  BY <1>2 DEF FinishWrite, Inv, TypeOK
<1>4. writing' \in [name : Files \cup {"none"}, content : SUBSET (1 .. MaxEntries)]
  BY <1>1 DEF NoFile
<1> QED
  BY <1>1, <1>3, <1>4 DEF Inv, TypeOK, WritingKnown

LEMMA WriteFailsInv == Inv /\ WriteFails => Inv'
<1> SUFFICES ASSUME Inv, WriteFails PROVE Inv'
  OBVIOUS
<1>1. /\ UNCHANGED <<goal, plan, nudges, remind, told, calls, iterations, stream, delta, partial,
                     reply, acked, resume, unread, runs, crashes>>
      /\ pc = "writing" /\ pc' = "before" /\ CutOff
  BY DEF WriteFails, contract, budget, output, handed
<1>2. faults' \in 0 .. MaxFaults
  BY BoundsNat DEF WriteFails, Inv, TypeOK
<1>3. /\ files' \in [Files -> SUBSET (1 .. MaxEntries)]
      /\ lost' \in [Logs -> SUBSET (1 .. MaxEntries)]
      /\ writing' = NoFile
  BY <1>1, CutOffTyped
<1>4. writing' \in [name : Files \cup {"none"}, content : SUBSET (1 .. MaxEntries)]
  BY <1>3 DEF NoFile
<1> QED
  BY <1>1, <1>2, <1>3, <1>4 DEF Inv, TypeOK, WritingKnown

LEMMA UseToolInv == Inv /\ UseTool => Inv'
<1> SUFFICES ASSUME Inv, UseTool PROVE Inv'
  OBVIOUS
<1>1. goal \in Goals /\ plan \in Seq(Steps) /\ Len(plan) <= MaxSteps /\ MaxSteps \in Nat
  BY BoundsNat DEF Inv, TypeOK
<1>2. CASE CreateGoal
  BY <1>1, <1>2, GoalTyped, ContractToolInv DEF CreateGoal
<1>3. CASE \E p \in GoalPatches : UpdateGoal(p)
  BY <1>1, <1>3, GoalTyped, ContractToolInv DEF UpdateGoal
<1>4. CASE \E n \in 1 .. MaxSteps : CreatePlan(n) \/ AddSteps(n)
  <2>1. PICK n \in 1 .. MaxSteps : CreatePlan(n) \/ AddSteps(n)
    BY <1>4
  <2>2. CASE CreatePlan(n)
    <3>1. plan' = WithSteps(NoPlan, n) /\ n \in Nat /\ n <= MaxSteps
      BY <1>1, <2>2 DEF CreatePlan
    <3>2. plan' \in Seq(Steps) /\ Len(plan') = 0 + n
      BY <3>1, PlanTyped
    <3>3. ContractTool /\ goal' = goal
      BY <2>2 DEF CreatePlan
    <3>4. Len(plan') <= MaxSteps
      BY <3>1, <3>2
    <3> QED
      BY <1>1, <3>2, <3>3, <3>4, ContractToolInv
  <2>3. CASE AddSteps(n)
    BY <1>1, <2>3, PlanTyped, ContractToolInv DEF AddSteps
  <2> QED
    BY <2>1, <2>2, <2>3
<1>5. CASE \E i \in 1 .. MaxSteps, p \in StepPatches : UpdateStep(i, p)
  <2>1. PICK i \in 1 .. MaxSteps, p \in StepPatches : UpdateStep(i, p)
    BY <1>5
  <2>2. PatchedStep(plan[i], p) \in Steps
    BY <1>1, <2>1, StepTyped DEF UpdateStep
  <2>3. plan' \in Seq(Steps) /\ Len(plan') = Len(plan)
    BY <1>1, <2>1, <2>2 DEF UpdateStep
  <2> QED
    BY <1>1, <2>1, <2>3, ContractToolInv DEF UpdateStep
<1>6. CASE OtherTool
  BY <1>1, <1>6, ContractToolInv DEF OtherTool
<1>7. CASE \E n \in Files, e \in 1 .. MaxEntries : WriteState(n, e)
  BY <1>7, WriteStateInv
<1> QED
  BY <1>2, <1>3, <1>4, <1>5, <1>6, <1>7 DEF UseTool

LEMMA StutterInv == Inv /\ UNCHANGED vars => Inv'
BY DEF Inv, TypeOK, WritingKnown, vars, contract, budget, output, store, handed, session

LEMMA NextInv == Inv /\ [Next]_vars => Inv'
BY BeginRunInv, BeforeModelInv, AnswerHeldInv, TurnInv, UseToolInv, FinishWriteInv,
   WriteFailsInv, CrashInv, StutterInv DEF Next, Work, Quiet

LEMMA SpecInv == Spec => []Inv
<1>1. Init => Inv
  BY InitInv
<1>2. Inv /\ [Next]_vars => Inv'
  BY NextInv
<1> QED
  BY <1>1, <1>2, PTL DEF Spec

(* Every variable keeps its type: the counters of calls, iterations and    *)
(* reminders never pass their budgets, whatever the model answers.         *)
THEOREM RunTyped == Spec => []TypeOK
<1>1. Inv => TypeOK
  BY DEF Inv
<1> QED
  BY <1>1, SpecInv, PTL

-----------------------------------------------------------------------------
(* No part of an answer that is held back is told *)

Untold == StreamedFree /\ NoPrematureText

LEMMA InitUntold == Init => Untold
BY DEF Init, Untold, StreamedFree, NoPrematureText

(* An answer that has been told in part is not held: nothing was open when *)
(* the request was streamed.                                               *)
LEMMA HeldUntold == Untold /\ AnswerHeld => Untold'
<1> SUFFICES ASSUME Untold, AnswerHeld PROVE Untold'
  OBVIOUS
<1>1. pc = "model" /\ (partial => ~GoalBlocks /\ ~PlanBlocks)
  BY DEF AnswerHeld, Untold, StreamedFree
<1>2. GoalBlocks \/ PlanBlocks
  BY DEF AnswerHeld, GoalHolds, PlanHolds
<1>3. reply' = reply /\ pc' = "before"
  BY <1>1, <1>2 DEF AnswerHeld, Hold
<1> QED
  BY <1>3 DEF Untold, StreamedFree, NoPrematureText

(* What the steps that collect a text add is never a held answer. *)
LEMMA CollectUntold ==
  Untold /\ (AnswerReleased \/ CallsTool \/ ModelFails \/ CircuitBreak \/ Cut) => Untold'
<1> SUFFICES ASSUME Untold, AnswerReleased \/ CallsTool \/ ModelFails \/ CircuitBreak \/ Cut
             PROVE  Untold'
  OBVIOUS
<1>1. pc' # "model"
  BY DEF AnswerReleased, CallsTool, ModelFails, CircuitBreak, Cut
<1>2. reply' \subseteq reply \cup {"answer", "narration", "notice"}
  BY DEF AnswerReleased, CallsTool, ModelFails, CircuitBreak, Cut, Collected
<1> QED
  BY <1>1, <1>2 DEF Untold, StreamedFree, NoPrematureText

LEMMA BeforeUntold == Untold /\ BeforeModel => Untold'
<1> SUFFICES ASSUME Untold, BeforeModel PROVE Untold'
  OBVIOUS
<1>1. partial' = FALSE /\ stream' = Streamed /\ UNCHANGED <<goal, plan, reply>>
  BY DEF BeforeModel
<1>2. stream' => ~GoalBlocks' /\ ~PlanBlocks'
  BY <1>1 DEF Streamed, GoalBlocks, PlanBlocks
<1> QED
  BY <1>1, <1>2 DEF Untold, StreamedFree, NoPrematureText

(* While the model answers, the contracts stay as they are. *)
LEMMA DeltaUntold == Untold /\ (StreamDelta \/ UNCHANGED vars) => Untold'
<1> SUFFICES ASSUME Untold, StreamDelta \/ UNCHANGED vars PROVE Untold'
  OBVIOUS
<1>1. /\ UNCHANGED <<pc, goal, plan, stream, reply>>
      /\ (StreamDelta => stream) /\ (~StreamDelta => UNCHANGED partial)
  BY DEF StreamDelta, vars, contract, output
<1>2. GoalBlocks' = GoalBlocks /\ PlanBlocks' = PlanBlocks
  BY <1>1 DEF GoalBlocks, PlanBlocks
<1> QED
  BY <1>1, <1>2 DEF Untold, StreamedFree, NoPrematureText

(* Elsewhere no request is under way, and at most the reply is emptied. *)
LEMMA ElsewhereUntold ==
  Untold /\ (BeginRun \/ Crash \/ UseTool \/ FinishWrite \/ WriteFails) => Untold'
<1> SUFFICES ASSUME Untold, BeginRun \/ Crash \/ UseTool \/ FinishWrite \/ WriteFails PROVE Untold'
  OBVIOUS
<1>1. pc' # "model"
  BY DEF BeginRun, Crash, UseTool, FinishWrite, WriteFails, ContractTool, WriteState,
         CreateGoal, UpdateGoal, CreatePlan, AddSteps, UpdateStep, OtherTool
<1>2. reply' = reply \/ reply' = {}
  BY DEF BeginRun, Crash, UseTool, FinishWrite, WriteFails, ContractTool, WriteState, output, FreshOutput,
         CreateGoal, UpdateGoal, CreatePlan, AddSteps, UpdateStep, OtherTool
<1> QED
  BY <1>1, <1>2 DEF Untold, StreamedFree, NoPrematureText

LEMMA NextUntold == Untold /\ [Next]_vars => Untold'
BY HeldUntold, CollectUntold, BeforeUntold, DeltaUntold, ElsewhereUntold DEF Next, Work, Quiet

(* Whatever the model answers and whichever contracts a run opens, a part  *)
(* of an answer reaches the reply only when no contract can hold it back   *)
(* (agent/goal.go, agent/plan.go; engine/engine.go collects the deltas).   *)
THEOREM HeldUnseen == Spec => []NoPrematureText
<1>1. Init => Untold
  BY InitUntold
<1>2. Untold /\ [Next]_vars => Untold'
  BY NextUntold
<1>3. Untold => NoPrematureText
  BY DEF Untold
<1> QED
  BY <1>1, <1>2, <1>3, PTL DEF Spec

-----------------------------------------------------------------------------
(* What was reported as written is there for the next run *)

(* The entries of a log that are not lost are in the file, or in the write *)
(* under way.                                                              *)
Kept(n) == Safe(n) \subseteq IF writing.name = n THEN writing.content ELSE files[n]

LEMMA InitSurvives == Init => ProgressSurvives
BY DEF Init, ProgressSurvives, Safe, Logs, Files, NoFile

(* The steps that leave the files as they are and start no call. *)
LEMMA StoreUntouched ==
  ASSUME ProgressSurvives, UNCHANGED <<files, acked, writing, lost>>,
         pc' = "model" => pc = "model" /\ UNCHANGED <<calls, resume, unread>>
  PROVE  ProgressSurvives'
BY DEF ProgressSurvives, Safe

LEMMA BeforeSurvives == Inv /\ ProgressSurvives /\ BeforeModel => ProgressSurvives'
<1> SUFFICES ASSUME Inv, ProgressSurvives, BeforeModel, NEW n \in Logs
             PROVE  /\ Kept(n)'
                    /\ calls' = 1 /\ ~unread' => Safe(n)' \subseteq resume'[n]
  BY DEF ProgressSurvives, Kept
<1>1. UNCHANGED <<files, acked, writing, lost>> /\ calls' = calls + 1 /\ ReadState
  BY DEF BeforeModel, store
<1>2. writing.name # n
  BY DEF Inv, WritingKnown, BeforeModel, NoFile, Logs
<1>3. Safe(n) \subseteq files[n]
  BY <1>2 DEF ProgressSurvives
<1>4. calls' = 1 /\ ~unread' => resume'[n] = files[n]
  <2>1. calls \in Nat
    BY BoundsNat DEF Inv, TypeOK
  <2> SUFFICES ASSUME calls' = 1, ~unread' PROVE resume'[n] = files[n]
    OBVIOUS
  <2>2. calls = 0
    BY <1>1, <2>1
  <2>3. resume' = Snapshot
    BY <1>1, <2>2 DEF ReadState
  <2> QED
    BY <2>3 DEF Snapshot
<1>5. Safe(n)' = Safe(n)
  BY <1>1 DEF Safe
<1> QED
  BY <1>1, <1>2, <1>3, <1>4, <1>5 DEF Kept

LEMMA WriteSurvives ==
  ASSUME Inv, ProgressSurvives, NEW m \in Files, NEW e \in 1 .. MaxEntries, WriteState(m, e)
  PROVE  ProgressSurvives'
<1>1. /\ UNCHANGED <<acked, lost>> /\ pc' = "writing"
      /\ writing' = [name |-> m, content |-> NewContent(m, e)]
      /\ files' = [files EXCEPT ![m] = {}]
  BY DEF WriteState
<1>2. SUFFICES ASSUME NEW n \in Logs
               PROVE  Safe(n) \subseteq IF m = n THEN NewContent(m, e) ELSE files'[n]
  BY <1>1 DEF ProgressSurvives, Safe
<1>3. writing.name # n
  BY DEF Inv, WritingKnown, WriteState, ToolRuns, NoFile, Logs
<1>4. Safe(n) \subseteq files[n]
  BY <1>3 DEF ProgressSurvives
<1>5. CASE m = n
  BY <1>2, <1>4, <1>5 DEF NewContent, Logs
<1>6. CASE m # n
  BY <1>1, <1>2, <1>4, <1>6 DEF Inv, TypeOK, Files
<1> QED
  BY <1>5, <1>6

LEMMA FinishSurvives == Inv /\ ProgressSurvives /\ FinishWrite => ProgressSurvives'
<1> SUFFICES ASSUME Inv, ProgressSurvives, FinishWrite PROVE ProgressSurvives'
  OBVIOUS
<1> DEFINE m == writing.name
<1>1. /\ pc' # "model" /\ writing' = NoFile /\ lost' = lost
      /\ files' = [files EXCEPT ![m] = writing.content]
      /\ acked' = [k \in Logs |-> IF k = m THEN acked[k] \cup writing.content ELSE acked[k]]
  BY DEF FinishWrite
<1>2. SUFFICES ASSUME NEW n \in Logs PROVE Safe(n)' \subseteq files'[n]
  BY <1>1 DEF ProgressSurvives, NoFile, Logs
<1>3. n \in Files /\ files \in [Files -> SUBSET (1 .. MaxEntries)]
  BY <1>2 DEF Files, Inv, TypeOK
<1>4. CASE m = n
  <2>1. Safe(n) \subseteq writing.content
    BY <1>2, <1>4 DEF ProgressSurvives
  <2>2. acked'[n] = acked[n] \cup writing.content /\ files'[n] = writing.content
    BY <1>1, <1>2, <1>3, <1>4
  <2> QED
    BY <1>1, <2>1, <2>2 DEF Safe
<1>5. CASE m # n
  <2>1. Safe(n) \subseteq files[n]
    BY <1>2, <1>5 DEF ProgressSurvives
  <2>2. acked'[n] = acked[n] /\ files'[n] = files[n]
    BY <1>1, <1>2, <1>3, <1>5
  <2> QED
    BY <1>1, <2>1, <2>2 DEF Safe
<1> QED
  BY <1>4, <1>5

(* A write that is cut off loses of its file what it leaves out, and       *)
(* nothing of another.                                                     *)
LEMMA CutOffSurvives ==
  ASSUME Inv, ProgressSurvives, pc = "writing", CutOff, acked' = acked, pc' # "model"
  PROVE  ProgressSurvives'
<1> DEFINE m == writing.name
<1>1. PICK last \in 0 .. MaxEntries :
        /\ files' = [files EXCEPT ![m] = {e \in writing.content : e <= last}]
        /\ lost' = [k \in Logs |-> IF k = m THEN acked[k] \ {e \in writing.content : e <= last}
                                  ELSE lost[k]]
        /\ writing' = NoFile
  BY DEF CutOff
<1> DEFINE filled == {e \in writing.content : e <= last}
<1>2. SUFFICES ASSUME NEW n \in Logs PROVE Safe(n)' \subseteq files'[n]
  BY <1>1 DEF ProgressSurvives, NoFile, Logs
<1>3. n \in Files /\ files \in [Files -> SUBSET (1 .. MaxEntries)]
  BY <1>2 DEF Files, Inv, TypeOK
<1>4. CASE m = n
  <2>1. files'[n] = filled /\ lost'[n] = acked[n] \ filled
    BY <1>1, <1>2, <1>3, <1>4
  <2> QED
    BY <2>1 DEF Safe
<1>5. CASE m # n
  <2>1. Safe(n) \subseteq files[n]
    BY <1>2, <1>5 DEF ProgressSurvives
  <2>2. lost'[n] = lost[n] /\ files'[n] = files[n]
    BY <1>1, <1>2, <1>3, <1>5
  <2> QED
    BY <2>1, <2>2 DEF Safe
<1> QED
  BY <1>4, <1>5

LEMMA BrokenSurvives ==
  Inv /\ ProgressSurvives /\ (Crash \/ WriteFails) => ProgressSurvives'
<1> SUFFICES ASSUME Inv, ProgressSurvives, Crash \/ WriteFails PROVE ProgressSurvives'
  OBVIOUS
<1>1. acked' = acked /\ pc' # "model"
  BY DEF Crash, WriteFails
<1>2. CASE pc = "writing"
  BY <1>1, <1>2, CutOffSurvives DEF Crash, WriteFails
<1>3. CASE pc # "writing"
  BY <1>1, <1>3, StoreUntouched DEF Crash, WriteFails
<1> QED
  BY <1>2, <1>3

LEMMA ElsewhereSurvives ==
  ASSUME ProgressSurvives,
         \/ BeginRun \/ StreamDelta \/ AnswerHeld \/ AnswerReleased \/ CallsTool \/ ModelFails
         \/ CircuitBreak \/ Cut \/ UNCHANGED vars \/ ContractTool
  PROVE  ProgressSurvives'
<1>1. UNCHANGED <<files, acked, writing, lost>>
  BY DEF BeginRun, StreamDelta, AnswerHeld, AnswerReleased, CallsTool, ModelFails,
         CircuitBreak, Cut, vars, ContractTool, store
<1>2. pc' = "model" => pc = "model" /\ UNCHANGED <<calls, resume, unread>>
  BY DEF BeginRun, StreamDelta, AnswerHeld, Hold, AnswerReleased, CallsTool, ModelFails,
         CircuitBreak, Cut, vars, ContractTool, budget, handed
<1> QED
  BY <1>1, <1>2, StoreUntouched

LEMMA ToolSurvives == Inv /\ ProgressSurvives /\ UseTool => ProgressSurvives'
<1> SUFFICES ASSUME Inv, ProgressSurvives, UseTool PROVE ProgressSurvives'
  OBVIOUS
<1>1. CASE \E n \in Files, e \in 1 .. MaxEntries : WriteState(n, e)
  BY <1>1, WriteSurvives
<1>2. CASE ~\E n \in Files, e \in 1 .. MaxEntries : WriteState(n, e)
  <2>1. ContractTool
    BY <1>2 DEF UseTool, CreateGoal, UpdateGoal, CreatePlan, AddSteps, UpdateStep, OtherTool
  <2> QED
    BY <2>1, ElsewhereSurvives
<1> QED
  BY <1>1, <1>2

LEMMA NextSurvives == Inv /\ ProgressSurvives /\ [Next]_vars => ProgressSurvives'
BY BeforeSurvives, ToolSurvives, FinishSurvives, BrokenSurvives, ElsewhereSurvives
DEF Next, Work, Quiet

(* The progress and the lessons a run reported as written reach the first  *)
(* request of the next that can read them, through any number of runs,     *)
(* crashes and failing writes, but for the entries a write that was cut    *)
(* off has left out of its file (artifact/store.go, agent/state.go).       *)
THEOREM WrittenSurvives == Spec => []ProgressSurvives
<1>1. Init => ProgressSurvives
  BY InitSurvives
<1>2. Inv /\ ProgressSurvives /\ [Next]_vars => ProgressSurvives'
  BY NextSurvives
<1> QED
  BY <1>1, <1>2, SpecInv, PTL DEF Spec
=============================================================================
