------------------------------ MODULE Contracts ------------------------------
(***************************************************************************)
(* The two contracts an orchestrator works under: the goal of the run      *)
(* (goal/goal.go) and its plan (plan/plan.go), as values, and what the     *)
(* operations of the stores make of them.  Titles, criteria, notes and     *)
(* blockers are texts; only whether a note or a blocker is given matters.  *)
(* A step is named by its place: ids count up and no step is ever removed. *)
(***************************************************************************)
EXTENDS Naturals, Sequences

(* What a patch brings for a text: nothing, a text, or blanks only, which  *)
(* are trimmed and so clear the text there is.                             *)
PatchTexts == {"none", "given", "blank"}
TextAfter(there, text) == IF text = "none" THEN there ELSE text = "given"

GoalStatuses == {"pending", "in_progress", "complete", "blocked"}
Goals == [status : GoalStatuses \cup {"none"}, blocker : BOOLEAN]
NoGoal == [status |-> "none", blocker |-> FALSE]
GoalOpen(g) == g.status \in {"pending", "in_progress"}

(* create_goal overwrites the goal there is.                               *)
NewGoal == [status |-> "in_progress", blocker |-> FALSE]

GoalPatches == [status : GoalStatuses \cup {"keep"}, blocker : PatchTexts]

(* A blocker is kept until a patch brings another, or the goal is, after a *)
(* patch without one, no longer blocked.                                   *)
PatchedGoal(g, p) ==
  LET status == IF p.status = "keep" THEN g.status ELSE p.status
      there == IF p.blocker = "none" THEN g.blocker /\ status = "blocked" ELSE g.blocker
  IN  [status |-> status, blocker |-> TextAfter(there, p.blocker)]

GoalPatchRefused(g, p) ==
  LET status == IF p.status = "keep" THEN g.status ELSE p.status
  IN  status = "blocked" /\ ~TextAfter(g.blocker, p.blocker)

-----------------------------------------------------------------------------
StepStatuses == {"pending", "in_progress", "done", "skipped", "failed"}
Steps == [status : StepStatuses, note : BOOLEAN]
StepOpen(s) == s.status \in {"pending", "in_progress"}

NoPlan == <<>>
PlanOpen(plan) == \E i \in DOMAIN plan : StepOpen(plan[i])

(* AddSteps, and Create on an empty plan.                                  *)
WithSteps(plan, n) == plan \o [i \in 1 .. n |-> [status |-> "pending", note |-> FALSE]]

StepPatches == [status : StepStatuses \cup {"keep"}, note : PatchTexts]

PatchedStep(s, p) ==
  [status |-> IF p.status = "keep" THEN s.status ELSE p.status,
   note |-> TextAfter(s.note, p.note)]

StepPatchRefused(s, p) ==
  LET after == PatchedStep(s, p) IN after.status \in {"skipped", "failed"} /\ ~after.note

(* The step a reminder names: the first under way, else the first pending. *)
NextStep(plan) ==
  LET under == {i \in DOMAIN plan : plan[i].status = "in_progress"}
      open == {i \in DOMAIN plan : StepOpen(plan[i])}
      from == IF under # {} THEN under ELSE open
  IN  IF from = {} THEN 0 ELSE CHOOSE i \in from : \A j \in from : i <= j
=============================================================================
