---------------------------- MODULE MCComponents ----------------------------
(***************************************************************************)
(* Instances, for TLC, of the components that share no state: one of them  *)
(* runs, the one the initial state picks, and the variables of the others  *)
(* are Off.  What holds of every behaviour of this module holds of each    *)
(* component by itself.                                                    *)
(***************************************************************************)
EXTENDS Naturals, Sequences, FiniteSets

CONSTANTS
  Calls, People, CanSeeAll, HasCheckpointer, NoCall,       \* Approvals
  Runs, NoRun, MaxCommits,                                 \* Worktrees
  Datasets, Evals, MaxCases, MaxEdits, Repeats,            \* Evaluation
  Iterations, Default, NoRow, Edited,                      \* PromptIter
  KBs, Docs, Texts, ChunkTarget, ChunkOverlap, NoKB,       \* Knowledge
  Learners, Sessions, Names, Bodies, Scanners, MaxCands,   \* Skills
  NoOne, Absent,
  Users, Tenants, Requests, Root, NoTenant, NoUser,        \* Access
  MaxRequests, MaxCredentials,
  Starters, Servers, Permissions,                          \* Migrations
  Ids, Addresses, Nothing, MaxChoices,                     \* Models
  MaxFaults, MaxCrashes                                    \* of several

VARIABLES
  part,  \* the component that runs
  rules, call, ran, row, consent, audit,
  run, entries, wd, head, checkouts, exists, holds, committed, dirty, conflict,
  merging,
  dataset, deleting, case, home, version, edits, updates, eval, listed, results,
  deleted, work,
  stored, user, status, before, at, verdict, was, sure,
  backend, base, store, req, alone, exact,
  cands, scan, library, keeper, suite, keyword, passed, spoiled,
  users, tenants, tokens, keys,
  applied, keyIndex, nameIndex, column, plain, sealed, legacy, granted,
  boot,
  provider, cache, models,
  owner, desk, requests, faults, crashes  \* of several

approvalsVars == <<rules, call, ran, row, consent, audit>>
worktreesVars ==
  <<run, entries, wd, head, checkouts, exists, holds, committed, dirty,
  conflict, merging>>
evaluationVars ==
  <<dataset, deleting, case, home, version, edits, updates, eval, listed, results,
  deleted, work>>
promptiterVars == <<stored, user, status, before, at, verdict, was, sure>>
knowledgeVars == <<backend, base, store, req, alone, exact>>
skillsVars ==
  <<cands, scan, library, keeper, suite, keyword, passed, spoiled>>
accessVars == <<users, tenants, tokens, keys>>
migrationsVars ==
  <<applied, keyIndex, nameIndex, column, plain, sealed, legacy, granted,
  boot>>
modelsVars == <<provider, cache, models>>
vars ==
  <<part, approvalsVars, worktreesVars, evaluationVars, promptiterVars,
    knowledgeVars, skillsVars, accessVars, migrationsVars, modelsVars,
    owner, desk, requests, faults, crashes>>

ASSUME BoundsAssumption ==
  {MaxCommits, MaxCases, MaxEdits, Repeats, ChunkTarget, ChunkOverlap, MaxCands, MaxRequests,
   MaxCredentials, MaxChoices, MaxFaults, MaxCrashes} \subseteq Nat

(* Two lines of text that fit together, and four of which the third does   *)
(* not fit in and the last is blank.                                       *)
SomeTexts == {<<2, 1>>, <<1, 0, 4, 0>>}

Approval == INSTANCE Approvals
Worktree == INSTANCE Worktrees
Eval == INSTANCE Evaluation
Prompt == INSTANCE PromptIter
KBase == INSTANCE Knowledge
Skill == INSTANCE Skills WITH Users <- Learners
Account == INSTANCE Access
Schema == INSTANCE Migrations
Model == INSTANCE Models WITH MaxRequests <- MaxChoices

ASSUME WorktreesAssumption == NoRun \notin Runs
ASSUME EvaluationAssumption == Repeats >= 1
ASSUME KnowledgeAssumption == NoKB \notin KBs /\ ChunkTarget >= 1 /\ Texts \subseteq Seq(Nat)
ASSUME PromptAssumption == NoRow \notin Prompt!Contents
ASSUME AccessAssumption == NoTenant \notin Tenants /\ NoUser \notin Account!Rows

-----------------------------------------------------------------------------
Off == "off"

ApprovalsOff ==
  /\ rules = Off /\ call = Off /\ ran = Off /\ row = Off /\ consent = Off
  /\ audit = Off
WorktreesOff ==
  /\ run = Off /\ entries = Off /\ wd = Off /\ head = Off /\ checkouts = Off
  /\ exists = Off /\ holds = Off /\ committed = Off /\ dirty = Off
  /\ conflict = Off /\ merging = Off
EvaluationOff ==
  /\ dataset = Off /\ deleting = Off /\ case = Off /\ home = Off
  /\ version = Off /\ edits = Off /\ updates = Off /\ eval = Off /\ listed = Off /\ results = Off
  /\ deleted = Off /\ work = Off
PromptiterOff ==
  /\ stored = Off /\ user = Off /\ status = Off /\ before = Off /\ at = Off
  /\ verdict = Off /\ was = Off /\ sure = Off
KnowledgeOff ==
  /\ backend = Off /\ base = Off /\ store = Off /\ req = Off /\ alone = Off
  /\ exact = Off
SkillsOff ==
  /\ cands = Off /\ scan = Off /\ library = Off /\ keeper = Off /\ suite = Off
  /\ keyword = Off /\ passed = Off /\ spoiled = Off
AccessOff ==
  /\ users = Off /\ tenants = Off /\ tokens = Off /\ keys = Off
MigrationsOff ==
  /\ applied = Off /\ keyIndex = Off /\ nameIndex = Off /\ column = Off
  /\ plain = Off /\ sealed = Off /\ legacy = Off /\ granted = Off
  /\ boot = Off
ModelsOff ==
  /\ provider = Off /\ cache = Off /\ models = Off

Init ==
  \/ /\ part = "approvals" /\ Approval!Init
     /\ WorktreesOff /\ EvaluationOff /\ PromptiterOff
     /\ KnowledgeOff /\ SkillsOff /\ AccessOff /\ MigrationsOff /\ ModelsOff
     /\ requests = Off
  \/ /\ part = "worktrees" /\ Worktree!Init
     /\ ApprovalsOff /\ EvaluationOff /\ PromptiterOff
     /\ KnowledgeOff /\ SkillsOff /\ AccessOff /\ MigrationsOff /\ ModelsOff
     /\ owner = Off /\ desk = Off /\ requests = Off
     /\ faults = Off
  \/ /\ part = "evaluation" /\ Eval!Init
     /\ ApprovalsOff /\ WorktreesOff /\ PromptiterOff
     /\ KnowledgeOff /\ SkillsOff /\ AccessOff /\ MigrationsOff /\ ModelsOff
     /\ owner = Off /\ desk = Off /\ requests = Off
  \/ /\ part = "promptiter" /\ Prompt!Init
     /\ ApprovalsOff /\ WorktreesOff /\ EvaluationOff
     /\ KnowledgeOff /\ SkillsOff /\ AccessOff /\ MigrationsOff /\ ModelsOff
     /\ owner = Off /\ desk = Off /\ requests = Off
  \/ /\ part = "knowledge" /\ KBase!Init
     /\ ApprovalsOff /\ WorktreesOff /\ EvaluationOff
     /\ PromptiterOff /\ SkillsOff /\ AccessOff /\ MigrationsOff /\ ModelsOff
     /\ owner = Off /\ desk = Off /\ requests = Off
  \/ /\ part = "skills" /\ Skill!Init
     /\ ApprovalsOff /\ WorktreesOff /\ EvaluationOff
     /\ PromptiterOff /\ KnowledgeOff /\ AccessOff /\ MigrationsOff
     /\ ModelsOff /\ requests = Off /\ crashes = Off
  \/ /\ part = "access" /\ Account!Init
     /\ ApprovalsOff /\ WorktreesOff /\ EvaluationOff
     /\ PromptiterOff /\ KnowledgeOff /\ SkillsOff /\ MigrationsOff
     /\ ModelsOff /\ owner = Off /\ crashes = Off
  \/ /\ part = "migrations" /\ Schema!Init
     /\ ApprovalsOff /\ WorktreesOff /\ EvaluationOff
     /\ PromptiterOff /\ KnowledgeOff /\ SkillsOff /\ AccessOff /\ ModelsOff
     /\ owner = Off /\ desk = Off /\ requests = Off
     /\ faults = Off
  \/ /\ part = "models" /\ Model!Init
     /\ ApprovalsOff /\ WorktreesOff /\ EvaluationOff
     /\ PromptiterOff /\ KnowledgeOff /\ SkillsOff /\ AccessOff
     /\ MigrationsOff /\ owner = Off /\ faults = Off
     /\ crashes = Off

ApprovalAlone ==
  /\ part = "approvals"
  /\ UNCHANGED <<part, worktreesVars, evaluationVars,
       promptiterVars, knowledgeVars, skillsVars, accessVars, migrationsVars,
       modelsVars, requests>>
WorktreeAlone ==
  /\ part = "worktrees"
  /\ UNCHANGED <<part, approvalsVars, evaluationVars,
       promptiterVars, knowledgeVars, skillsVars, accessVars, migrationsVars,
       modelsVars, owner, desk, requests, faults>>
EvalAlone ==
  /\ part = "evaluation"
  /\ UNCHANGED <<part, approvalsVars, worktreesVars,
       promptiterVars, knowledgeVars, skillsVars, accessVars, migrationsVars,
       modelsVars, owner, desk, requests>>
PromptAlone ==
  /\ part = "promptiter"
  /\ UNCHANGED <<part, approvalsVars, worktreesVars,
       evaluationVars, knowledgeVars, skillsVars, accessVars, migrationsVars,
       modelsVars, owner, desk, requests>>
KBaseAlone ==
  /\ part = "knowledge"
  /\ UNCHANGED <<part, approvalsVars, worktreesVars,
       evaluationVars, promptiterVars, skillsVars, accessVars, migrationsVars,
       modelsVars, owner, desk, requests>>
SkillAlone ==
  /\ part = "skills"
  /\ UNCHANGED <<part, approvalsVars, worktreesVars,
       evaluationVars, promptiterVars, knowledgeVars, accessVars, migrationsVars,
       modelsVars, requests, crashes>>
AccountAlone ==
  /\ part = "access"
  /\ UNCHANGED <<part, approvalsVars, worktreesVars,
       evaluationVars, promptiterVars, knowledgeVars, skillsVars, migrationsVars,
       modelsVars, owner, crashes>>
SchemaAlone ==
  /\ part = "migrations"
  /\ UNCHANGED <<part, approvalsVars, worktreesVars,
       evaluationVars, promptiterVars, knowledgeVars, skillsVars, accessVars,
       modelsVars, owner, desk, requests, faults>>
ModelAlone ==
  /\ part = "models"
  /\ UNCHANGED <<part, approvalsVars, worktreesVars,
       evaluationVars, promptiterVars, knowledgeVars, skillsVars, accessVars,
       migrationsVars, owner, faults, crashes>>

Next ==
  \/ ApprovalAlone /\ Approval!Next
  \/ WorktreeAlone /\ Worktree!Next
  \/ EvalAlone /\ Eval!Next
  \/ PromptAlone /\ Prompt!Next
  \/ KBaseAlone /\ KBase!Next
  \/ SkillAlone /\ Skill!Next
  \/ AccountAlone /\ Account!Next
  \/ SchemaAlone /\ Schema!Next
  \/ ModelAlone /\ Model!Next

Spec == Init /\ [][Next]_vars
-----------------------------------------------------------------------------
(* Properties: each component's own, stated where it is described *)

(* The type invariants. *)
TypesOK ==
  /\ part = "approvals" => Approval!TypeOK
  /\ part = "worktrees" => Worktree!TypeOK
  /\ part = "evaluation" => Eval!TypeOK
  /\ part = "promptiter" => Prompt!TypeOK
  /\ part = "knowledge" => KBase!TypeOK
  /\ part = "skills" => Skill!TypeOK
  /\ part = "access" => Account!TypeOK
  /\ part = "migrations" => Schema!TypeOK
  /\ part = "models" => Model!TypeOK

(* What may run only after an approval has been approved (Approvals). *)
AskedBeforeRun == part = "approvals" => Approval!AskedBeforeRun

(* The commits of a run are on a branch or on main (Worktrees). *)
WorkKept == part = "worktrees" => Worktree!WorkKept

(* A run that is done has all its results (Evaluation). *)
DoneIsComplete == part = "evaluation" => Eval!DoneIsComplete

(* A refused instruction is not left in force (PromptIter). *)
RefusedIsUndone == part = "promptiter" => Prompt!RefusedIsUndone

(* The counts of a base are those of its vectors (Knowledge). *)
CountsRight == part = "knowledge" => KBase!CountsRight

(* The library has only skills that were checked (Skills). *)
LibraryChecked == part = "skills" => Skill!LibraryChecked

(* No start of a node loses a secret or skips a version (Migrations). *)
SecretsKept == part = "migrations" => Schema!SecretsKept

(* The last active administrator and a deleted tenant's users (Access). *)
AccountsSound == [][part = "access" => Account!AccountsStep]_vars

(* Choices survive a sync, one default stays one (Models). *)
ChoicesKept == [][part = "models" => Model!ChoicesStep]_vars
==============================================================================
