--------------------------- MODULE ExecutionProofs ---------------------------
(***************************************************************************)
(* Theorems about the modules Approvals and Worktrees, as MCComponents     *)
(* instantiates them, for any number of calls, people, runs, faults and    *)
(* crashes.                                                                *)
(***************************************************************************)
EXTENDS MCComponents, TLAPS

LEMMA PartStays == [Next]_vars => UNCHANGED part
BY DEF Next, vars, ApprovalAlone, WorktreeAlone, EvalAlone, PromptAlone, KBaseAlone,
       SkillAlone, AccountAlone, SchemaAlone, ModelAlone

LEMMA ApprovalSteps == [Next]_vars /\ part = "approvals" => [Approval!Next]_(Approval!vars)
BY DEF Next, vars, ApprovalAlone, WorktreeAlone, EvalAlone, PromptAlone, KBaseAlone, SkillAlone,
       AccountAlone, SchemaAlone, ModelAlone, approvalsVars,
       Approval!vars, Approval!given, Approval!log

LEMMA WorktreeSteps == [Next]_vars /\ part = "worktrees" => [Worktree!Next]_(Worktree!vars)
BY DEF Next, vars, ApprovalAlone, WorktreeAlone, EvalAlone, PromptAlone, KBaseAlone, SkillAlone,
       AccountAlone, SchemaAlone, ModelAlone, worktreesVars,
       Worktree!vars, Worktree!git

-----------------------------------------------------------------------------
(* Approvals *)

(* Only a command that a rule holds back, and none denies, is stored. *)
StoredIsAsked == \A c \in Calls : row[c] # "none" => rules[c] = {"ask"}

(* Who approves is busy with a stored command, has consented and may. *)
ApproverMay ==
  \A p \in People :
    /\ desk[p].at # "idle" => desk[p].of \in Calls /\ row[desk[p].of] # "none"
    /\ desk[p].at \in {"approving", "ran"} =>
         /\ rules[desk[p].of] = {"ask"}
         /\ p \in consent[desk[p].of]
         /\ p = owner[desk[p].of] \/ p \in CanSeeAll

ApprovalInv ==
  Approval!TypeOK /\ StoredIsAsked /\ ApproverMay /\ Approval!AskedBeforeRun

LEMMA IdleTyped == Approval!Idle \in [at : {"idle", "approving", "ran", "rejecting"}, of : Calls \cup {NoCall}]
BY DEF Approval!Idle

LEMMA ApprovalInit == Approval!Init => ApprovalInv
<1> SUFFICES ASSUME Approval!Init PROVE ApprovalInv
  OBVIOUS
<1>1. Approval!TypeOK
  BY IdleTyped, BoundsAssumption DEF Approval!Init, Approval!TypeOK, Approval!Finished
<1>2. StoredIsAsked /\ ApproverMay /\ Approval!AskedBeforeRun
  BY DEF Approval!Init, StoredIsAsked, ApproverMay, Approval!AskedBeforeRun, Approval!Idle
<1> QED
  BY <1>1, <1>2 DEF ApprovalInv

LEMMA FaultTyped ==
  ASSUME Approval!TypeOK, Approval!Fault
  PROVE  faults' \in 0 .. MaxFaults
BY BoundsAssumption DEF Approval!TypeOK, Approval!Fault

LEMMA NotedTyped ==
  ASSUME Approval!TypeOK, NEW c \in Calls,
         NEW d \in Approval!Decisions \cup {"approved", "rejected"},
         Approval!Noted(c, d)
  PROVE  audit' \in [Calls -> SUBSET (Approval!Decisions \cup {"approved", "rejected"})]
<1> DEFINE D == Approval!Decisions \cup {"approved", "rejected"}
<1>1. audit \in [Calls -> SUBSET D] /\ audit' = [audit EXCEPT ![c] = @ \cup {d}]
  BY DEF Approval!TypeOK, Approval!Noted
<1> HIDE DEF D
<1>2. audit[c] \cup {d} \in SUBSET D
  BY <1>1 DEF D
<1> QED
  BY <1>1, <1>2 DEF D

(* The policy: what it lets run matches no rule, and only what it asks     *)
(* about is stored.                                                        *)
LEMMA CallInv ==
  ASSUME ApprovalInv, NEW c \in Calls,
         Approval!Allowed(c) \/ Approval!Denied(c) \/ Approval!Held(c) \/ Approval!Returns(c)
  PROVE  ApprovalInv'
<1>1. UNCHANGED <<rules, owner, desk, consent, crashes>>
  BY DEF Approval!Allowed, Approval!Denied, Approval!Held, Approval!Returns, Approval!given,
         Approval!log
<1>2. /\ call' \in [Calls -> Approval!Finished \cup {"new", "running"}]
      /\ ran' \in [Calls -> BOOLEAN]
      /\ row' \in [Calls -> {"none", "pending", "approved", "rejected"}]
  BY DEF ApprovalInv, Approval!TypeOK, Approval!Allowed, Approval!Denied, Approval!Held,
         Approval!Returns, Approval!Finished
<1>8. audit' \in [Calls -> SUBSET (Approval!Decisions \cup {"approved", "rejected"})]
  <2>1. \/ UNCHANGED audit
        \/ \E d \in Approval!Decisions : Approval!Noted(c, d)
    BY DEF Approval!Allowed, Approval!Denied, Approval!Held, Approval!Returns, Approval!Decisions,
           Approval!log
  <2> QED
    BY <2>1, NotedTyped DEF ApprovalInv, Approval!TypeOK
<1>3. faults' \in 0 .. MaxFaults
  BY FaultTyped DEF ApprovalInv, Approval!TypeOK, Approval!Allowed, Approval!Denied, Approval!Held,
         Approval!Returns
<1>4. Approval!TypeOK'
  BY <1>1, <1>2, <1>3, <1>8 DEF ApprovalInv, Approval!TypeOK
<1>5. rules[c] \subseteq {"ask", "deny"}
  BY DEF ApprovalInv, Approval!TypeOK
<1>6. \A d \in Calls : ran'[d] = ran[d] \/ rules[d] = {}
  BY <1>5 DEF ApprovalInv, Approval!TypeOK, Approval!Allowed, Approval!Denied, Approval!Held,
         Approval!Returns, Approval!Evaluate
<1>7. \A d \in Calls : row'[d] = row[d] \/ (rules[d] = {"ask"} /\ row'[d] # "none")
  BY <1>5 DEF ApprovalInv, Approval!TypeOK, Approval!Allowed, Approval!Denied, Approval!Held,
         Approval!Returns, Approval!Evaluate
<1> QED
  BY <1>1, <1>4, <1>6, <1>7
  DEF ApprovalInv, StoredIsAsked, ApproverMay, Approval!AskedBeforeRun

LEMMA OpenInv ==
  ASSUME ApprovalInv, NEW p \in People, NEW c \in Calls, NEW action \in {"approving", "rejecting"},
         Approval!Open(p, c, action)
  PROVE  ApprovalInv'
<1>1. UNCHANGED <<rules, owner, call, ran, row, audit, faults, crashes>>
  BY DEF Approval!Open, Approval!given
<1>2. /\ desk' = [desk EXCEPT ![p] = [at |-> action, of |-> c]]
      /\ consent' = IF action = "approving" THEN [consent EXCEPT ![c] = @ \cup {p}] ELSE consent
      /\ row[c] = "pending" /\ (p \in CanSeeAll \/ owner[c] = p)
  BY DEF Approval!Open, Approval!Resolving, Approval!MayResolve
<1>3. /\ desk \in [People -> [at : {"idle", "approving", "ran", "rejecting"}, of : Calls \cup {NoCall}]]
      /\ consent \in [Calls -> SUBSET People]
  BY DEF ApprovalInv, Approval!TypeOK
<1>4. /\ desk' \in [People -> [at : {"idle", "approving", "ran", "rejecting"}, of : Calls \cup {NoCall}]]
      /\ consent' \in [Calls -> SUBSET People]
  BY <1>2, <1>3
<1>5. Approval!TypeOK'
  BY <1>1, <1>4 DEF ApprovalInv, Approval!TypeOK
<1>6. \A d \in Calls : consent[d] \subseteq consent'[d]
  BY <1>2, <1>3
<1>7. ApproverMay'
  <2> SUFFICES ASSUME NEW q \in People
               PROVE  /\ desk'[q].at # "idle" => desk'[q].of \in Calls /\ row[desk'[q].of] # "none"
                      /\ desk'[q].at \in {"approving", "ran"} =>
                           /\ rules[desk'[q].of] = {"ask"}
                           /\ q \in consent'[desk'[q].of]
                           /\ q = owner[desk'[q].of] \/ q \in CanSeeAll
    BY <1>1 DEF ApproverMay
  <2>1. CASE q = p
    BY <1>2, <1>3, <2>1 DEF ApprovalInv, StoredIsAsked
  <2>2. CASE q # p
    <3>1. desk'[q] = desk[q]
      BY <1>2, <1>3, <2>2
    <3> QED
      BY <1>6, <3>1 DEF ApprovalInv, ApproverMay
  <2> QED
    BY <2>1, <2>2
<1> QED
  BY <1>1, <1>5, <1>6, <1>7 DEF ApprovalInv, StoredIsAsked, Approval!AskedBeforeRun

(* A decision is stored, and the person is done with it, whether or not    *)
(* the statement fails.                                                    *)
LEMMA ResolveInv ==
  ASSUME ApprovalInv, NEW p \in People, NEW outcome \in {"approved", "rejected"},
         desk[p].of \in Calls, row[desk[p].of] # "none",
         Approval!Resolve(p, outcome)
  PROVE  ApprovalInv'
<1>1. UNCHANGED <<rules, owner, call, ran, consent, crashes>>
  BY DEF Approval!Resolve, Approval!given
<1>2. /\ desk' = [desk EXCEPT ![p] = Approval!Idle]
      /\ \A d \in Calls : row'[d] # "none" <=> row[d] # "none"
  BY DEF Approval!Resolve, ApprovalInv, Approval!TypeOK
<1>3. /\ row' \in [Calls -> {"none", "pending", "approved", "rejected"}]
      /\ audit' \in [Calls -> SUBSET (Approval!Decisions \cup {"approved", "rejected"})]
  <2>1. UNCHANGED audit \/ Approval!Noted(desk[p].of, outcome)
    BY DEF Approval!Resolve
  <2>2. row' \in [Calls -> {"none", "pending", "approved", "rejected"}]
    BY DEF Approval!Resolve, ApprovalInv, Approval!TypeOK
  <2> QED
    BY <2>1, <2>2, NotedTyped DEF ApprovalInv, Approval!TypeOK
<1>4. faults' \in 0 .. MaxFaults
  BY FaultTyped DEF Approval!Resolve, ApprovalInv, Approval!TypeOK
<1>5. desk' \in [People -> [at : {"idle", "approving", "ran", "rejecting"}, of : Calls \cup {NoCall}]]
  BY <1>2, IdleTyped DEF ApprovalInv, Approval!TypeOK
<1>6. Approval!TypeOK'
  BY <1>1, <1>3, <1>4, <1>5 DEF ApprovalInv, Approval!TypeOK
<1>7. \A q \in People : desk'[q] = desk[q] \/ desk'[q].at = "idle"
  BY <1>2 DEF ApprovalInv, Approval!TypeOK, Approval!Idle
<1> QED
  BY <1>1, <1>2, <1>6, <1>7 DEF ApprovalInv, StoredIsAsked, ApproverMay, Approval!AskedBeforeRun

(* What is run past the policy is what the approver has consented to. *)
LEMMA RunApprovedInv ==
  ASSUME ApprovalInv, NEW p \in People, Approval!RunApproved(p) \/ Approval!NotRun(p)
  PROVE  ApprovalInv'
<1> DEFINE c == desk[p].of
<1>1. /\ UNCHANGED <<rules, owner, call, row, audit, consent, faults, crashes>>
      /\ desk[p].at = "approving"
  BY DEF Approval!RunApproved, Approval!NotRun, Approval!given, Approval!log
<1>2. /\ c \in Calls /\ rules[c] = {"ask"} /\ p \in consent[c]
      /\ p = owner[c] \/ p \in CanSeeAll
  BY <1>1 DEF ApprovalInv, ApproverMay
<1>3. desk' \in [People -> [at : {"idle", "approving", "ran", "rejecting"}, of : Calls \cup {NoCall}]]
  BY <1>2, IdleTyped DEF ApprovalInv, Approval!TypeOK, Approval!RunApproved, Approval!NotRun,
                         Approval!Resolving
<1>4. ran' \in [Calls -> BOOLEAN]
  BY DEF ApprovalInv, Approval!TypeOK, Approval!RunApproved, Approval!NotRun
<1>5. Approval!TypeOK'
  BY <1>1, <1>3, <1>4 DEF ApprovalInv, Approval!TypeOK
<1>6. \A d \in Calls : ran'[d] = ran[d] \/ d = c
  BY DEF ApprovalInv, Approval!TypeOK, Approval!RunApproved, Approval!NotRun
<1>7. \A q \in People : desk'[q] = desk[q] \/ (q = p /\ desk'[q].of = c) \/ desk'[q].at = "idle"
  BY DEF ApprovalInv, Approval!TypeOK, Approval!RunApproved, Approval!NotRun, Approval!Resolving,
         Approval!Idle
<1>8. ApproverMay'
  BY <1>1, <1>2, <1>7 DEF ApprovalInv, ApproverMay
<1>9. Approval!AskedBeforeRun'
  BY <1>1, <1>2, <1>6 DEF ApprovalInv, Approval!AskedBeforeRun
<1> QED
  BY <1>1, <1>5, <1>8, <1>9 DEF ApprovalInv, StoredIsAsked

LEMMA ApprovalCrashInv == ApprovalInv /\ Approval!Crash => ApprovalInv'
<1> SUFFICES ASSUME ApprovalInv, Approval!Crash PROVE ApprovalInv'
  OBVIOUS
<1>1. /\ UNCHANGED <<rules, owner, ran, row, audit, consent, faults>>
      /\ desk' = [p \in People |-> Approval!Idle]
  BY DEF Approval!Crash, Approval!given, Approval!log
<1>2. crashes' \in 0 .. MaxCrashes
  BY BoundsAssumption DEF ApprovalInv, Approval!TypeOK, Approval!Crash
<1>3. call' \in [Calls -> Approval!Finished \cup {"new", "running"}]
  BY DEF ApprovalInv, Approval!TypeOK, Approval!Crash, Approval!Finished
<1>4. Approval!TypeOK'
  BY <1>1, <1>2, <1>3, IdleTyped DEF ApprovalInv, Approval!TypeOK
<1> QED
  BY <1>1, <1>4 DEF ApprovalInv, StoredIsAsked, ApproverMay, Approval!AskedBeforeRun, Approval!Idle

LEMMA ApprovalNext == ApprovalInv /\ [Approval!Next]_(Approval!vars) => ApprovalInv'
<1> SUFFICES ASSUME ApprovalInv, [Approval!Next]_(Approval!vars) PROVE ApprovalInv'
  OBVIOUS
<1>1. ASSUME NEW p \in People, Approval!Reject(p) \/ Approval!Approve(p) PROVE ApprovalInv'
  BY <1>1, ResolveInv DEF Approval!Reject, Approval!Approve, ApprovalInv, ApproverMay
<1>2. CASE UNCHANGED Approval!vars
  BY <1>2 DEF ApprovalInv, Approval!TypeOK, StoredIsAsked, ApproverMay, Approval!AskedBeforeRun,
              Approval!vars, Approval!given, Approval!log
<1> QED
  BY <1>1, <1>2, CallInv, OpenInv, RunApprovedInv, ApprovalCrashInv
  DEF Approval!Next, Approval!Quiet

LEMMA ApprovalsHold == Spec => [](part = "approvals" => ApprovalInv)
<1>1. Init => (part = "approvals" => ApprovalInv)
  BY ApprovalInit DEF Init
<1>2. (part = "approvals" => ApprovalInv) /\ [Next]_vars => (part = "approvals" => ApprovalInv)'
  BY ApprovalSteps, ApprovalNext, PartStays
<1> QED
  BY <1>1, <1>2, PTL DEF Spec

(* Whatever the policy, the people and the crashes do: a command runs only *)
(* when no rule denies it and, if a rule holds it back, somebody who may   *)
(* decide on it has approved it (executor/policy.go, api/checkpoint.go).   *)
THEOREM RunsApproved == Spec => []AskedBeforeRun
<1>1. (part = "approvals" => ApprovalInv) => AskedBeforeRun
  BY DEF ApprovalInv, AskedBeforeRun
<1> QED
  BY ApprovalsHold, <1>1, PTL

-----------------------------------------------------------------------------
(* Worktrees *)

(* Every branch is one run's, or main. *)
LEMMA BranchesDiffer ==
  /\ Worktree!Main \in Worktree!Branches
  /\ \A r \in Runs : Worktree!Own(r) \in Worktree!Branches /\ Worktree!Other(r) \in Worktree!Branches
  /\ \A q, r \in Runs : /\ Worktree!Own(r) # Worktree!Main /\ Worktree!Other(r) # Worktree!Main
                        /\ Worktree!Own(r) # Worktree!Other(q)
                        /\ Worktree!Own(r) = Worktree!Own(q) => r = q
                        /\ Worktree!Other(r) = Worktree!Other(q) => r = q
BY DEF Worktree!Own, Worktree!Other, Worktree!Main, Worktree!Branches

(* The branch of a run under way is there, and the repository's own        *)
(* directory is never on the branch of a run, the only kind that is        *)
(* deleted.                                                                *)
HeadsAreThere ==
  /\ head[NoRun] \in exists
  /\ \A r \in Runs : /\ head[NoRun] # Worktree!Own(r)
                     /\ wd[r] \in {NoRun, r}
                     /\ \A q \in Runs : q # r => head[r] # Worktree!Own(q)
                     /\ run[r] = "working" => head[wd[r]] \in exists

(* A branch is deleted only when one that is not has all it holds. *)
MergedIsKept ==
  \A r \in Runs : run[r] = "merged" =>
    \E b \in exists : /\ \A q \in Runs : b # Worktree!Own(q)
                     /\ holds[Worktree!Own(r)] \subseteq holds[b]

WorktreeInv == Worktree!TypeOK /\ HeadsAreThere /\ MergedIsKept /\ Worktree!WorkKept

LEMMA WorktreeInit == Worktree!Init => WorktreeInv
<1> SUFFICES ASSUME Worktree!Init PROVE WorktreeInv
  OBVIOUS
<1>1. Worktree!TypeOK
  BY BranchesDiffer, BoundsAssumption DEF Worktree!Init, Worktree!TypeOK, Worktree!Places
<1>2. HeadsAreThere
  BY BranchesDiffer DEF Worktree!Init, HeadsAreThere, Worktree!Places
<1>3. MergedIsKept /\ Worktree!WorkKept
  BY DEF Worktree!Init, MergedIsKept, Worktree!WorkKept
<1> QED
  BY <1>1, <1>2, <1>3 DEF WorktreeInv

(* Steps that touch no branch and no commit. *)
LEMMA BranchesUntouched ==
  ASSUME WorktreeInv, Worktree!TypeOK', UNCHANGED <<wd, head, exists, holds, committed>>,
         \A r \in Runs : /\ run'[r] = "working" => run[r] = "working"
                         /\ run'[r] = "merged" => run[r] = "merged"
  PROVE  WorktreeInv'
BY DEF WorktreeInv, HeadsAreThere, MergedIsKept, Worktree!WorkKept

LEMMA CreateInv ==
  ASSUME WorktreeInv, NEW r \in Runs, Worktree!Create(r)
  PROVE  WorktreeInv'
<1> DEFINE own == Worktree!Own(r)
<1>1. /\ UNCHANGED <<committed, dirty, conflict, merging, crashes>>
      /\ run[r] = "waiting" /\ own \notin exists
      /\ run' = [run EXCEPT ![r] = "working"]
      /\ exists' = exists \cup {own}
      /\ holds' = [holds EXCEPT ![own] = holds[head[NoRun]]]
      /\ checkouts' = checkouts \cup {r}
      /\ wd' = [wd EXCEPT ![r] = r] /\ head' = [head EXCEPT ![r] = own]
      /\ entries' = entries \cup {r}
  BY DEF Worktree!Create, Worktree!Goes
<1>2. Worktree!TypeOK'
  BY <1>1, BranchesDiffer DEF WorktreeInv, Worktree!TypeOK, Worktree!Places
<1>3. \A b \in Worktree!Branches : b # own => holds'[b] = holds[b]
  BY <1>1 DEF WorktreeInv, Worktree!TypeOK
<1>4. HeadsAreThere'
  <2>1. head'[r] = own /\ wd'[r] = r /\ own \in exists'
    BY <1>1 DEF WorktreeInv, Worktree!TypeOK, Worktree!Places
  <2>2. \A p \in Worktree!Places : p # r => head'[p] = head[p]
    BY <1>1 DEF WorktreeInv, Worktree!TypeOK
  <2>3. \A q \in Runs : q # r => wd'[q] = wd[q] /\ run'[q] = run[q]
    BY <1>1 DEF WorktreeInv, Worktree!TypeOK
  <2>4. \A q \in Runs : q # NoRun /\ q \in Worktree!Places /\ NoRun \in Worktree!Places
    BY WorktreesAssumption DEF Worktree!Places
  <2> QED
    BY <1>1, <2>1, <2>2, <2>3, <2>4, BranchesDiffer DEF WorktreeInv, HeadsAreThere
<1>5. MergedIsKept'
  <2> SUFFICES ASSUME NEW q \in Runs, run[q] = "merged"
               PROVE  \E b \in exists' : /\ \A p \in Runs : b # Worktree!Own(p)
                                        /\ holds'[Worktree!Own(q)] \subseteq holds'[b]
    <3>1. \A q \in Runs : run'[q] = "merged" => run[q] = "merged"
      BY <1>1 DEF WorktreeInv, Worktree!TypeOK
    <3> QED
      BY <3>1 DEF MergedIsKept
  <2>1. q # r
    BY <1>1
  <2>2. holds'[Worktree!Own(q)] = holds[Worktree!Own(q)]
    BY <1>3, <2>1, BranchesDiffer
  <2> QED
    BY <1>1, <1>3, <2>2 DEF WorktreeInv, MergedIsKept, Worktree!TypeOK
<1>6. Worktree!WorkKept'
  BY <1>1, <1>3 DEF WorktreeInv, Worktree!WorkKept, Worktree!TypeOK
<1> QED
  BY <1>2, <1>4, <1>5, <1>6 DEF WorktreeInv

LEMMA FallBackInv ==
  ASSUME WorktreeInv, NEW r \in Runs, Worktree!FallBack(r)
  PROVE  WorktreeInv'
<1>1. /\ UNCHANGED <<entries, head, checkouts, exists, holds, dirty, conflict, committed, merging, crashes>>
      /\ run' = [run EXCEPT ![r] = "working"]
      /\ wd' = [wd EXCEPT ![r] = NoRun]
  BY DEF Worktree!FallBack, Worktree!Goes, Worktree!git
<1>2. Worktree!TypeOK'
  BY <1>1, BranchesDiffer DEF WorktreeInv, Worktree!TypeOK, Worktree!Places
<1>3. HeadsAreThere'
  <2>1. wd'[r] = NoRun /\ \A q \in Runs : q # r => wd'[q] = wd[q] /\ run'[q] = run[q]
    BY <1>1 DEF WorktreeInv, Worktree!TypeOK
  <2> QED
    BY <1>1, <2>1 DEF WorktreeInv, HeadsAreThere
<1>4. MergedIsKept' /\ Worktree!WorkKept'
  BY <1>1 DEF WorktreeInv, MergedIsKept, Worktree!WorkKept, Worktree!TypeOK
<1> QED
  BY <1>2, <1>3, <1>4 DEF WorktreeInv

(* A commit comes on a branch that is there, and takes nothing from any. *)
LEMMA CommitInv ==
  ASSUME WorktreeInv, NEW r \in Runs, Worktree!GitCommit(r)
  PROVE  WorktreeInv'
<1> DEFINE n == committed[r] + 1
           concluded == IF wd[r] = NoRun /\ conflict # NoRun
                        THEN holds[Worktree!Own(conflict)] ELSE {}
<1>1. /\ UNCHANGED <<run, entries, wd, head, checkouts, exists, merging, crashes>>
      /\ run[r] = "working" /\ n <= MaxCommits
      /\ committed' = [committed EXCEPT ![r] = n]
      /\ holds' = [holds EXCEPT ![head[wd[r]]] = @ \cup {<<r, n>>} \cup concluded]
      /\ dirty' \subseteq dirty
      /\ conflict' \in {conflict, NoRun}
  BY DEF Worktree!GitCommit
<1>2. /\ committed \in [Runs -> 0 .. MaxCommits] /\ MaxCommits \in Nat
      /\ holds \in [Worktree!Branches -> SUBSET Worktree!Commits]
      /\ head[wd[r]] \in Worktree!Branches /\ head[wd[r]] \in exists
  BY <1>1, BoundsAssumption DEF WorktreeInv, HeadsAreThere, Worktree!TypeOK
<1>3. n \in 1 .. MaxCommits
  BY <1>1, <1>2
<1>4. concluded \subseteq Worktree!Commits
  BY <1>2, BranchesDiffer DEF WorktreeInv, Worktree!TypeOK, Worktree!Places
<1>5. <<r, n>> \in Worktree!Commits
  BY <1>3 DEF Worktree!Commits
<1> HIDE DEF n, concluded
<1>6. holds' \in [Worktree!Branches -> SUBSET Worktree!Commits]
  BY <1>1, <1>2, <1>4, <1>5
<1>7. committed' \in [Runs -> 0 .. MaxCommits]
  BY <1>1, <1>2, <1>3
<1>8. Worktree!TypeOK'
  BY <1>1, <1>6, <1>7 DEF WorktreeInv, Worktree!TypeOK, Worktree!Places
<1>9. HeadsAreThere'
  BY <1>1 DEF WorktreeInv, HeadsAreThere
<1>10. /\ \A b \in Worktree!Branches : holds[b] \subseteq holds'[b] /\ (b # head[wd[r]] => holds'[b] = holds[b])
       /\ <<r, n>> \in holds'[head[wd[r]]]
  BY <1>1, <1>2
<1>11. MergedIsKept'
  <2> SUFFICES ASSUME NEW q \in Runs, run[q] = "merged"
               PROVE  \E b \in exists : /\ \A p \in Runs : b # Worktree!Own(p)
                                       /\ holds'[Worktree!Own(q)] \subseteq holds'[b]
    BY <1>1 DEF MergedIsKept
  <2>1. q # r
    BY <1>1
  <2>2. Worktree!Own(q) # head[wd[r]]
    BY <2>1 DEF WorktreeInv, HeadsAreThere
  <2>3. holds'[Worktree!Own(q)] = holds[Worktree!Own(q)]
    BY <1>10, <2>2, BranchesDiffer
  <2> QED
    BY <1>10, <2>3 DEF WorktreeInv, MergedIsKept, Worktree!TypeOK
<1>12. Worktree!WorkKept'
  <2> SUFFICES ASSUME NEW q \in Runs, NEW m \in 1 .. committed'[q]
               PROVE  \E b \in exists : <<q, m>> \in holds'[b]
    BY <1>1 DEF Worktree!WorkKept
  <2>1. CASE q = r /\ m = n
    BY <1>2, <1>10, <2>1
  <2>2. CASE ~(q = r /\ m = n)
    <3>1. m \in 1 .. committed[q]
      BY <1>1, <1>2, <2>2 DEF n
    <3>2. PICK b \in exists : <<q, m>> \in holds[b]
      BY <3>1 DEF WorktreeInv, Worktree!WorkKept
    <3> QED
      BY <1>10, <3>2 DEF WorktreeInv, Worktree!TypeOK
  <2> QED
    BY <2>1, <2>2
<1> QED
  BY <1>8, <1>9, <1>11, <1>12 DEF WorktreeInv

LEMMA BranchInv ==
  ASSUME WorktreeInv, NEW r \in Runs, NEW create \in BOOLEAN, Worktree!GitBranch(r, create)
  PROVE  WorktreeInv'
<1> DEFINE other == Worktree!Other(r)
<1>1. /\ UNCHANGED <<run, entries, wd, checkouts, dirty, conflict, committed, merging, crashes>>
      /\ run[r] = "working" /\ other \notin exists
      /\ exists' = exists \cup {other}
      /\ holds' = [holds EXCEPT ![other] = holds[head[wd[r]]]]
      /\ head' = [head EXCEPT ![wd[r]] = other] \/ head' = head
  BY DEF Worktree!GitBranch
<1>2. Worktree!TypeOK'
  BY <1>1, BranchesDiffer DEF WorktreeInv, Worktree!TypeOK
<1>3. HeadsAreThere'
  BY <1>1, <1>2, BranchesDiffer, WorktreesAssumption
  DEF WorktreeInv, HeadsAreThere, Worktree!TypeOK, Worktree!Places
<1>4. \A b \in Worktree!Branches : b # other => holds'[b] = holds[b]
  BY <1>1 DEF WorktreeInv, Worktree!TypeOK
<1>5. MergedIsKept'
  BY <1>1, <1>4, BranchesDiffer DEF WorktreeInv, MergedIsKept, Worktree!TypeOK
<1>6. Worktree!WorkKept'
  BY <1>1, <1>4 DEF WorktreeInv, Worktree!WorkKept, Worktree!TypeOK
<1> QED
  BY <1>2, <1>3, <1>5, <1>6 DEF WorktreeInv

(* A merge that went through puts what its branch holds on the branch the  *)
(* repository's directory is on.                                           *)
LEMMA MergedInv ==
  ASSUME WorktreeInv, NEW r \in Runs, Worktree!Merged(r)
  PROVE  WorktreeInv'
<1> DEFINE own == Worktree!Own(r)
           into == head[NoRun]
<1>1. /\ UNCHANGED <<entries, wd, head, checkouts, exists, dirty, conflict, committed, crashes>>
      /\ holds' = [holds EXCEPT ![into] = @ \cup holds[own]]
      /\ run' = [run EXCEPT ![r] = "merged"] /\ merging' = NoRun
  BY DEF Worktree!Merged, Worktree!Goes
<1>2. Worktree!TypeOK'
  BY <1>1, BranchesDiffer DEF WorktreeInv, Worktree!TypeOK, Worktree!Places
<1>3. into \in exists /\ into \in Worktree!Branches /\ \A q \in Runs : into # Worktree!Own(q)
  BY DEF WorktreeInv, HeadsAreThere, Worktree!TypeOK, Worktree!Places
<1>4. /\ \A b \in Worktree!Branches : holds[b] \subseteq holds'[b]
      /\ \A b \in Worktree!Branches : b # into => holds'[b] = holds[b]
      /\ holds[own] \subseteq holds'[into]
  BY <1>1, <1>3, BranchesDiffer DEF WorktreeInv, Worktree!TypeOK
<1>5. HeadsAreThere'
  BY <1>1, <1>2 DEF WorktreeInv, HeadsAreThere, Worktree!TypeOK
<1>6. MergedIsKept'
  <2> SUFFICES ASSUME NEW q \in Runs, run'[q] = "merged"
               PROVE  \E b \in exists : /\ \A p \in Runs : b # Worktree!Own(p)
                                       /\ holds'[Worktree!Own(q)] \subseteq holds'[b]
    BY <1>1 DEF MergedIsKept
  <2>1. holds'[Worktree!Own(q)] = holds[Worktree!Own(q)]
    BY <1>3, <1>4, BranchesDiffer
  <2>2. CASE q = r
    BY <1>3, <1>4, <2>1, <2>2
  <2>3. CASE q # r
    BY <1>1, <1>4, <2>1, <2>3 DEF WorktreeInv, MergedIsKept, Worktree!TypeOK
  <2> QED
    BY <2>2, <2>3
<1>7. Worktree!WorkKept'
  BY <1>1, <1>4 DEF WorktreeInv, Worktree!WorkKept, Worktree!TypeOK
<1> QED
  BY <1>2, <1>5, <1>6, <1>7 DEF WorktreeInv

LEMMA CleanupInv ==
  ASSUME WorktreeInv, NEW r \in Runs, Worktree!Cleanup(r)
  PROVE  WorktreeInv'
<1> DEFINE own == Worktree!Own(r)
<1>1. /\ UNCHANGED <<entries, wd, head, holds, conflict, committed, merging, crashes>>
      /\ run' = [run EXCEPT ![r] = "ended"]
      /\ checkouts' \subseteq checkouts /\ dirty' \subseteq dirty
      /\ exists' = IF run[r] = "merged" THEN exists \ {own} ELSE exists
      /\ run[r] # "working"
  BY DEF Worktree!Cleanup, Worktree!Goes
<1>2. Worktree!TypeOK'
  BY <1>1 DEF WorktreeInv, Worktree!TypeOK
<1>3. HeadsAreThere'
  BY <1>1, <1>2, BranchesDiffer DEF WorktreeInv, HeadsAreThere, Worktree!TypeOK
<1>4. MergedIsKept'
  BY <1>1 DEF WorktreeInv, MergedIsKept, Worktree!TypeOK
<1>5. Worktree!WorkKept'
  <2> SUFFICES ASSUME NEW q \in Runs, NEW m \in 1 .. committed[q]
               PROVE  \E b \in exists' : <<q, m>> \in holds[b]
    BY <1>1 DEF Worktree!WorkKept
  <2>1. PICK b \in exists : <<q, m>> \in holds[b]
    BY DEF WorktreeInv, Worktree!WorkKept
  <2>2. CASE run[r] = "merged" /\ b = own
    BY <1>1, <2>1, <2>2, BranchesDiffer DEF WorktreeInv, HeadsAreThere, MergedIsKept
  <2>3. CASE ~(run[r] = "merged" /\ b = own)
    BY <1>1, <2>1, <2>3
  <2> QED
    BY <2>2, <2>3
<1> QED
  BY <1>2, <1>3, <1>4, <1>5 DEF WorktreeInv

LEMMA WorktreeElsewhere ==
  ASSUME WorktreeInv,
         \/ \E r \in Runs : \/ Worktree!Edit(r) \/ Worktree!LockMerge(r) \/ Worktree!NotMerged(r)
                            \/ \E completed \in BOOLEAN : Worktree!Finalize(r, completed)
         \/ Worktree!Crash \/ UNCHANGED Worktree!vars
  PROVE  WorktreeInv'
<1>1. UNCHANGED <<wd, head, exists, holds, committed>>
  BY DEF Worktree!Edit, Worktree!LockMerge, Worktree!NotMerged, Worktree!Finalize, Worktree!Crash,
         Worktree!vars, Worktree!git
<1>2. \A r \in Runs : /\ run'[r] = "working" => run[r] = "working"
                      /\ run'[r] = "merged" => run[r] = "merged"
  BY DEF WorktreeInv, Worktree!TypeOK, Worktree!Edit, Worktree!LockMerge, Worktree!NotMerged,
         Worktree!Finalize, Worktree!Crash, Worktree!vars, Worktree!Goes
<1>3. /\ run' \in [Runs -> {"waiting", "working", "merging", "merged", "dropping", "ended"}]
      /\ crashes' \in 0 .. MaxCrashes
  BY BoundsAssumption
  DEF WorktreeInv, Worktree!TypeOK, Worktree!Edit, Worktree!LockMerge, Worktree!NotMerged,
      Worktree!Finalize, Worktree!Crash, Worktree!vars, Worktree!Goes
<1>4. /\ entries' \subseteq Runs /\ checkouts' = checkouts
      /\ dirty' \subseteq Worktree!Places /\ {conflict', merging'} \subseteq Worktree!Places
  BY DEF WorktreeInv, Worktree!TypeOK, Worktree!Edit, Worktree!LockMerge, Worktree!NotMerged,
         Worktree!Finalize, Worktree!Crash, Worktree!vars, Worktree!git, Worktree!Places
<1>5. Worktree!TypeOK'
  BY <1>1, <1>3, <1>4 DEF WorktreeInv, Worktree!TypeOK
<1> QED
  BY <1>1, <1>2, <1>5, BranchesUntouched

LEMMA WorktreeNext == WorktreeInv /\ [Worktree!Next]_(Worktree!vars) => WorktreeInv'
BY CreateInv, FallBackInv, CommitInv, BranchInv, MergedInv, CleanupInv, WorktreeElsewhere
DEF Worktree!Next, Worktree!Quiet

LEMMA WorktreesHold == Spec => [](part = "worktrees" => WorktreeInv)
<1>1. Init => (part = "worktrees" => WorktreeInv)
  BY WorktreeInit DEF Init
<1>2. (part = "worktrees" => WorktreeInv) /\ [Next]_vars => (part = "worktrees" => WorktreeInv)'
  BY WorktreeSteps, WorktreeNext, PartStays
<1> QED
  BY <1>1, <1>2, PTL DEF Spec

(* Every commit a run has made is on a branch there is: through merges,    *)
(* conflicts, crashes and reruns a branch is deleted only after main has   *)
(* all of it (worktree/worktree.go).                                       *)
THEOREM CommitsKept == Spec => []WorkKept
<1>1. (part = "worktrees" => WorktreeInv) => WorkKept
  BY DEF WorktreeInv, WorkKept
<1> QED
  BY WorktreesHold, <1>1, PTL
=============================================================================
