---------------------------- MODULE LearningProofs ----------------------------
(***************************************************************************)
(* Theorems about the modules PromptIter and Skills, as MCComponents       *)
(* instantiates them, for any number of users, iterations, scanners,       *)
(* requests, skills, faults and crashes.                                   *)
(***************************************************************************)
EXTENDS ExecutionProofs

LEMMA PromptSteps == [Next]_vars /\ part = "promptiter" => [Prompt!Next]_(Prompt!vars)
BY DEF Next, vars, ApprovalAlone, WorktreeAlone, EvalAlone, PromptAlone, KBaseAlone, SkillAlone,
       AccountAlone, SchemaAlone, ModelAlone, promptiterVars, Prompt!vars

LEMMA SkillSteps == [Next]_vars /\ part = "skills" => [Skill!Next]_(Skill!vars)
BY DEF Next, vars, ApprovalAlone, WorktreeAlone, EvalAlone, PromptAlone, KBaseAlone, SkillAlone,
       AccountAlone, SchemaAlone, ModelAlone, skillsVars, Skill!vars, Skill!table, Skill!check

-----------------------------------------------------------------------------
(* PromptIter *)

(* The row says "running" as long as there is a goroutine, which has come  *)
(* to a verdict when it saves.                                             *)
RunsSaySo ==
  \A i \in Iterations : /\ at[i] # "idle" => status[i] = "running"
                        /\ at[i] = "saving" => verdict[i] \in Prompt!Verdicts

InForce(i) == Prompt!Content(user[i]) = was[i]

Refusing == {"rolled_back", "failed", "no_improvement"}

(* An iteration that is sure of itself has looked, knows what to put back, *)
(* and what it found is in force before it writes and after it refuses.    *)
SureOf(i) ==
  /\ before[i] = was[i] /\ status[i] # "none"
  /\ at[i] \notin {"baseline", "reading"}
  /\ at[i] \in {"reflecting", "applying"} => InForce(i)
  /\ at[i] = "saving" /\ verdict[i] \in Refusing => InForce(i)
  /\ status[i] \in Refusing => InForce(i)

PromptInv == Prompt!TypeOK /\ RunsSaySo /\ \A i \in sure : SureOf(i)

LEMMA PromptSound == PromptInv => Prompt!RefusedIsUndone
BY DEF PromptInv, SureOf, Refusing, InForce, Prompt!RefusedIsUndone

LEMMA PromptInit == Prompt!Init => PromptInv
BY BoundsAssumption
DEF Prompt!Init, PromptInv, RunsSaySo, Prompt!TypeOK, Prompt!Contents

LEMMA ContentTyped ==
  ASSUME Prompt!TypeOK, NEW u \in Users
  PROVE  Prompt!Content(u) \in Prompt!Contents
BY DEF Prompt!TypeOK, Prompt!Content, Prompt!Contents

LEMMA FaultsTyped ==
  ASSUME Prompt!TypeOK, Prompt!Fault
  PROVE  faults' \in 0 .. MaxFaults
BY BoundsAssumption DEF Prompt!TypeOK, Prompt!Fault

(* Whoever is sure and not touched by a step stays sure. *)
LEMMA SureStays ==
  ASSUME PromptInv, NEW i \in Iterations, SureOf(i), UNCHANGED <<stored, user>>,
         before'[i] = before[i], was'[i] = was[i], at'[i] = at[i],
         status'[i] = status[i], verdict'[i] = verdict[i]
  PROVE  SureOf(i)'
BY DEF SureOf, InForce, Prompt!Content

(* A write of a user's instruction: the others' are as they were, and of   *)
(* the user's iterations only those of mine may still be sure.             *)
LEMMA WriteKept ==
  ASSUME PromptInv, NEW u \in Users, NEW content \in Prompt!Contents, NEW mine,
         Prompt!Writes(u, content, mine)
  PROVE  /\ stored' \in [Users -> Prompt!Contents \cup {NoRow}]
         /\ stored' = [stored EXCEPT ![u] = content] /\ stored'[u] = content
         /\ sure' \subseteq sure
         /\ \A i \in sure' : user[i] = u => i \in mine
         /\ Prompt!Content(u)' = content
         /\ \A v \in Users : v # u => Prompt!Content(v)' = Prompt!Content(v)
<1>1. stored' = [stored EXCEPT ![u] = content] /\ sure' = sure \ (Prompt!IterationsOf(u) \ mine)
  BY DEF Prompt!Writes
<1>2. stored \in [Users -> Prompt!Contents \cup {NoRow}] /\ sure \subseteq Iterations
  BY DEF PromptInv, Prompt!TypeOK
<1>3. stored' \in [Users -> Prompt!Contents \cup {NoRow}] /\ stored'[u] = content
  BY <1>1, <1>2
<1>4. \A i \in sure' : user[i] = u => i \in mine
  BY <1>1, <1>2 DEF Prompt!IterationsOf
<1>5. content # NoRow
  BY PromptAssumption
<1>6. Prompt!Content(u)' = content
  BY <1>3, <1>5 DEF Prompt!Content
<1>7. \A v \in Users : v # u => Prompt!Content(v)' = Prompt!Content(v)
  BY <1>1, <1>2 DEF Prompt!Content
<1> QED
  BY <1>1, <1>3, <1>4, <1>6, <1>7

LEMMA EditInv ==
  ASSUME PromptInv, NEW u \in Users, Prompt!UpdateInstruction(u)
  PROVE  PromptInv'
<1>1. /\ Prompt!Writes(u, Edited, {}) /\ Edited \in Prompt!Contents
      /\ UNCHANGED <<user, status, before, at, verdict, was, faults, crashes>>
  BY DEF Prompt!UpdateInstruction, Prompt!Contents
<1>2. /\ stored' \in [Users -> Prompt!Contents \cup {NoRow}] /\ sure' \subseteq sure
      /\ \A i \in sure' : user[i] # u
      /\ \A v \in Users : v # u => Prompt!Content(v)' = Prompt!Content(v)
  BY <1>1, WriteKept
<1>3. Prompt!TypeOK' /\ RunsSaySo'
  BY <1>1, <1>2 DEF PromptInv, Prompt!TypeOK, RunsSaySo
<1>4. ASSUME NEW i \in sure' PROVE SureOf(i)'
  <2>1. SureOf(i) /\ user[i] \in Users /\ user[i] # u
    BY <1>2 DEF PromptInv, Prompt!TypeOK
  <2>2. Prompt!Content(user[i])' = Prompt!Content(user[i])
    BY <1>1, <1>2, <2>1
  <2> QED
    BY <1>1, <2>1, <2>2 DEF SureOf, InForce
<1> QED
  BY <1>3, <1>4 DEF PromptInv

Elsewhere(i) ==
  \A j \in Iterations \ {i} :
    /\ before'[j] = before[j] /\ was'[j] = was[j] /\ at'[j] = at[j]
    /\ status'[j] = status[j] /\ verdict'[j] = verdict[j]

(* A step of one iteration that leaves instructions as they are. *)
LEMMA OneMoves ==
  ASSUME PromptInv, NEW i \in Iterations, UNCHANGED <<stored, user>>,
         Prompt!TypeOK', RunsSaySo', sure' \subseteq sure \cup {i}, Elsewhere(i),
         i \in sure' => SureOf(i)'
  PROVE  PromptInv'
<1>1. ASSUME NEW j \in sure', j # i PROVE SureOf(j)'
  <2>1. j \in sure /\ j \in Iterations /\ SureOf(j)
    BY <1>1 DEF PromptInv, Prompt!TypeOK
  <2> QED
    BY <1>1, <2>1, SureStays DEF Elsewhere
<1> QED
  BY <1>1 DEF PromptInv

LEMMA StartInv ==
  ASSUME PromptInv, NEW i \in Iterations, Prompt!StartOptimize(i)
  PROVE  PromptInv'
<1>1. /\ status[i] = "none" /\ status' = [status EXCEPT ![i] = "running"]
      /\ at' = [at EXCEPT ![i] = "baseline"]
      /\ UNCHANGED <<stored, user, before, verdict, was, sure, faults, crashes>>
  BY DEF Prompt!StartOptimize, Prompt!Requested, Prompt!newRun, Prompt!Goes
<1>2. Prompt!TypeOK' /\ RunsSaySo' /\ Elsewhere(i)
  BY <1>1 DEF PromptInv, Prompt!TypeOK, RunsSaySo, Elsewhere
<1>3. i \notin sure
  BY <1>1 DEF PromptInv, SureOf
<1> QED
  BY <1>1, <1>2, <1>3, OneMoves

(* An iteration that goes on, or to a verdict, without a write. *)
LEMMA GoesInv ==
  ASSUME PromptInv, NEW i \in Iterations,
         Prompt!Baseline(i) \/ Prompt!Reflect(i) \/ Prompt!Accept(i)
  PROVE  PromptInv'
<1> DEFINE to == at'[i]
<1>1. /\ UNCHANGED <<stored, user, status, before, was, sure, faults, crashes>>
      /\ at[i] \in {"baseline", "reflecting", "judging"}
  BY DEF Prompt!Baseline, Prompt!Reflect, Prompt!Accept
<1>2. /\ at \in [Iterations -> {"idle", "baseline", "reading", "reflecting", "applying", "judging", "saving"}]
      /\ verdict \in [Iterations -> {"none"} \cup Prompt!Verdicts]
  BY DEF PromptInv, Prompt!TypeOK
<1>3. \/ /\ at[i] = "baseline" /\ at' = [at EXCEPT ![i] = "reading"] /\ verdict' = verdict
      \/ /\ at[i] = "reflecting" /\ at' = [at EXCEPT ![i] = "applying"] /\ verdict' = verdict
      \/ \E v \in Prompt!Verdicts :
           /\ at[i] = "judging" => v = "accepted"
           /\ at' = [at EXCEPT ![i] = "saving"] /\ verdict' = [verdict EXCEPT ![i] = v]
  BY DEF Prompt!Baseline, Prompt!Reflect, Prompt!Accept, Prompt!Goes, Prompt!Ends, Prompt!Verdicts
<1>4. Prompt!TypeOK' /\ RunsSaySo' /\ Elsewhere(i)
  BY <1>1, <1>2, <1>3 DEF PromptInv, Prompt!TypeOK, RunsSaySo, Elsewhere
<1>5. ASSUME i \in sure PROVE SureOf(i)'
  <2>1. SureOf(i) /\ InForce(i)' = InForce(i)
    BY <1>1, <1>5 DEF PromptInv, InForce, Prompt!Content
  <2>2. CASE at[i] = "reflecting"
    BY <1>1, <1>2, <1>3, <2>1, <2>2 DEF SureOf
  <2>3. CASE at[i] = "judging"
    BY <1>1, <1>2, <1>3, <2>1, <2>3 DEF SureOf, Refusing
  <2> QED
    BY <1>1, <2>1, <2>2, <2>3 DEF SureOf
<1> QED
  BY <1>1, <1>4, <1>5, OneMoves

LEMMA ReadInv ==
  ASSUME PromptInv, NEW i \in Iterations, Prompt!ReadCurrent(i)
  PROVE  PromptInv'
<1> DEFINE found == Prompt!Content(user[i])
<1>1. found \in Prompt!Contents /\ Default \in Prompt!Contents
  BY ContentTyped DEF PromptInv, Prompt!TypeOK, Prompt!Contents
<1> HIDE DEF found
<1>2. /\ at[i] = "reading" /\ was' = [was EXCEPT ![i] = found] /\ at' = [at EXCEPT ![i] = "reflecting"]
      /\ UNCHANGED <<stored, user, status, verdict, crashes>>
      /\ \/ before' = [before EXCEPT ![i] = found] /\ sure' = sure \cup {i} /\ faults' = faults
         \/ before' = [before EXCEPT ![i] = Default] /\ sure' = sure /\ Prompt!Fault
  BY DEF Prompt!ReadCurrent, Prompt!Goes, found
<1>3. faults' \in 0 .. MaxFaults
  BY <1>2, FaultsTyped DEF PromptInv, Prompt!TypeOK
<1>4. Prompt!TypeOK' /\ RunsSaySo' /\ Elsewhere(i) /\ sure' \subseteq sure \cup {i}
  BY <1>1, <1>2, <1>3 DEF PromptInv, Prompt!TypeOK, RunsSaySo, Elsewhere
<1>5. i \notin sure /\ status[i] = "running"
  BY <1>2 DEF PromptInv, SureOf, RunsSaySo
<1>6. ASSUME i \in sure' PROVE SureOf(i)'
  <2>1. before'[i] = found /\ was'[i] = found /\ at'[i] = "reflecting" /\ status'[i] = "running"
    BY <1>2, <1>5, <1>6 DEF PromptInv, Prompt!TypeOK
  <2>2. InForce(i)'
    BY <1>2, <2>1 DEF InForce, found, Prompt!Content
  <2> QED
    BY <2>1, <2>2 DEF SureOf, Refusing
<1> QED
  BY <1>2, <1>4, <1>6, OneMoves

(* A write by an iteration, with what becomes of it. *)
LEMMA MineInv ==
  ASSUME PromptInv, NEW i \in Iterations, NEW content \in Prompt!Contents,
         Prompt!Writes(user[i], content, {i}), UNCHANGED <<user, before, was>>,
         Prompt!TypeOK', RunsSaySo', Elsewhere(i), i \in sure' => SureOf(i)'
  PROVE  PromptInv'
<1>1. user[i] \in Users
  BY DEF PromptInv, Prompt!TypeOK
<1>2. /\ sure' \subseteq sure /\ \A j \in sure' : user[j] = user[i] => j = i
      /\ \A v \in Users : v # user[i] => Prompt!Content(v)' = Prompt!Content(v)
  BY <1>1, WriteKept
<1>3. ASSUME NEW j \in sure', j # i PROVE SureOf(j)'
  <2>1. SureOf(j) /\ user[j] \in Users /\ user[j] # user[i] /\ j \in Iterations
    BY <1>2, <1>3 DEF PromptInv, Prompt!TypeOK
  <2>2. Prompt!Content(user[j])' = Prompt!Content(user[j])
    BY <1>2, <2>1
  <2>3. /\ before'[j] = before[j] /\ was'[j] = was[j] /\ at'[j] = at[j]
        /\ status'[j] = status[j] /\ verdict'[j] = verdict[j]
    BY <1>3, <2>1 DEF Elsewhere
  <2> QED
    BY <2>1, <2>2, <2>3 DEF SureOf, InForce
<1> QED
  BY <1>3 DEF PromptInv

(* And one that did not come to be: it is not sure any more. *)
LEMMA UnwrittenInv ==
  ASSUME PromptInv, NEW i \in Iterations, Prompt!WriteFails(user[i], i),
         Prompt!Ends(i, "failed") \/ Prompt!Ends(i, "rolled_back"),
         at[i] # "idle", UNCHANGED <<user, status, before, was, crashes>>
  PROVE  PromptInv'
<1>1. sure' = sure \ {i} /\ stored' = stored /\ (faults' = faults \/ Prompt!Fault)
  BY DEF Prompt!WriteFails
<1>2. faults' \in 0 .. MaxFaults
  BY <1>1, FaultsTyped DEF PromptInv, Prompt!TypeOK
<1>3. at' = [at EXCEPT ![i] = "saving"] /\ \E v \in Prompt!Verdicts : verdict' = [verdict EXCEPT ![i] = v]
  BY DEF Prompt!Ends, Prompt!Goes, Prompt!Verdicts
<1>4. Prompt!TypeOK' /\ RunsSaySo' /\ Elsewhere(i)
  BY <1>1, <1>2, <1>3 DEF PromptInv, Prompt!TypeOK, RunsSaySo, Elsewhere
<1> QED
  BY <1>1, <1>4, OneMoves

LEMMA ApplyInv ==
  ASSUME PromptInv, NEW i \in Iterations, Prompt!Apply(i)
  PROVE  PromptInv'
<1>1. at[i] = "applying" /\ UNCHANGED <<user, status, before, was, crashes>> /\ user[i] \in Users
  BY DEF Prompt!Apply, PromptInv, Prompt!TypeOK
<1>2. CASE Prompt!WriteFails(user[i], i) /\ Prompt!Ends(i, "failed")
  BY <1>1, <1>2, UnwrittenInv
<1>3. CASE /\ Prompt!Writes(user[i], Prompt!Improved(i), {i})
           /\ Prompt!Goes(i, "judging") /\ UNCHANGED <<verdict, faults>>
  <2>1. Prompt!Improved(i) \in Prompt!Contents /\ at' = [at EXCEPT ![i] = "judging"]
    BY <1>3 DEF Prompt!Contents, Prompt!Goes
  <2>2. stored' \in [Users -> Prompt!Contents \cup {NoRow}] /\ sure' \subseteq sure
    BY <1>1, <1>3, <2>1, WriteKept
  <2>3. Prompt!TypeOK' /\ RunsSaySo' /\ Elsewhere(i)
    BY <1>1, <1>3, <2>1, <2>2 DEF PromptInv, Prompt!TypeOK, RunsSaySo, Elsewhere
  <2>4. ASSUME i \in sure' PROVE SureOf(i)'
    <3>1. SureOf(i) /\ status[i] = "running" /\ at'[i] = "judging"
      BY <1>1, <2>1, <2>2, <2>4 DEF PromptInv, RunsSaySo, Prompt!TypeOK
    <3> QED
      BY <1>1, <3>1 DEF SureOf, Refusing
  <2> QED
    BY <1>1, <1>3, <2>1, <2>3, <2>4, MineInv
<1> QED
  BY <1>2, <1>3 DEF Prompt!Apply

LEMMA RejectInv ==
  ASSUME PromptInv, NEW i \in Iterations, Prompt!Reject(i)
  PROVE  PromptInv'
<1>1. /\ at[i] = "judging" /\ UNCHANGED <<user, status, before, was, crashes>> /\ user[i] \in Users
      /\ before[i] \in Prompt!Contents
  BY DEF Prompt!Reject, PromptInv, Prompt!TypeOK
<1>2. Prompt!Ends(i, "rolled_back")
  BY DEF Prompt!Reject
<1>3. CASE Prompt!WriteFails(user[i], i)
  BY <1>1, <1>2, <1>3, UnwrittenInv
<1>4. CASE Prompt!Writes(user[i], before[i], {i}) /\ UNCHANGED faults
  <2>1. at' = [at EXCEPT ![i] = "saving"] /\ verdict' = [verdict EXCEPT ![i] = "rolled_back"]
    BY <1>2 DEF Prompt!Ends, Prompt!Goes
  <2>2. /\ stored' \in [Users -> Prompt!Contents \cup {NoRow}] /\ sure' \subseteq sure
        /\ Prompt!Content(user[i])' = before[i]
    BY <1>1, <1>4, WriteKept
  <2>3. Prompt!TypeOK' /\ RunsSaySo' /\ Elsewhere(i)
    BY <1>1, <1>4, <2>1, <2>2 DEF PromptInv, Prompt!TypeOK, RunsSaySo, Elsewhere, Prompt!Verdicts
  <2>4. ASSUME i \in sure' PROVE SureOf(i)'
    <3>1. SureOf(i) /\ status[i] = "running" /\ at'[i] = "saving"
      BY <1>1, <2>1, <2>2, <2>4 DEF PromptInv, RunsSaySo, Prompt!TypeOK
    <3>2. InForce(i)'
      BY <1>1, <2>2, <3>1 DEF SureOf, InForce
    <3> QED
      BY <1>1, <3>1, <3>2 DEF SureOf, Refusing
  <2> QED
    BY <1>1, <1>4, <2>3, <2>4, MineInv
<1> QED
  BY <1>3, <1>4 DEF Prompt!Reject

LEMMA SaveInv ==
  ASSUME PromptInv, NEW i \in Iterations, Prompt!SaveVerdict(i)
  PROVE  PromptInv'
<1>1. /\ at[i] = "saving" /\ at' = [at EXCEPT ![i] = "idle"]
      /\ verdict' = [verdict EXCEPT ![i] = "none"]
      /\ UNCHANGED <<stored, user, before, was, sure, crashes>>
      /\ \/ status' = [status EXCEPT ![i] = verdict[i]] /\ faults' = faults
         \/ status' = status /\ Prompt!Fault
  BY DEF Prompt!SaveVerdict, Prompt!Goes
<1>2. faults' \in 0 .. MaxFaults
  BY <1>1, FaultsTyped DEF PromptInv, Prompt!TypeOK
<1>3. verdict[i] \in Prompt!Verdicts
  BY <1>1 DEF PromptInv, RunsSaySo
<1>4. Prompt!TypeOK' /\ RunsSaySo' /\ Elsewhere(i)
  BY <1>1, <1>2, <1>3 DEF PromptInv, Prompt!TypeOK, RunsSaySo, Elsewhere
<1>5. ASSUME i \in sure PROVE SureOf(i)'
  <2>1. SureOf(i) /\ InForce(i)' = InForce(i)
    BY <1>1, <1>5 DEF PromptInv, InForce, Prompt!Content
  <2>2. /\ before'[i] = before[i] /\ was'[i] = was[i] /\ at'[i] = "idle"
        /\ status'[i] = status[i] \/ status'[i] = verdict[i]
    BY <1>1, <1>3 DEF PromptInv, Prompt!TypeOK
  <2> QED
    BY <1>1, <1>3, <2>1, <2>2 DEF SureOf, Prompt!Verdicts
<1> QED
  BY <1>1, <1>4, <1>5, OneMoves

LEMMA RollbackInv ==
  ASSUME PromptInv, NEW i \in Iterations, Prompt!Rollback(i)
  PROVE  PromptInv'
<1>1. /\ status[i] \in {"accepted", "rolled_back"} /\ Prompt!Writes(user[i], before[i], {i})
      /\ UNCHANGED <<user, before, at, verdict, was, crashes>>
      /\ \/ status' = [status EXCEPT ![i] = "rolled_back"] /\ faults' = faults
         \/ status' = status /\ Prompt!Fault
  BY DEF Prompt!Rollback
<1>2. faults' \in 0 .. MaxFaults
  BY <1>1, FaultsTyped DEF PromptInv, Prompt!TypeOK
<1>3. user[i] \in Users /\ before[i] \in Prompt!Contents /\ at[i] = "idle"
  BY <1>1 DEF PromptInv, Prompt!TypeOK, RunsSaySo
<1>4. /\ stored' \in [Users -> Prompt!Contents \cup {NoRow}] /\ sure' \subseteq sure
      /\ Prompt!Content(user[i])' = before[i]
  BY <1>1, <1>3, WriteKept
<1>5. Prompt!TypeOK' /\ RunsSaySo' /\ Elsewhere(i)
  BY <1>1, <1>2, <1>3, <1>4 DEF PromptInv, Prompt!TypeOK, RunsSaySo, Elsewhere, Prompt!Verdicts
<1>6. ASSUME i \in sure' PROVE SureOf(i)'
  <2>1. SureOf(i) /\ status'[i] # "none" /\ at'[i] = "idle"
    BY <1>1, <1>3, <1>4, <1>6 DEF PromptInv, Prompt!TypeOK
  <2>2. InForce(i)'
    BY <1>1, <1>4, <2>1 DEF SureOf, InForce
  <2> QED
    BY <1>1, <2>1, <2>2 DEF SureOf
<1> QED
  BY <1>1, <1>3, <1>5, <1>6, MineInv

LEMMA PromptCrash ==
  ASSUME PromptInv, Prompt!Crash
  PROVE  PromptInv'
<1>1. /\ at' = [i \in Iterations |-> "idle"] /\ verdict' = [i \in Iterations |-> "none"]
      /\ UNCHANGED <<stored, user, status, before, was, sure, faults>>
      /\ crashes' = crashes + 1 /\ crashes < MaxCrashes
  BY DEF Prompt!Crash
<1>2. Prompt!TypeOK' /\ RunsSaySo'
  BY <1>1, BoundsAssumption DEF PromptInv, Prompt!TypeOK, RunsSaySo
<1>3. ASSUME NEW i \in sure PROVE SureOf(i)'
  <2>1. SureOf(i) /\ at'[i] = "idle" /\ InForce(i)' = InForce(i)
    BY <1>1 DEF PromptInv, Prompt!TypeOK, InForce, Prompt!Content
  <2> QED
    BY <1>1, <2>1 DEF SureOf
<1> QED
  BY <1>1, <1>2, <1>3 DEF PromptInv

LEMMA PromptNext == PromptInv /\ [Prompt!Next]_(Prompt!vars) => PromptInv'
<1> SUFFICES ASSUME PromptInv, [Prompt!Next]_(Prompt!vars) PROVE PromptInv'
  OBVIOUS
<1>1. CASE UNCHANGED Prompt!vars
  BY <1>1 DEF Prompt!vars, PromptInv, Prompt!TypeOK, RunsSaySo, SureOf, InForce, Prompt!Content
<1> QED
  BY <1>1, EditInv, StartInv, GoesInv, ReadInv, ApplyInv, RejectInv, SaveInv, RollbackInv, PromptCrash
  DEF Prompt!Next

LEMMA PromptsHold == Spec => [](part = "promptiter" => PromptInv)
<1>1. Init => (part = "promptiter" => PromptInv)
  BY PromptInit DEF Init
<1>2. (part = "promptiter" => PromptInv) /\ [Next]_vars => (part = "promptiter" => PromptInv)'
  BY PromptSteps, PromptNext, PartStays
<1> QED
  BY <1>1, <1>2, PTL DEF Spec

(* However iterations and edits overlap, fail and crash: one that says it  *)
(* was refused, while nobody else wrote and nothing failed, has left in    *)
(* force what it found (promptiter/optimizer.go).                          *)
THEOREM RefusalUndoes == Spec => []RefusedIsUndone
<1>1. (part = "promptiter" => PromptInv) => RefusedIsUndone
  BY PromptSound DEF RefusedIsUndone
<1> QED
  BY PromptsHold, <1>1, PTL

-----------------------------------------------------------------------------
(* Skills *)

Candidate ==
  [user : Learners, session : Sessions, skill : Skill!Skill, status : Skill!Statuses]

ScanStep ==
  [at : {"idle", "extracting", "found", "fresh"}, session : Sessions \cup {NoOne},
   skill : Skill!Skill \cup {Skill!NoSkill}]

Decision ==
  [at : {"idle", "loaded", "registered", "published", "checking", "removing", "approving", "rejecting"},
   cand : Nat]

ScansTyped ==
  /\ scan \in [Scanners -> ScanStep]
  /\ \A s \in Scanners : /\ scan[s].at # "idle" => scan[s].session \in Sessions
                         /\ scan[s].at \in {"found", "fresh"} => scan[s].skill \in Skill!Skill

(* A request is about a candidate that is there. *)
DesksTyped ==
  /\ desk \in [Requests -> Decision]
  /\ \A r \in Requests : IF desk[r].at = "idle" THEN desk[r].cand = 0 ELSE desk[r].cand \in Skill!Cands

LibraryTyped ==
  /\ owner \in [Sessions -> Learners] /\ cands \in Seq(Candidate)
  /\ library \in [Names -> Bodies \cup {Absent}]
  /\ keeper \in [Names -> Learners \cup {NoOne}]
  /\ suite \in [Names -> SUBSET (Names \cup Bodies)]
  /\ keyword \in Names \cup {Absent}
  /\ passed \subseteq Skill!Cands /\ spoiled \subseteq Names

(* What lets a candidate's skill be in the library. *)
Warrant(i) == i \in passed \/ \E r \in Requests : Skill!InLibrary(r) /\ desk[r].cand = i

LibraryRight ==
  \A n \in Names \ spoiled :
    library[n] # Absent =>
      \E i \in Skill!Cands : cands[i].skill = [name |-> n, body |-> library[n]] /\ Warrant(i)

SkillInv == ScansTyped /\ DesksTyped /\ LibraryTyped /\ LibraryRight

LEMMA LibrarySound == LibraryRight <=> Skill!LibraryChecked
BY DEF LibraryRight, Warrant, Skill!LibraryChecked

LEMMA SkillTyped == SkillInv => Skill!TypeOK
<1> SUFFICES ASSUME SkillInv PROVE Skill!TypeOK
  OBVIOUS
<1>1. \A i \in Skill!Cands : cands[i] \in Candidate
  BY DEF SkillInv, LibraryTyped, Skill!Cands
<1> QED
  BY <1>1 DEF SkillInv, ScansTyped, DesksTyped, LibraryTyped, Skill!TypeOK, Candidate, ScanStep, Decision

LEMMA SkillInit == Skill!Init => SkillInv
BY DEF Skill!Init, SkillInv, ScansTyped, DesksTyped, LibraryTyped, LibraryRight,
       Skill!NotScanning, Skill!Idle, Skill!Cands, ScanStep, Decision

(* A skill stays rightly in the library as long as its candidate does not  *)
(* lose its warrant.                                                       *)
LEMMA WarrantsStay ==
  ASSUME SkillInv, spoiled \subseteq spoiled', Skill!Cands \subseteq Skill!Cands',
         \A i \in Skill!Cands : cands'[i].skill = cands[i].skill,
         \A n \in Names \ spoiled' : library'[n] \in {library[n], Absent},
         \A i \in Skill!Cands :
           Warrant(i) => \/ Warrant(i)' \/ cands[i].skill.name \in spoiled'
                         \/ library'[cands[i].skill.name] = Absent
  PROVE  LibraryRight'
<1>1. ASSUME NEW n \in Names \ spoiled', library'[n] # Absent
      PROVE  \E i \in Skill!Cands' : /\ cands'[i].skill = [name |-> n, body |-> library'[n]]
                                     /\ Warrant(i)'
  <2>1. library'[n] = library[n] /\ n \in Names \ spoiled
    BY <1>1
  <2>2. PICK i \in Skill!Cands : cands[i].skill = [name |-> n, body |-> library[n]] /\ Warrant(i)
    BY <1>1, <2>1 DEF SkillInv, LibraryRight
  <2>3. cands[i].skill.name = n
    BY <2>2
  <2>4. Warrant(i)'
    BY <1>1, <2>2, <2>3
  <2> QED
    BY <2>1, <2>2, <2>4
<1> QED
  BY <1>1, Zenon DEF LibraryRight, Warrant, Skill!InLibrary

LEMMA ScanMoves ==
  ASSUME SkillInv, NEW s \in Scanners, NEW next \in ScanStep, scan' = [scan EXCEPT ![s] = next],
         next.at # "idle" => next.session \in Sessions,
         next.at \in {"found", "fresh"} => next.skill \in Skill!Skill
  PROVE  ScansTyped'
BY DEF SkillInv, ScansTyped

LEMMA ScanInv ==
  ASSUME SkillInv, NEW s \in Scanners,
         \/ \E session \in Sessions : Skill!ProcessSession(s, session)
         \/ Skill!Extract(s) \/ Skill!LookForDuplicate(s)
  PROVE  SkillInv'
<1>1. UNCHANGED <<owner, cands, desk, library, keeper, suite, keyword, passed, spoiled>>
  BY DEF Skill!ProcessSession, Skill!Extract, Skill!LookForDuplicate, Skill!ScanOnly, Skill!check
<1>2. /\ scan \in [Scanners -> ScanStep] /\ scan[s] \in ScanStep
      /\ scan[s].at # "idle" => scan[s].session \in Sessions
      /\ scan[s].at \in {"found", "fresh"} => scan[s].skill \in Skill!Skill
  BY DEF SkillInv, ScansTyped
<1>3. ASSUME scan' = [scan EXCEPT ![s] = Skill!NotScanning] PROVE ScansTyped'
  <2>1. Skill!NotScanning \in ScanStep /\ Skill!NotScanning.at = "idle"
    BY DEF Skill!NotScanning, ScanStep
  <2> QED
    BY <1>3, <2>1, ScanMoves
<1>4. ASSUME NEW session \in Sessions, Skill!ProcessSession(s, session) PROVE ScansTyped'
  <2> DEFINE next == [scan[s] EXCEPT !.at = "extracting", !.session = session]
  <2>1. next \in ScanStep /\ next.at = "extracting" /\ next.session = session
    BY <1>2 DEF ScanStep
  <2>2. scan' = [scan EXCEPT ![s].at = "extracting", ![s].session = session]
    BY <1>4 DEF Skill!ProcessSession
  <2>3. scan' = [scan EXCEPT ![s] = next]
    BY <1>2, <2>2, Zenon
  <2> HIDE DEF next
  <2> QED
    BY <2>1, <2>3, ScanMoves
<1>5. ASSUME scan[s].at = "extracting", NEW skill \in Skill!Skill,
             scan' = [scan EXCEPT ![s].at = "found", ![s].skill = skill]
      PROVE  ScansTyped'
  <2> DEFINE next == [scan[s] EXCEPT !.at = "found", !.skill = skill]
  <2>1. next \in ScanStep /\ next.at = "found" /\ next.skill = skill /\ next.session = scan[s].session
    BY <1>2 DEF ScanStep
  <2>2. scan' = [scan EXCEPT ![s] = next]
    <3>1. scan' = [scan EXCEPT ![s].at = "found", ![s].skill = skill]
      BY <1>5
    <3> QED
      BY <1>2, <3>1, Zenon
  <2>3. scan[s].session \in Sessions
    BY <1>2, <1>5
  <2> HIDE DEF next
  <2> QED
    BY <2>1, <2>2, <2>3, ScanMoves
<1>6. ASSUME Skill!LookForDuplicate(s), scan' = [scan EXCEPT ![s].at = "fresh"] PROVE ScansTyped'
  <2> DEFINE next == [scan[s] EXCEPT !.at = "fresh"]
  <2>1. next \in ScanStep /\ next.skill = scan[s].skill /\ next.session = scan[s].session
    BY <1>2 DEF ScanStep
  <2>2. scan' = [scan EXCEPT ![s] = next]
    BY <1>2, <1>6
  <2>3. scan[s].session \in Sessions /\ scan[s].skill \in Skill!Skill
    BY <1>2, <1>6 DEF Skill!LookForDuplicate
  <2> HIDE DEF next
  <2> QED
    BY <2>1, <2>2, <2>3, ScanMoves
<1>7. ScansTyped'
  <2>1. CASE Skill!Extract(s)
    BY <1>3, <1>5, <2>1 DEF Skill!Extract
  <2>2. CASE Skill!LookForDuplicate(s)
    BY <1>3, <1>6, <2>2 DEF Skill!LookForDuplicate
  <2> QED
    BY <1>4, <2>1, <2>2
<1>8. DesksTyped' /\ LibraryTyped'
  BY <1>1 DEF SkillInv, DesksTyped, LibraryTyped, Skill!Cands
<1>9. LibraryRight'
  BY <1>1 DEF SkillInv, LibraryRight, Warrant, Skill!Cands, Skill!InLibrary
<1> QED
  BY <1>7, <1>8, <1>9 DEF SkillInv

LEMMA CreateCandidateInv ==
  ASSUME SkillInv, NEW s \in Scanners, Skill!CreateCandidate(s)
  PROVE  SkillInv'
<1> DEFINE new == [user |-> owner[scan[s].session], session |-> scan[s].session,
                   skill |-> scan[s].skill, status |-> "pending"]
<1>1. /\ scan[s].at = "fresh" /\ cands' = Append(cands, new)
      /\ scan' = [scan EXCEPT ![s] = Skill!NotScanning]
      /\ UNCHANGED <<owner, desk, library, keeper, suite, keyword, passed, spoiled>>
  BY DEF Skill!CreateCandidate, Skill!ScanOnly, Skill!check
<1>2. new \in Candidate
  BY <1>1 DEF SkillInv, ScansTyped, LibraryTyped, Candidate, Skill!Statuses
<1> HIDE DEF new
<1>3. cands \in Seq(Candidate) /\ cands' \in Seq(Candidate)
  BY <1>1, <1>2 DEF SkillInv, LibraryTyped
<1>4. Skill!Cands \subseteq Skill!Cands' /\ \A i \in Skill!Cands : cands'[i] = cands[i]
  BY <1>1, <1>3 DEF Skill!Cands
<1>5. ScansTyped'
  BY <1>1 DEF SkillInv, ScansTyped, Skill!NotScanning, ScanStep
<1>6. DesksTyped' /\ LibraryTyped'
  BY <1>1, <1>3, <1>4 DEF SkillInv, DesksTyped, LibraryTyped
<1>7. \A i : Warrant(i) <=> Warrant(i)'
  BY <1>1 DEF Warrant, Skill!InLibrary
<1>8. LibraryRight'
  BY <1>1, <1>4, <1>7, WarrantsStay
<1> QED
  BY <1>5, <1>6, <1>8 DEF SkillInv

(* A step of one request: what it has in hand stays, or it is idle after. *)
LEMMA DeskMoves ==
  ASSUME SkillInv, NEW r \in Requests, NEW next \in Decision, desk' = [desk EXCEPT ![r] = next],
         next = Skill!Idle \/ (next.at # "idle" /\ next.cand \in Skill!Cands),
         Skill!Cands' = Skill!Cands
  PROVE  DesksTyped' /\ desk'[r] = next /\ \A q \in Requests \ {r} : desk'[q] = desk[q]
BY DEF SkillInv, DesksTyped, Skill!Idle

LEMMA DeskGoes ==
  ASSUME SkillInv, NEW r \in Requests, NEW to, Skill!Goes(r, to), desk[r].at # "idle",
         to \in {"registered", "published", "checking", "removing", "approving"},
         Skill!Cands' = Skill!Cands
  PROVE  /\ DesksTyped' /\ desk'[r].at = to /\ desk'[r].cand = desk[r].cand
         /\ \A q \in Requests \ {r} : desk'[q] = desk[q]
<1> DEFINE next == [desk[r] EXCEPT !.at = to]
<1>1. desk[r] \in Decision /\ desk[r].cand \in Skill!Cands /\ desk \in [Requests -> Decision]
  BY DEF SkillInv, DesksTyped
<1>2. next \in Decision /\ next.at = to /\ next.cand = desk[r].cand
  BY <1>1 DEF Decision
<1>3. desk' = [desk EXCEPT ![r] = next]
  BY <1>1 DEF Skill!Goes
<1> HIDE DEF next
<1> QED
  BY <1>1, <1>2, <1>3, DeskMoves

LEMMA DeskEnds ==
  ASSUME SkillInv, NEW r \in Requests, Skill!Ends(r), Skill!Cands' = Skill!Cands
  PROVE  /\ DesksTyped' /\ desk'[r].at = "idle"
         /\ \A q \in Requests \ {r} : desk'[q] = desk[q]
<1>1. Skill!Idle \in Decision /\ Skill!Idle.at = "idle"
  BY DEF Skill!Idle, Decision
<1> QED
  BY <1>1, DeskMoves DEF Skill!Ends

(* What a request works on. *)
LEMMA OfTyped ==
  ASSUME SkillInv, NEW r \in Requests, desk[r].at # "idle"
  PROVE  /\ desk[r].cand \in Skill!Cands /\ Skill!Of(r) \in Candidate
         /\ Skill!Name(r) \in Names /\ Skill!Body(r) \in Bodies
         /\ Skill!Of(r).skill = [name |-> Skill!Name(r), body |-> Skill!Body(r)]
<1>1. desk[r].cand \in Skill!Cands
  BY DEF SkillInv, DesksTyped
<1>2. Skill!Of(r) \in Candidate
  BY <1>1 DEF SkillInv, LibraryTyped, Skill!Of, Skill!Cands
<1>3. Skill!Of(r).skill \in Skill!Skill
  BY <1>2 DEF Candidate
<1> QED
  BY <1>1, <1>2, <1>3 DEF Skill!Name, Skill!Body, Skill!Skill

LEMMA LoadInv ==
  ASSUME SkillInv, NEW r \in Requests, NEW i \in Skill!Cands, NEW decision \in {"approve", "reject"},
         Skill!Load(r, i, decision)
  PROVE  SkillInv'
<1> DEFINE next == [at |-> IF decision = "approve" THEN "loaded" ELSE "rejecting", cand |-> i]
<1>1. /\ desk[r] = Skill!Idle /\ desk' = [desk EXCEPT ![r] = next]
      /\ UNCHANGED <<owner, scan, cands, library, keeper, suite, keyword, passed, spoiled>>
  BY DEF Skill!Load, Skill!DeskOnly, Skill!check
<1>2. Skill!Cands' = Skill!Cands /\ Skill!Cands \subseteq Nat
  BY <1>1 DEF Skill!Cands, SkillInv, LibraryTyped
<1>3. next \in Decision /\ next.at \in {"loaded", "rejecting"} /\ next.cand \in Skill!Cands
  BY <1>2 DEF Decision
<1> HIDE DEF next
<1>4. DesksTyped' /\ desk'[r] = next /\ \A q \in Requests \ {r} : desk'[q] = desk[q]
  BY <1>1, <1>2, <1>3, DeskMoves
<1>5. ScansTyped' /\ LibraryTyped'
  BY <1>1, <1>2 DEF SkillInv, ScansTyped, LibraryTyped
<1>6. desk[r].at = "idle"
  BY <1>1 DEF Skill!Idle
<1>7. \A j \in Skill!Cands : Warrant(j) => Warrant(j)'
  BY <1>1, <1>4, <1>6 DEF Warrant, Skill!InLibrary
<1>8. LibraryRight'
  BY <1>1, <1>2, <1>7, WarrantsStay
<1> QED
  BY <1>4, <1>5, <1>8 DEF SkillInv

LEMMA RegisterSkillInv ==
  ASSUME SkillInv, NEW r \in Requests, Skill!Register(r)
  PROVE  SkillInv'
<1>1. /\ desk[r].at = "loaded"
      /\ UNCHANGED <<owner, scan, cands, library, keyword, passed, spoiled>>
  BY DEF Skill!Register, Skill!DeskOnly
<1>2. Skill!Cands' = Skill!Cands
  BY <1>1 DEF Skill!Cands
<1>3. /\ Skill!Of(r).user \in Learners /\ Skill!Name(r) \in Names
      /\ Skill!GenerateCases(Skill!Of(r).skill) \subseteq Names \cup Bodies
  <2>1. Skill!Of(r) \in Candidate /\ Skill!Name(r) \in Names /\ Skill!Body(r) \in Bodies
    BY <1>1, OfTyped
  <2>2. Skill!Of(r).user \in Learners
    BY <2>1 DEF Candidate
  <2>3. Skill!GenerateCases(Skill!Of(r).skill) = {Skill!Name(r), Skill!Body(r)}
    BY DEF Skill!GenerateCases, Skill!Name, Skill!Body
  <2> QED
    BY <2>1, <2>2, <2>3
<1>4. Skill!Goes(r, "registered") \/ Skill!Ends(r)
  BY DEF Skill!Register
<1>5. DesksTyped' /\ desk'[r].at \in {"idle", "registered"} /\ \A q \in Requests \ {r} : desk'[q] = desk[q]
  BY <1>1, <1>2, <1>4, DeskGoes, DeskEnds
<1>6. keeper' \in [Names -> Learners \cup {NoOne}] /\ suite' \in [Names -> SUBSET (Names \cup Bodies)]
  <2>1. keeper' \in {keeper, [keeper EXCEPT ![Skill!Name(r)] = Skill!Of(r).user]}
    BY DEF Skill!Register
  <2>2. \/ suite' = suite
        \/ suite' = [suite EXCEPT ![Skill!Name(r)] = @ \cup Skill!GenerateCases(Skill!Of(r).skill)]
    BY DEF Skill!Register
  <2> QED
    BY <1>3, <2>1, <2>2 DEF SkillInv, LibraryTyped
<1>7. ScansTyped' /\ LibraryTyped'
  BY <1>1, <1>2, <1>6 DEF SkillInv, ScansTyped, LibraryTyped
<1>8. \A j \in Skill!Cands : Warrant(j) => Warrant(j)'
  BY <1>1, <1>5 DEF Warrant, Skill!InLibrary
<1>9. LibraryRight'
  BY <1>1, <1>2, <1>8, WarrantsStay
<1> QED
  BY <1>5, <1>7, <1>9 DEF SkillInv

LEMMA PublishedInv ==
  ASSUME SkillInv, NEW r \in Requests, Skill!DeskOnly, UNCHANGED <<cands, Skill!check, spoiled>>,
         desk[r].at = "registered", Skill!Goes(r, "published"),
         library' = [library EXCEPT ![Skill!Name(r)] = Skill!Body(r)]
  PROVE  SkillInv'
<1>1. /\ desk[r].at = "registered" /\ library' = [library EXCEPT ![Skill!Name(r)] = Skill!Body(r)]
      /\ Skill!Goes(r, "published")
      /\ UNCHANGED <<owner, scan, cands, keeper, suite, keyword, passed, spoiled>>
  BY DEF Skill!DeskOnly, Skill!check
<1>2. Skill!Cands' = Skill!Cands
  BY <1>1 DEF Skill!Cands
<1>3. /\ DesksTyped' /\ desk'[r].at = "published" /\ desk'[r].cand = desk[r].cand
      /\ \A q \in Requests \ {r} : desk'[q] = desk[q]
  BY <1>1, <1>2, DeskGoes
<1>4. /\ desk[r].cand \in Skill!Cands /\ Skill!Name(r) \in Names /\ Skill!Body(r) \in Bodies
      /\ cands[desk[r].cand].skill = [name |-> Skill!Name(r), body |-> Skill!Body(r)]
  BY <1>1, OfTyped DEF Skill!Of
<1>5. ScansTyped' /\ LibraryTyped'
  BY <1>1, <1>2, <1>4 DEF SkillInv, ScansTyped, LibraryTyped
<1>6. \A j \in Skill!Cands : Warrant(j) => Warrant(j)'
  BY <1>1, <1>3 DEF Warrant, Skill!InLibrary
<1>7. \A j : j = desk[r].cand => Warrant(j)'
  BY <1>3 DEF Warrant, Skill!InLibrary
<1>8. ASSUME NEW n \in Names \ spoiled', library'[n] # Absent
      PROVE  \E i \in Skill!Cands' : cands'[i].skill = [name |-> n, body |-> library'[n]] /\ Warrant(i)'
  <2>1. CASE n = Skill!Name(r)
    <3>1. library'[n] = Skill!Body(r)
      BY <1>1, <1>4, <2>1 DEF SkillInv, LibraryTyped
    <3> QED
      BY <1>1, <1>2, <1>4, <1>7, <2>1, <3>1
  <2>2. CASE n # Skill!Name(r)
    <3>1. library'[n] = library[n] /\ n \in Names \ spoiled
      BY <1>1, <1>8, <2>2 DEF SkillInv, LibraryTyped
    <3>2. PICK i \in Skill!Cands : cands[i].skill = [name |-> n, body |-> library[n]] /\ Warrant(i)
      BY <1>8, <3>1 DEF SkillInv, LibraryRight
    <3> QED
      BY <1>1, <1>2, <1>6, <3>1, <3>2
  <2> QED
    BY <2>1, <2>2
<1>9. LibraryRight'
  BY <1>8, Zenon DEF LibraryRight, Warrant, Skill!InLibrary
<1> QED
  BY <1>3, <1>5, <1>9 DEF SkillInv

(* A write that failed leaves the library, and its request was no warrant. *)
LEMMA PublishFailedInv ==
  ASSUME SkillInv, NEW r \in Requests, Skill!DeskOnly, UNCHANGED <<cands, library, Skill!check>>,
         desk[r].at = "registered", Skill!Ends(r), spoiled' \in {spoiled, spoiled \cup {Skill!Name(r)}}
  PROVE  SkillInv'
<1>1. UNCHANGED <<owner, scan, cands, library, keeper, suite, keyword, passed>>
  BY DEF Skill!DeskOnly, Skill!check
<1>2. Skill!Cands' = Skill!Cands
  BY <1>1 DEF Skill!Cands
<1>3. DesksTyped' /\ desk'[r].at = "idle" /\ \A q \in Requests \ {r} : desk'[q] = desk[q]
  BY <1>1, <1>2, DeskEnds
<1>4. Skill!Name(r) \in Names
  BY OfTyped
<1>5. spoiled \subseteq spoiled' /\ spoiled' \subseteq Names
  BY <1>4 DEF SkillInv, LibraryTyped
<1>6. ScansTyped' /\ LibraryTyped'
  BY <1>1, <1>2, <1>5 DEF SkillInv, ScansTyped, LibraryTyped
<1>7. \A j \in Skill!Cands : Warrant(j) => Warrant(j)'
  BY <1>1, <1>3 DEF Warrant, Skill!InLibrary
<1>8. LibraryRight'
  BY <1>1, <1>2, <1>5, <1>7, WarrantsStay
<1> QED
  BY <1>3, <1>6, <1>8 DEF SkillInv

LEMMA PublishInv ==
  ASSUME SkillInv, NEW r \in Requests, Skill!PublishShared(r)
  PROVE  SkillInv'
<1>1. desk[r].at = "registered" /\ Skill!DeskOnly /\ UNCHANGED <<cands, Skill!check>>
  BY DEF Skill!PublishShared
<1>2. CASE /\ library' = [library EXCEPT ![Skill!Name(r)] = Skill!Body(r)] /\ Skill!Goes(r, "published")
           /\ UNCHANGED <<spoiled, faults>>
  BY <1>1, <1>2, PublishedInv
<1>3. CASE /\ Skill!Ends(r) /\ UNCHANGED library
           /\ spoiled' \in {spoiled, spoiled \cup {Skill!Name(r)}}
  BY <1>1, <1>3, PublishFailedInv
<1> QED
  BY <1>2, <1>3 DEF Skill!PublishShared

LEMMA CheckInv ==
  ASSUME SkillInv, NEW r \in Requests, Skill!Check(r)
  PROVE  SkillInv'
<1>1. /\ desk[r].at = "published" /\ keyword' = Skill!Name(r) /\ Skill!Goes(r, "checking")
      /\ UNCHANGED <<owner, scan, cands, library, keeper, suite, passed, spoiled>>
  BY DEF Skill!Check, Skill!DeskOnly
<1>2. Skill!Cands' = Skill!Cands
  BY <1>1 DEF Skill!Cands
<1>3. /\ DesksTyped' /\ desk'[r].at = "checking" /\ desk'[r].cand = desk[r].cand
      /\ \A q \in Requests \ {r} : desk'[q] = desk[q]
  BY <1>1, <1>2, DeskGoes
<1>4. Skill!Name(r) \in Names
  BY <1>1, OfTyped
<1>5. ScansTyped' /\ LibraryTyped'
  BY <1>1, <1>2, <1>4 DEF SkillInv, ScansTyped, LibraryTyped
<1>6. \A j \in Skill!Cands : Warrant(j) => Warrant(j)'
  BY <1>1, <1>3 DEF Warrant, Skill!InLibrary
<1>7. LibraryRight'
  BY <1>1, <1>2, <1>6, WarrantsStay
<1> QED
  BY <1>3, <1>5, <1>7 DEF SkillInv

(* The warrant passes from the request to the check it has passed.         *)
LEMMA CheckPassesInv ==
  ASSUME SkillInv, NEW r \in Requests, Skill!CheckPasses(r)
  PROVE  SkillInv'
<1>1. /\ desk[r].at = "checking" /\ passed' = passed \cup {desk[r].cand} /\ Skill!Goes(r, "approving")
      /\ UNCHANGED <<owner, scan, cands, library, keeper, suite, keyword, spoiled>>
  BY DEF Skill!CheckPasses, Skill!DeskOnly
<1>2. Skill!Cands' = Skill!Cands
  BY <1>1 DEF Skill!Cands
<1>3. /\ DesksTyped' /\ desk'[r].at = "approving" /\ desk'[r].cand = desk[r].cand
      /\ \A q \in Requests \ {r} : desk'[q] = desk[q]
  BY <1>1, <1>2, DeskGoes
<1>4. desk[r].cand \in Skill!Cands
  BY <1>1, OfTyped
<1>5. ScansTyped' /\ LibraryTyped'
  BY <1>1, <1>2, <1>4 DEF SkillInv, ScansTyped, LibraryTyped
<1>6. \A j \in Skill!Cands : Warrant(j) => Warrant(j)'
  BY <1>1, <1>3 DEF Warrant, Skill!InLibrary
<1>7. LibraryRight'
  BY <1>1, <1>2, <1>6, WarrantsStay
<1> QED
  BY <1>3, <1>5, <1>7 DEF SkillInv

LEMMA CheckFailsInv ==
  ASSUME SkillInv, NEW r \in Requests, Skill!CheckFails(r)
  PROVE  SkillInv'
<1>1. /\ desk[r].at = "checking" /\ Skill!Goes(r, "removing")
      /\ UNCHANGED <<owner, scan, cands, library, keeper, suite, keyword, passed, spoiled>>
  BY DEF Skill!CheckFails, Skill!DeskOnly, Skill!check
<1>2. Skill!Cands' = Skill!Cands
  BY <1>1 DEF Skill!Cands
<1>3. /\ DesksTyped' /\ desk'[r].at = "removing" /\ desk'[r].cand = desk[r].cand
      /\ \A q \in Requests \ {r} : desk'[q] = desk[q]
  BY <1>1, <1>2, DeskGoes
<1>4. ScansTyped' /\ LibraryTyped'
  BY <1>1, <1>2 DEF SkillInv, ScansTyped, LibraryTyped
<1>5. \A j \in Skill!Cands : Warrant(j) => Warrant(j)'
  BY <1>1, <1>3 DEF Warrant, Skill!InLibrary
<1>6. LibraryRight'
  BY <1>1, <1>2, <1>5, WarrantsStay
<1> QED
  BY <1>3, <1>4, <1>6 DEF SkillInv

(* The warrant ends with the skill it was for, or leaves its name spoiled. *)
LEMMA RemoveSharedInv ==
  ASSUME SkillInv, NEW r \in Requests, Skill!RemoveShared(r)
  PROVE  SkillInv'
<1>1. /\ desk[r].at = "removing" /\ Skill!Ends(r)
      /\ UNCHANGED <<owner, scan, cands, keeper, suite, keyword, passed>>
  BY DEF Skill!RemoveShared, Skill!DeskOnly, Skill!check
<1>2. \/ library' = [library EXCEPT ![Skill!Name(r)] = Absent] /\ spoiled' = spoiled
      \/ library' = library /\ spoiled' = spoiled \cup {Skill!Name(r)}
  BY DEF Skill!RemoveShared
<1>3. Skill!Cands' = Skill!Cands
  BY <1>1 DEF Skill!Cands
<1>4. DesksTyped' /\ desk'[r].at = "idle" /\ \A q \in Requests \ {r} : desk'[q] = desk[q]
  BY <1>1, <1>3, DeskEnds
<1>5. Skill!Name(r) \in Names /\ cands[desk[r].cand].skill.name = Skill!Name(r)
  BY <1>1, OfTyped DEF Skill!Name, Skill!Of
<1>6. /\ spoiled \subseteq spoiled' /\ spoiled' \subseteq Names
      /\ library' \in [Names -> Bodies \cup {Absent}]
      /\ \A n \in Names : library'[n] \in {library[n], Absent}
      /\ Skill!Name(r) \in spoiled' \/ library'[Skill!Name(r)] = Absent
  BY <1>2, <1>5 DEF SkillInv, LibraryTyped
<1>7. ScansTyped' /\ LibraryTyped'
  BY <1>1, <1>3, <1>6 DEF SkillInv, ScansTyped, LibraryTyped
<1>8. \A j \in Skill!Cands : Warrant(j) => Warrant(j)' \/ j = desk[r].cand
  BY <1>1, <1>4 DEF Warrant, Skill!InLibrary
<1>9. LibraryRight'
  BY <1>1, <1>3, <1>5, <1>6, <1>8, WarrantsStay
<1> QED
  BY <1>4, <1>7, <1>9 DEF SkillInv

LEMMA UpdateStatusInv ==
  ASSUME SkillInv, NEW r \in Requests, Skill!Approve(r) \/ Skill!Reject(r)
  PROVE  SkillInv'
<1>1. PICK decided \in Skill!Statuses :
        /\ desk[r].at \in {"approving", "rejecting"} /\ Skill!Ends(r)
        /\ cands' = [cands EXCEPT ![desk[r].cand].status = decided] \/ cands' = cands
        /\ UNCHANGED <<owner, scan, library, keeper, suite, keyword, passed, spoiled>>
  BY DEF Skill!Approve, Skill!Reject, Skill!UpdateStatus, Skill!Statuses, Skill!DeskOnly, Skill!check
<1>2. /\ desk[r].cand \in Skill!Cands /\ Skill!Of(r) \in Candidate
      /\ cands \in Seq(Candidate)
  BY <1>1, OfTyped DEF SkillInv, LibraryTyped
<1> DEFINE next == [Skill!Of(r) EXCEPT !.status = decided]
<1>3. next \in Candidate /\ next.skill = Skill!Of(r).skill
  BY <1>2 DEF Candidate
<1>4. cands' = [cands EXCEPT ![desk[r].cand] = next] \/ cands' = cands
  BY <1>1, <1>2, Zenon DEF Skill!Of
<1> HIDE DEF next
<1>5. /\ cands' \in Seq(Candidate) /\ Skill!Cands' = Skill!Cands
      /\ \A i \in Skill!Cands : cands'[i].skill = cands[i].skill
  BY <1>2, <1>3, <1>4 DEF Skill!Cands, Skill!Of
<1>6. DesksTyped' /\ desk'[r].at = "idle" /\ \A q \in Requests \ {r} : desk'[q] = desk[q]
  BY <1>1, <1>5, DeskEnds
<1>7. ScansTyped' /\ LibraryTyped'
  BY <1>1, <1>5 DEF SkillInv, ScansTyped, LibraryTyped
<1>8. \A j \in Skill!Cands : Warrant(j) => Warrant(j)'
  BY <1>1, <1>6 DEF Warrant, Skill!InLibrary
<1>9. LibraryRight'
  BY <1>1, <1>5, <1>8, WarrantsStay
<1> QED
  BY <1>6, <1>7, <1>9 DEF SkillInv

LEMMA CrashInv ==
  ASSUME SkillInv, Skill!Crash
  PROVE  SkillInv'
<1> DEFINE Left == {q \in Requests : Skill!InLibrary(q) \/ desk[q].at = "registered"}
<1>1. /\ scan' = [s \in Scanners |-> Skill!NotScanning] /\ desk' = [r \in Requests |-> Skill!Idle]
      /\ keyword' = Absent
      /\ UNCHANGED <<owner, cands, library, keeper, suite, passed>>
  BY DEF Skill!Crash, Skill!table
<1>2. spoiled' = spoiled \cup {Skill!Name(r) : r \in Left}
  BY DEF Skill!Crash
<1>3. Skill!Cands' = Skill!Cands
  BY <1>1 DEF Skill!Cands
<1>4. \A r \in Left : Skill!Name(r) \in Names
  BY OfTyped DEF Skill!InLibrary
<1>5. spoiled \subseteq spoiled' /\ spoiled' \subseteq Names
  BY <1>2, <1>4 DEF SkillInv, LibraryTyped
<1>6. ScansTyped' /\ DesksTyped' /\ LibraryTyped'
  BY <1>1, <1>3, <1>5 DEF SkillInv, ScansTyped, DesksTyped, LibraryTyped, Skill!NotScanning, Skill!Idle,
                          ScanStep, Decision
<1>7. ASSUME NEW j \in Skill!Cands, Warrant(j)
      PROVE  Warrant(j)' \/ cands[j].skill.name \in spoiled'
  <2>1. CASE j \in passed
    BY <1>1, <2>1 DEF Warrant
  <2>2. ASSUME NEW r \in Requests, Skill!InLibrary(r), desk[r].cand = j
        PROVE  cands[j].skill.name \in spoiled'
    BY <1>2, <2>2 DEF Skill!Name, Skill!Of
  <2> QED
    BY <1>7, <2>1, <2>2 DEF Warrant
<1>8. LibraryRight'
  BY <1>1, <1>3, <1>5, <1>7, WarrantsStay
<1> QED
  BY <1>6, <1>8 DEF SkillInv

LEMMA SkillNext == SkillInv /\ [Skill!Next]_(Skill!vars) => SkillInv'
<1> SUFFICES ASSUME SkillInv, [Skill!Next]_(Skill!vars) PROVE SkillInv'
  OBVIOUS
<1>1. CASE UNCHANGED Skill!vars
  BY <1>1 DEF SkillInv, ScansTyped, DesksTyped, LibraryTyped, LibraryRight, Warrant, Skill!Cands,
              Skill!InLibrary, Skill!vars, Skill!table, Skill!check
<1>2. CASE Skill!Next
  <2>1. ASSUME NEW s \in Scanners,
               \/ \E session \in Sessions : Skill!ProcessSession(s, session)
               \/ Skill!Extract(s) \/ Skill!LookForDuplicate(s) \/ Skill!CreateCandidate(s)
        PROVE  SkillInv'
    BY <2>1, ScanInv, CreateCandidateInv
  <2>2. ASSUME NEW r \in Requests,
               \/ \E i \in Skill!Cands, decision \in {"approve", "reject"} : Skill!Load(r, i, decision)
               \/ Skill!Register(r) \/ Skill!PublishShared(r) \/ Skill!Check(r) \/ Skill!CheckPasses(r)
               \/ Skill!CheckFails(r) \/ Skill!RemoveShared(r) \/ Skill!Approve(r) \/ Skill!Reject(r)
        PROVE  SkillInv'
    BY <2>2, LoadInv, RegisterSkillInv, PublishInv, CheckInv, CheckPassesInv, CheckFailsInv,
       RemoveSharedInv, UpdateStatusInv
  <2> QED
    BY <1>2, <2>1, <2>2, CrashInv DEF Skill!Next
<1> QED
  BY <1>1, <1>2

LEMMA SkillsHold == Spec => [](part = "skills" => SkillInv)
<1>1. Init => (part = "skills" => SkillInv)
  BY SkillInit DEF Init
<1>2. (part = "skills" => SkillInv) /\ [Next]_vars => (part = "skills" => SkillInv)'
  BY SkillSteps, SkillNext, PartStays
<1> QED
  BY <1>1, <1>2, PTL DEF Spec

(* However approvals overlap, fail and crash: what is in the library under *)
(* a name that nothing has spoiled is the skill of a candidate that has    *)
(* passed its check or is being approved (api/skill_candidate.go).         *)
THEOREM LibraryStaysChecked == Spec => []LibraryChecked
<1>1. (part = "skills" => SkillInv) => LibraryChecked
  BY LibrarySound DEF LibraryChecked, SkillInv
<1> QED
  BY SkillsHold, <1>1, PTL
=============================================================================
