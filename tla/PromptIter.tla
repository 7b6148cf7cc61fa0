----------------------------- MODULE PromptIter -----------------------------
(***************************************************************************)
(* Optimisation of an agent's instruction (promptiter/optimizer.go,        *)
(* repo/instruction.go, api/promptiter.go): evaluate, reflect on the weak  *)
(* cases, put the improved instruction in force, evaluate it and keep it   *)
(* or write back what was there.  Optimisations run in the background, at  *)
(* the same time as each other and as people's edits of the instruction.   *)
(*                                                                         *)
(* An instruction is a value: Default stands for the empty one, with which *)
(* agents use what is built in.  Scores are left to chance.                *)
(***************************************************************************)
EXTENDS Naturals

CONSTANTS
  Users, Iterations,
  Default, NoRow, Edited,  \* the empty instruction, no row of it, a person's text
  MaxFaults, MaxCrashes

Improved(i) == <<"improved", i>>
Contents == {Default, Edited} \cup {Improved(i) : i \in Iterations}

VARIABLES
  stored,   \* the row of each user's instruction
  user,     \* who started an iteration
  status,   \* what the row of an iteration says
  before,   \* the BeforeContent it has
  at,       \* where its goroutine is
  verdict,  \* the status it is about to save
  was,      \* what was in force when it looked
  sure,     \* who looked, and since then nobody else wrote and nothing failed
  faults, crashes

vars == <<stored, user, status, before, at, verdict, was, sure, faults, crashes>>

Verdicts == {"accepted", "rolled_back", "no_improvement", "failed"}

TypeOK ==
  /\ stored \in [Users -> Contents \cup {NoRow}]
  /\ user \in [Iterations -> Users]
  /\ status \in [Iterations -> {"none", "running"} \cup Verdicts]
  /\ before \in [Iterations -> Contents] /\ was \in [Iterations -> Contents]
  /\ at \in [Iterations -> {"idle", "baseline", "reading", "reflecting", "applying", "judging", "saving"}]
  /\ verdict \in [Iterations -> {"none"} \cup Verdicts]
  /\ sure \subseteq Iterations
  /\ faults \in 0 .. MaxFaults /\ crashes \in 0 .. MaxCrashes

Init ==
  /\ stored = [u \in Users |-> NoRow]
  /\ user \in [Iterations -> Users]
  /\ status = [i \in Iterations |-> "none"]
  /\ before = [i \in Iterations |-> Default] /\ was = [i \in Iterations |-> Default]
  /\ at = [i \in Iterations |-> "idle"]
  /\ verdict = [i \in Iterations |-> "none"]
  /\ sure = {} /\ faults = 0 /\ crashes = 0

Fault == faults < MaxFaults /\ faults' = faults + 1

-----------------------------------------------------------------------------
(* The instruction *)

ContentOfRow(u) == stored[u]   \* fault variant

Content(u) == IF stored[u] = NoRow THEN Default ELSE stored[u]

IterationsOf(u) == {i \in Iterations : user[i] = u}

(* Names are unique over all users: a row is made by one of them only.     *)
Refused(u) == stored[u] = NoRow /\ \E v \in Users : stored[v] # NoRow

Writes(u, content, mine) ==
  /\ ~Refused(u)
  /\ stored' = [stored EXCEPT ![u] = content]
  /\ sure' = sure \ (IterationsOf(u) \ mine)

WriteFails(u, i) ==
  /\ (Refused(u) /\ UNCHANGED faults) \/ Fault
  /\ sure' = sure \ {i}
  /\ UNCHANGED stored

UpdateInstruction(u) ==
  /\ Writes(u, Edited, {})
  /\ UNCHANGED <<user, status, before, at, verdict, was, faults, crashes>>

-----------------------------------------------------------------------------
(* An iteration *)

Goes(i, to) == at' = [at EXCEPT ![i] = to]

Ends(i, v) == Goes(i, "saving") /\ verdict' = [verdict EXCEPT ![i] = v]

(* Whether the dataset is there shows later; iterations of other requests  *)
(* do not hinder this one.                                                 *)
Requested(i) == status[i] = "none"

newRun(i) == status' = [status EXCEPT ![i] = "running"]

StartOptimize(i) ==
  /\ Requested(i) /\ newRun(i)
  /\ Goes(i, "baseline")
  /\ UNCHANGED <<stored, user, before, verdict, was, sure, faults, crashes>>

(* The dataset or its cases may be gone, or a case may fail; no case may   *)
(* be weak.  The baseline is what is built in, whatever is in force.       *)
Baseline(i) ==
  /\ at[i] = "baseline"
  /\ \/ Goes(i, "reading") /\ UNCHANGED verdict
     \/ Ends(i, "no_improvement")
     \/ Ends(i, "failed")
  /\ UNCHANGED <<stored, user, status, before, was, sure, faults, crashes>>

(* A read that fails counts as an instruction that is not there.           *)
ReadCurrent(i) ==
  /\ at[i] = "reading"
  /\ was' = [was EXCEPT ![i] = Content(user[i])]
  /\ \/ /\ before' = [before EXCEPT ![i] = Content(user[i])]
        /\ sure' = sure \cup {i} /\ UNCHANGED faults
     \/ /\ Fault
        /\ before' = [before EXCEPT ![i] = Default]
        /\ UNCHANGED sure
  /\ Goes(i, "reflecting")
  /\ UNCHANGED <<stored, user, status, verdict, crashes>>

(* The model is asked for a better one; it may fail or say nothing.        *)
Reflect(i) ==
  /\ at[i] = "reflecting"
  /\ \/ Goes(i, "applying") /\ UNCHANGED verdict
     \/ Ends(i, "failed")
  /\ UNCHANGED <<stored, user, status, before, was, sure, faults, crashes>>

Apply(i) ==
  /\ at[i] = "applying"
  /\ \/ /\ Writes(user[i], Improved(i), {i})
        /\ Goes(i, "judging") /\ UNCHANGED <<verdict, faults>>
     \/ WriteFails(user[i], i) /\ Ends(i, "failed")
  /\ UNCHANGED <<user, status, before, was, crashes>>

Accept(i) ==
  /\ at[i] = "judging"
  /\ Ends(i, "accepted")
  /\ UNCHANGED <<stored, user, status, before, was, sure, faults, crashes>>

(* Fault variant: when it cannot be evaluated only the status says so.     *)
RejectByStatus(i) ==
  /\ at[i] = "judging"
  /\ \/ Writes(user[i], before[i], {i}) /\ UNCHANGED faults
     \/ WriteFails(user[i], i)
     \/ UNCHANGED <<stored, sure, faults>>
  /\ Ends(i, "rolled_back")
  /\ UNCHANGED <<user, status, before, was, crashes>>

(* Worse than the baseline, or its evaluation failed: what was there is    *)
(* written back, and a failure to do so is not looked at.                  *)
Reject(i) ==
  /\ at[i] = "judging"
  /\ \/ Writes(user[i], before[i], {i}) /\ UNCHANGED faults
     \/ WriteFails(user[i], i)
  /\ Ends(i, "rolled_back")
  /\ UNCHANGED <<user, status, before, was, crashes>>

(* The last save; its failure leaves the row "running".                    *)
SaveVerdict(i) ==
  /\ at[i] = "saving"
  /\ \/ status' = [status EXCEPT ![i] = verdict[i]] /\ UNCHANGED faults
     \/ Fault /\ UNCHANGED status
  /\ Goes(i, "idle")
  /\ verdict' = [verdict EXCEPT ![i] = "none"]
  /\ UNCHANGED <<stored, user, before, was, sure, crashes>>

(* A person takes an iteration back.                                       *)
Rollback(i) ==
  /\ status[i] \in {"accepted", "rolled_back"}
  /\ Writes(user[i], before[i], {i})
  /\ \/ status' = [status EXCEPT ![i] = "rolled_back"] /\ UNCHANGED faults
     \/ Fault /\ UNCHANGED status
  /\ UNCHANGED <<user, before, at, verdict, was, crashes>>

(* Nothing takes up an iteration again.                                    *)
Crash ==
  /\ crashes < MaxCrashes /\ crashes' = crashes + 1
  /\ at' = [i \in Iterations |-> "idle"]
  /\ verdict' = [i \in Iterations |-> "none"]
  /\ UNCHANGED <<stored, user, status, before, was, sure, faults>>

Next ==
  \/ \E u \in Users : UpdateInstruction(u)
  \/ \E i \in Iterations :
       \/ StartOptimize(i) \/ Baseline(i) \/ ReadCurrent(i) \/ Reflect(i) \/ Apply(i)
       \/ Accept(i) \/ Reject(i) \/ SaveVerdict(i) \/ Rollback(i)
  \/ Crash

Spec == Init /\ [][Next]_vars

-----------------------------------------------------------------------------
(* model/promptiter.go: "rolled_back: the candidate scored below the        *)
(* baseline, it was rolled back".  When an iteration says rolled back,      *)
(* failed or no improvement, nobody else has written the instruction since  *)
(* it looked and none of its own reads and writes failed, the instruction   *)
(* in force is the one it found.                                            *)
RefusedIsUndone ==
  \A i \in sure :
    status[i] \in {"rolled_back", "failed", "no_improvement"} =>
      Content(user[i]) = was[i]
=============================================================================
