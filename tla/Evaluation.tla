----------------------------- MODULE Evaluation -----------------------------
(***************************************************************************)
(* Evaluation sets (eval/service.go, repo/eval.go, api/eval.go): a dataset *)
(* of cases, and runs that put every case to a model several times, judge  *)
(* each answer and store one result for every attempt.  A run works in the *)
(* background on the cases it read when it began, while people go on       *)
(* editing and deleting.                                                   *)
(*                                                                         *)
(* Rows are one user's: another's are as if they were not there.  Rows are *)
(* soft-deleted.  A case is a number, cases being run in the order they    *)
(* made, and a version that every save of it raises.                       *)
(***************************************************************************)
EXTENDS Naturals, Sequences, FiniteSets

CONSTANTS
  Datasets, Evals,  \* datasets and runs there may be
  MaxCases, MaxEdits, Repeats,
  MaxFaults, MaxCrashes

Cases == 1 .. MaxCases
Rows == {"none", "live", "deleted"}

VARIABLES
  dataset,   \* the row of each dataset
  deleting,  \* how far a deletion of it has come: 0 when there is none
  case,      \* the row of each case
  home,      \* its dataset
  version,
  edits,     \* the datasets and cases whose row a handler has read, to change it
  updates,   \* (bound) the updates there have been
  eval,      \* the row of each run: its dataset and what it says
  listed,    \* the cases a run has read, with their versions
  results,   \* the rows of its results
  deleted,   \* the datasets and cases that a deletion has begun for, ever
  work,      \* the runs that a goroutine works on, and which attempt is next
  faults, crashes

rows == <<dataset, case, home, version>>
vars == <<rows, edits, updates, deleting, deleted, eval, listed, results, work, faults, crashes>>

NoWork == [at |-> 1, attempt |-> 1, passed |-> 0, error |-> FALSE, on |-> FALSE]
Statuses == {"none", "running", "done", "failed"}

TypeOK ==
  /\ dataset \in [Datasets -> Rows] /\ case \in [Cases -> Rows]
  /\ deleting \in [Datasets -> 0 .. 4]
  /\ home \in [Cases -> Datasets]
  /\ version \in [Cases -> 0 .. MaxEdits]
  /\ edits \subseteq Datasets \cup Cases /\ updates \in 0 .. MaxEdits
  /\ \A e \in Evals :
       /\ eval[e].of \in Datasets /\ eval[e].row \in Rows
       /\ eval[e].status \in Statuses /\ eval[e].passed \in Nat
       /\ results[e] \subseteq [case : Cases, version : 0 .. MaxEdits, attempt : 1 .. Repeats,
                                passed : BOOLEAN, error : BOOLEAN]
       /\ work[e].at \in 1 .. Len(listed[e]) + 1 /\ work[e].attempt \in 1 .. Repeats

Init ==
  /\ dataset = [d \in Datasets |-> "none"] /\ case = [c \in Cases |-> "none"]
  /\ deleting = [d \in Datasets |-> 0]
  /\ home \in [Cases -> Datasets]
  /\ version = [c \in Cases |-> 0]
  /\ edits = {} /\ updates = 0
  /\ eval \in [Evals -> [of : Datasets, row : {"none"}, status : {"none"}, passed : {0}]]
  /\ listed = [e \in Evals |-> <<>>]
  /\ results = [e \in Evals |-> {}]
  /\ deleted = {}
  /\ work = [e \in Evals |-> NoWork]
  /\ faults = 0 /\ crashes = 0

Fault == faults < MaxFaults /\ faults' = faults + 1

-----------------------------------------------------------------------------
(* The handlers of datasets and cases *)

CreateDataset(d) ==
  /\ dataset[d] = "none"
  /\ dataset' = [dataset EXCEPT ![d] = "live"]
  /\ UNCHANGED <<case, home, version, edits, updates, deleting, deleted, eval, listed, results, work,
                 faults, crashes>>

(* Only a dataset that is there takes a case.                              *)
CreateCase(c) ==
  /\ case[c] = "none" /\ \A b \in Cases : b < c => case[b] # "none"
  /\ dataset[home[c]] = "live"
  /\ case' = [case EXCEPT ![c] = "live"]
  /\ UNCHANGED <<dataset, home, version, edits, updates, deleting, deleted, eval, listed, results, work,
                 faults, crashes>>

(* An update reads the row, checks the request against it and saves the    *)
(* whole row: it takes back what another has saved between, and a row that *)
(* was deleted between is inserted again.                                  *)
UpdateDataset(d) ==
  /\ dataset[d] = "live"
  /\ updates < MaxEdits /\ updates' = updates + 1
  /\ edits' = edits \cup {d}
  /\ UNCHANGED <<rows, deleting, deleted, eval, listed, results, work, faults, crashes>>

UpdateCase(c) ==
  /\ case[c] = "live" /\ dataset[home[c]] = "live"
  /\ updates < MaxEdits /\ updates' = updates + 1
  /\ edits' = edits \cup {c}
  /\ UNCHANGED <<rows, deleting, deleted, eval, listed, results, work, faults, crashes>>

SaveDataset(d) ==
  /\ d \in edits /\ edits' = edits \ {d}
  /\ \/ dataset' = [dataset EXCEPT ![d] = "live"] /\ UNCHANGED faults
     \/ Fault /\ UNCHANGED dataset
  /\ UNCHANGED <<case, home, version, updates, deleting, deleted, eval, listed, results, work, crashes>>

SaveCase(c) ==
  /\ c \in edits /\ edits' = edits \ {c}
  /\ \/ /\ case' = [case EXCEPT ![c] = "live"]
        /\ version' = [version EXCEPT ![c] = @ + 1]
        /\ UNCHANGED faults
     \/ Fault /\ UNCHANGED <<case, version>>
  /\ UNCHANGED <<dataset, home, updates, deleting, deleted, eval, listed, results, work, crashes>>

ResultsOf(gone) == [e \in Evals |-> {r \in results[e] : r.case \notin gone}]

(* Two statements: first the results of the case, then the case.           *)
DeleteCase(c) ==
  /\ case[c] = "live" /\ dataset[home[c]] = "live"
  /\ results' = ResultsOf({c})
  /\ deleted' = deleted \cup {c}
  /\ \/ case' = [case EXCEPT ![c] = "deleted"] /\ UNCHANGED faults
     \/ Fault /\ UNCHANGED case
  /\ UNCHANGED <<dataset, home, version, edits, updates, deleting, eval, listed, work, crashes>>

CasesOf(d) == {c \in Cases : home[c] = d}

(* Four statements, each by itself: results, runs, cases, the dataset.     *)
DeleteDataset(d) ==
  /\ dataset[d] = "live" /\ deleting[d] < 4
  /\ deleted' = deleted \cup {d}
  /\ \/ /\ deleting' = [deleting EXCEPT ![d] = IF @ = 3 THEN 0 ELSE @ + 1]
        /\ results' = IF deleting[d] = 0 THEN [e \in Evals |-> IF eval[e].of = d THEN {} ELSE results[e]]
                      ELSE results
        /\ eval' = IF deleting[d] = 1
                   THEN [e \in Evals |-> IF eval[e].of = d /\ eval[e].row = "live"
                                         THEN [eval[e] EXCEPT !.row = "deleted"] ELSE eval[e]]
                   ELSE eval
        /\ case' = IF deleting[d] = 2
                   THEN [c \in Cases |-> IF c \in CasesOf(d) /\ case[c] = "live" THEN "deleted" ELSE case[c]]
                   ELSE case
        /\ dataset' = IF deleting[d] = 3 THEN [dataset EXCEPT ![d] = "deleted"] ELSE dataset
        /\ UNCHANGED faults
     \/ /\ Fault
        /\ deleting' = [deleting EXCEPT ![d] = 0]
        /\ UNCHANGED <<results, eval, case, dataset>>
  /\ UNCHANGED <<home, version, edits, updates, listed, work, crashes>>

-----------------------------------------------------------------------------
(* A run *)

(* The one sequence of the cases that are there, in their order.           *)
CasesNow(d) ==
  LET live == {c \in CasesOf(d) : case[c] = "live"}
  IN  {s \in [1 .. Cardinality(live) -> live] : \A i, j \in DOMAIN s : i < j => s[i] < s[j]}

(* The dataset is looked up, with its user, before the run is begun.       *)
Requested(e) == eval[e].row = "none" /\ dataset[eval[e].of] = "live"

StartRun(e) ==
  /\ Requested(e)
  /\ \E cases \in CasesNow(eval[e].of) :
       /\ cases # <<>>
       /\ listed' = [listed EXCEPT ![e] = [i \in DOMAIN cases |->
                                             [case |-> cases[i], version |-> version[cases[i]]]]]
  /\ eval' = [eval EXCEPT ![e].row = "live", ![e].status = "running"]
  /\ work' = [work EXCEPT ![e].on = TRUE]
  /\ UNCHANGED <<rows, edits, updates, deleting, deleted, results, faults, crashes>>

(* An error ends both loops, over the cases and over the attempts.         *)
More(e) == ~work[e].error /\ work[e].at <= Len(listed[e])
CaseOf(e) == listed[e][work[e].at]

(* What the last save makes of the row; a row that was deleted meanwhile   *)
(* is inserted again.                                                      *)
Saved(e, status, passed) ==
  \/ /\ eval' = [eval EXCEPT ![e].row = "live", ![e].status = status, ![e].passed = passed]
     /\ UNCHANGED faults
  \/ Fault /\ UNCHANGED eval

(* A result that cannot be stored ends the run, with no aggregates.        *)
ResultNotStored(e) ==
  /\ work[e].on /\ More(e)
  /\ faults < MaxFaults /\ faults' = faults + 1
  /\ \/ eval' = [eval EXCEPT ![e].row = "live", ![e].status = "failed"]
     \/ UNCHANGED eval
  /\ work' = [work EXCEPT ![e] = NoWork]
  /\ UNCHANGED <<rows, edits, updates, deleting, deleted, listed, results, crashes>>

(* By what the answer is to contain, or by the score a judge gives it.     *)
Graded == BOOLEAN

(* The answer is judged: what the model said until it stopped, failed or   *)
(* was cut off is the answer.  An error (no such model, a judge that gives *)
(* no score) is a result too, and the last.                                *)
Judged(e) ==
  {[passed |-> p, error |-> FALSE] : p \in Graded} \cup {[passed |-> FALSE, error |-> TRUE]}

Attempt(e) ==
  /\ work[e].on /\ More(e)
  /\ \E j \in Judged(e) :
       /\ results' = [results EXCEPT ![e] = @ \cup
            {[case |-> CaseOf(e).case, version |-> CaseOf(e).version, attempt |-> work[e].attempt,
              passed |-> j.passed, error |-> j.error]}]
       /\ work' = [work EXCEPT ![e] = [at |-> IF @.attempt = Repeats THEN @.at + 1 ELSE @.at,
                                       attempt |-> IF @.attempt = Repeats THEN 1 ELSE @.attempt + 1,
                                       passed |-> IF j.passed THEN @.passed + 1 ELSE @.passed,
                                       error |-> j.error, on |-> TRUE]]
  /\ UNCHANGED <<rows, edits, updates, deleting, deleted, eval, listed, faults, crashes>>

(* Fault variant: the error is forgotten when the run is summed up.        *)
OutcomeOfLast(e) == "done"

Outcome(e) == IF work[e].error THEN "failed" ELSE "done"

Finish(e) ==
  /\ work[e].on /\ ~More(e)
  /\ Saved(e, Outcome(e), work[e].passed)
  /\ work' = [work EXCEPT ![e] = NoWork]
  /\ UNCHANGED <<rows, edits, updates, deleting, deleted, listed, results, crashes>>

(* Nothing takes up a run again: its row stays "running".                  *)
Crash ==
  /\ crashes < MaxCrashes /\ crashes' = crashes + 1
  /\ work' = [e \in Evals |-> NoWork]
  /\ deleting' = [d \in Datasets |-> 0] /\ edits' = {}
  /\ UNCHANGED <<rows, updates, deleted, eval, listed, results, faults>>

Quiet == (\A e \in Evals : ~work[e].on) /\ UNCHANGED vars

Next ==
  \/ \E d \in Datasets : CreateDataset(d) \/ UpdateDataset(d) \/ SaveDataset(d) \/ DeleteDataset(d)
  \/ \E c \in Cases : CreateCase(c) \/ UpdateCase(c) \/ SaveCase(c) \/ DeleteCase(c)
  \/ \E e \in Evals : StartRun(e) \/ Attempt(e) \/ ResultNotStored(e) \/ Finish(e)
  \/ Crash \/ Quiet

Spec == Init /\ [][Next]_vars

-----------------------------------------------------------------------------
(* model/eval.go: a run goes "running to done (every case was run) or       *)
(* failed", each case is tried as often as was asked for, and the pass rate *)
(* is taken over the results stored.  So whatever edits, deletions, failed  *)
(* writes and crashes come between, a run that says done has for every case *)
(* it listed and nobody has deleted all its attempts, without an error and  *)
(* of the text the case had when the run began, and the passes it counts    *)
(* are theirs.                                                              *)
DoneIsComplete ==
  \A e \in Evals :
    eval[e].status = "done" /\ eval[e].of \notin deleted =>
      /\ \A i \in DOMAIN listed[e], a \in 1 .. Repeats :
           listed[e][i].case \notin deleted =>
             \E r \in results[e] : /\ r.case = listed[e][i].case /\ r.version = listed[e][i].version
                                   /\ r.attempt = a /\ ~r.error
      /\ (\A i \in DOMAIN listed[e] : listed[e][i].case \notin deleted) =>
           eval[e].passed = Cardinality({r \in results[e] : r.passed})
=============================================================================
