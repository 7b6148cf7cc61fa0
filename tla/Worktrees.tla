------------------------------ MODULE Worktrees ------------------------------
(***************************************************************************)
(* Background runs that work in git worktrees of their own (taskrun.go,    *)
(* worktree/worktree.go, tool/git.go): a run gets the branch taskrun/<id>  *)
(* in a checkout beside the user's repository, commits there with the git  *)
(* tools, and when it ends its branch is merged back and cleaned up.       *)
(*                                                                         *)
(* A commit is a value; a branch is the set of the commits it has.  Git is *)
(* external: a merge into what the repository's own directory has checked  *)
(* out ends cleanly, in a conflict, or is refused.                         *)
(***************************************************************************)
EXTENDS Naturals

CONSTANTS Runs, NoRun, MaxCommits, MaxCrashes

Own(r) == <<"taskrun", r>>
Other(r) == <<"agent", r>>
Main == <<"main", NoRun>>
Branches == {Main} \cup {Own(r) : r \in Runs} \cup {Other(r) : r \in Runs}
Commits == Runs \X (1 .. MaxCommits)

VARIABLES
  run,        \* where a run is
  entries,    \* the runs the manager has an entry of, in memory
  wd,         \* the directory a run works in: its own, or NoRun, the repository's
  head,       \* the branch each directory is on
  checkouts,  \* the runs whose own checkout exists
  exists,     \* the branches there are
  holds,      \* the commits on each
  committed,  \* how many commits each run has made
  dirty,      \* the directories with edits not committed: of runs, or of main
  conflict,   \* the run whose merge has left the repository in a conflict
  merging,    \* the holder of mergeMu
  crashes

git == <<checkouts, exists, holds, dirty, conflict>>
vars == <<run, entries, wd, head, git, committed, merging, crashes>>

Places == Runs \cup {NoRun}

TypeOK ==
  /\ run \in [Runs -> {"waiting", "working", "merging", "merged", "dropping", "ended"}]
  /\ entries \subseteq Runs /\ checkouts \subseteq Runs
  /\ wd \in [Runs -> Places] /\ head \in [Places -> Branches] /\ exists \subseteq Branches
  /\ holds \in [Branches -> SUBSET Commits]
  /\ committed \in [Runs -> 0 .. MaxCommits]
  /\ dirty \subseteq Places
  /\ {conflict, merging} \subseteq Places
  /\ crashes \in 0 .. MaxCrashes

Init ==
  /\ run = [r \in Runs |-> "waiting"]
  /\ entries = {} /\ checkouts = {}
  /\ wd = [r \in Runs |-> NoRun] /\ head = [p \in Places |-> Main]
  /\ exists = {Main}
  /\ holds = [b \in Branches |-> {}]
  /\ committed = [r \in Runs |-> 0]
  /\ dirty = {} /\ conflict = NoRun /\ merging = NoRun /\ crashes = 0

Goes(r, to) == run' = [run EXCEPT ![r] = to]

-----------------------------------------------------------------------------
(* The run *)

(* worktree add -b: it needs a branch and a directory that are not there.  *)
Create(r) ==
  /\ run[r] = "waiting" /\ Own(r) \notin exists /\ r \notin checkouts
  /\ Goes(r, "working")
  /\ exists' = exists \cup {Own(r)}
  /\ holds' = [holds EXCEPT ![Own(r)] = holds[head[NoRun]]]
  /\ checkouts' = checkouts \cup {r}
  /\ wd' = [wd EXCEPT ![r] = r] /\ head' = [head EXCEPT ![r] = Own(r)]
  /\ entries' = entries \cup {r}
  /\ UNCHANGED <<committed, dirty, conflict, merging, crashes>>

(* When that fails, as it does for a run that is tried again after a       *)
(* crash, the run works in the repository's own directory.                 *)
FallBack(r) ==
  /\ run[r] = "waiting"
  /\ Goes(r, "working")
  /\ wd' = [wd EXCEPT ![r] = NoRun]
  /\ UNCHANGED <<entries, head, git, committed, merging, crashes>>

(* A write that the quota refuses leaves the directory as it is.           *)
Edit(r) ==
  /\ run[r] = "working" /\ committed[r] < MaxCommits
  /\ dirty' = dirty \cup {wd[r]}
  /\ UNCHANGED <<run, entries, wd, head, checkouts, exists, holds, committed, conflict, merging, crashes>>

(* add -A and commit, on whatever branch the directory is on.  In a        *)
(* repository that a merge has left in a conflict this concludes the       *)
(* merge, with the marks of the conflict in its files.                     *)
GitCommit(r) ==
  LET n == committed[r] + 1
      concluded == IF wd[r] = NoRun /\ conflict # NoRun THEN holds[Own(conflict)] ELSE {}
  IN  /\ run[r] = "working" /\ n <= MaxCommits
      /\ wd[r] \in dirty
      /\ wd[r] = NoRun => merging = NoRun
      /\ committed' = [committed EXCEPT ![r] = n]
      /\ holds' = [holds EXCEPT ![head[wd[r]]] = @ \cup {<<r, n>>} \cup concluded]
      /\ dirty' = dirty \ {wd[r]}
      /\ conflict' = IF wd[r] = NoRun THEN NoRun ELSE conflict
      /\ UNCHANGED <<run, entries, wd, head, checkouts, exists, merging, crashes>>

(* checkout -b, after which the directory is on a branch that nobody       *)
(* merges, or branch, which leaves it where it is.  A run that fell back   *)
(* moves the repository's own directory, and with it what the merges of    *)
(* the others go into and their branches start from.                       *)
GitBranch(r, create) ==
  /\ run[r] = "working" /\ Other(r) \notin exists
  /\ wd[r] = NoRun => merging = NoRun
  /\ exists' = exists \cup {Other(r)}
  /\ holds' = [holds EXCEPT ![Other(r)] = holds[head[wd[r]]]]
  /\ head' = IF create THEN [head EXCEPT ![wd[r]] = Other(r)] ELSE head
  /\ UNCHANGED <<run, entries, wd, checkouts, dirty, conflict, committed, merging, crashes>>

-----------------------------------------------------------------------------
(* Its end: the observer takes the entry, merges, cleans up *)

(* Without an entry, or when the executor for the repository's directory   *)
(* cannot be made, nothing is done, and the entry is gone.                 *)
Finalize(r, completed) ==
  /\ run[r] = "working"
  /\ \/ Goes(r, "ended")
     \/ r \in entries /\ Goes(r, IF completed THEN "merging" ELSE "dropping")
  /\ entries' = entries \ {r}
  /\ UNCHANGED <<wd, head, git, committed, merging, crashes>>

LockMerge(r) ==
  /\ run[r] = "merging" /\ merging = NoRun
  /\ merging' = r
  /\ UNCHANGED <<run, entries, wd, head, git, committed, crashes>>

Merged(r) ==
  /\ merging = r /\ conflict = NoRun
  /\ holds' = [holds EXCEPT ![head[NoRun]] = @ \cup holds[Own(r)]]
  /\ Goes(r, "merged") /\ merging' = NoRun
  /\ UNCHANGED <<entries, wd, head, checkouts, exists, dirty, conflict, committed, crashes>>

(* Fault variant: a merge that failed is cleaned up as one that did not.   *)
NotMergedDeleted(r) ==
  /\ merging = r
  /\ conflict' \in {conflict} \cup (IF conflict = NoRun THEN {r} ELSE {})
  /\ Goes(r, "merged") /\ merging' = NoRun
  /\ UNCHANGED <<entries, wd, head, checkouts, exists, dirty, holds, committed, crashes>>

(* Refused (edits in the way, an earlier conflict that nobody has dealt    *)
(* with), or a conflict, which is left as it is: nothing aborts the merge. *)
NotMerged(r) ==
  /\ merging = r
  /\ conflict' \in {conflict} \cup (IF conflict = NoRun THEN {r} ELSE {})
  /\ Goes(r, "dropping") /\ merging' = NoRun
  /\ UNCHANGED <<entries, wd, head, checkouts, exists, dirty, holds, committed, crashes>>

(* worktree remove --force and prune; branch -D only for a merged branch.  *)
Cleanup(r) ==
  /\ run[r] \in {"merged", "dropping"}
  /\ Goes(r, "ended")
  /\ checkouts' = checkouts \ {r}
  /\ dirty' = dirty \ {r}
  /\ exists' = IF run[r] = "merged" THEN exists \ {Own(r)} ELSE exists
  /\ UNCHANGED <<entries, wd, head, holds, conflict, committed, merging, crashes>>

(* The entries were in memory.  What was not yet done for an ended run     *)
(* stays undone; a run under way is tried again under the same id.         *)
Crash ==
  /\ crashes < MaxCrashes /\ crashes' = crashes + 1
  /\ entries' = {} /\ merging' = NoRun
  /\ run' = [r \in Runs |-> IF run[r] = "working" THEN "waiting"
                            ELSE IF run[r] = "waiting" THEN "waiting" ELSE "ended"]
  /\ UNCHANGED <<wd, head, git, committed>>

Quiet == (\A r \in Runs : run[r] = "ended") /\ UNCHANGED vars

Next ==
  \/ \E r \in Runs : Create(r) \/ FallBack(r) \/ Edit(r) \/ GitCommit(r)
                     \/ (\E create \in BOOLEAN : GitBranch(r, create))
                     \/ (\E completed \in BOOLEAN : Finalize(r, completed))
                     \/ LockMerge(r) \/ Merged(r) \/ NotMerged(r) \/ Cleanup(r)
  \/ Crash \/ Quiet

Spec == Init /\ [][Next]_vars

-----------------------------------------------------------------------------
(* worktree/worktree.go: "completed: merge, then clean up; a conflict keeps *)
(* the branch for a person; failed or canceled: keep the branch".  Whatever *)
(* merges, conflicts, crashes, new branches and runs that fell back to the  *)
(* repository's own directory do, what a run has committed is on a branch.  *)
WorkKept ==
  \A r \in Runs : \A n \in 1 .. committed[r] : \E b \in exists : <<r, n>> \in holds[b]
=============================================================================
