------------------------------ MODULE Approvals ------------------------------
(***************************************************************************)
(* Commands of agents (tool/codeact.go, tool/git.go) on their way through  *)
(* the policy (executor/policy.go, executor/blacklist.go), and the people  *)
(* who approve or reject the ones it holds back (api/checkpoint.go).       *)
(*                                                                         *)
(* A rule is a piece of text to find in the command; what counts is the    *)
(* worst rule that is found.  A command runs on the host or in a           *)
(* container (executor/host.go, executor/docker.go): either way it may     *)
(* have had its effect when it times out or its result is lost.            *)
(***************************************************************************)
EXTENDS Naturals, FiniteSets

CONSTANTS
  Calls,            \* calls of shell_exec and of the git tools
  People,           \* users: owners of the calls and those who decide
  CanSeeAll,        \* the administrators and developers among them
  HasCheckpointer,  \* whether a held command is stored for approval
  NoCall,
  MaxFaults, MaxCrashes

VARIABLES
  rules,     \* the rules a call's command matches: severities
  owner,
  call,      \* where a call is
  ran,       \* whether its command has ever been started
  row,       \* the status of its checkpoint
  desk,      \* what each person is doing, with which call
  consent,   \* the people whose approval was let through, for each call
  audit,     \* the decisions the audit log has on a call
  faults, crashes

log == <<audit, consent>>
given == <<rules, owner>>
vars == <<given, call, ran, row, desk, log, faults, crashes>>

Decisions == {"allow", "ask", "deny"}
Idle == [at |-> "idle", of |-> NoCall]
Finished == {"done", "failed", "denied", "held", "lost"}

TypeOK ==
  /\ rules \in [Calls -> SUBSET {"ask", "deny"}]
  /\ owner \in [Calls -> People]
  /\ call \in [Calls -> Finished \cup {"new", "running"}]
  /\ ran \in [Calls -> BOOLEAN]
  /\ row \in [Calls -> {"none", "pending", "approved", "rejected"}]
  /\ desk \in [People -> [at : {"idle", "approving", "ran", "rejecting"}, of : Calls \cup {NoCall}]]
  /\ consent \in [Calls -> SUBSET People]
  /\ audit \in [Calls -> SUBSET (Decisions \cup {"approved", "rejected"})]
  /\ faults \in 0 .. MaxFaults /\ crashes \in 0 .. MaxCrashes

Init ==
  /\ rules \in [Calls -> SUBSET {"ask", "deny"}]
  /\ owner \in [Calls -> People]
  /\ call = [c \in Calls |-> "new"]
  /\ ran = [c \in Calls |-> FALSE]
  /\ row = [c \in Calls |-> "none"]
  /\ desk = [p \in People |-> Idle]
  /\ consent = [c \in Calls |-> {}]
  /\ audit = [c \in Calls |-> {}]
  /\ faults = 0 /\ crashes = 0

Fault == faults < MaxFaults /\ faults' = faults + 1

-----------------------------------------------------------------------------
(* A call of a tool *)

(* Fault variant: the rules are read in their order, a mild one first.     *)
EvaluateInOrder(c) ==
  IF "ask" \in rules[c] THEN "ask"
  ELSE IF "deny" \in rules[c] THEN "deny" ELSE "allow"

(* Every rule that denies is looked for before any that asks.              *)
Evaluate(c) ==
  IF "deny" \in rules[c] THEN "deny"
  ELSE IF "ask" \in rules[c] THEN "ask" ELSE "allow"

Noted(c, d) == audit' = [audit EXCEPT ![c] = @ \cup {d}]

Allowed(c) ==
  /\ call[c] = "new" /\ Evaluate(c) = "allow"
  /\ Noted(c, "allow")
  /\ call' = [call EXCEPT ![c] = "running"]
  /\ ran' = [ran EXCEPT ![c] = TRUE]
  /\ UNCHANGED <<given, row, desk, consent, faults, crashes>>

Denied(c) ==
  /\ call[c] = "new" /\ Evaluate(c) = "deny"
  /\ Noted(c, "deny")
  /\ call' = [call EXCEPT ![c] = "denied"]
  /\ UNCHANGED <<given, ran, row, desk, consent, faults, crashes>>

(* A command that wants asking: no one is there to be asked, so it is      *)
(* stored for approval, or denied when that fails or is not provided for.  *)
(* The model reads the refusal as the result of its tool and goes on.      *)
Held(c) ==
  /\ call[c] = "new" /\ Evaluate(c) = "ask"
  /\ Noted(c, "ask")
  /\ \/ /\ HasCheckpointer
        /\ row' = [row EXCEPT ![c] = "pending"]
        /\ call' = [call EXCEPT ![c] = "held"]
        /\ UNCHANGED faults
     \/ /\ HasCheckpointer => Fault
        /\ ~HasCheckpointer => UNCHANGED faults
        /\ call' = [call EXCEPT ![c] = "denied"]
        /\ UNCHANGED row
  /\ UNCHANGED <<given, ran, desk, consent, crashes>>

(* Any exit code is a result; a timeout, a container service that does not *)
(* answer and a program that does not start are errors of the tool.        *)
Returns(c) ==
  /\ call[c] = "running"
  /\ \E end \in {"done", "failed"} : call' = [call EXCEPT ![c] = end]
  /\ UNCHANGED <<given, ran, row, desk, log, faults, crashes>>

-----------------------------------------------------------------------------
(* A person decides *)

MayResolve(p, c) == p \in CanSeeAll \/ owner[c] = p

Resolving(p, at, c) == desk' = [desk EXCEPT ![p] = [at |-> at, of |-> c]]

(* Fault variant: everyone decides on everything.                          *)
OpenAnyones(p, c, action) ==
  /\ desk[p] = Idle /\ row[c] = "pending"
  /\ Resolving(p, action, c)
  /\ consent' = IF action = "approving" THEN [consent EXCEPT ![c] = @ \cup {p}] ELSE consent
  /\ UNCHANGED <<given, call, ran, row, audit, faults, crashes>>

(* The checkpoint is read, and is to be pending and one's own to decide.   *)
Open(p, c, action) ==
  /\ desk[p] = Idle /\ row[c] = "pending" /\ MayResolve(p, c)
  /\ Resolving(p, action, c)
  /\ consent' = IF action = "approving" THEN [consent EXCEPT ![c] = @ \cup {p}] ELSE consent
  /\ UNCHANGED <<given, call, ran, row, audit, faults, crashes>>

(* The update names the id alone, not the status that was read.            *)
Resolve(p, status) ==
  LET c == desk[p].of
  IN  /\ \/ /\ row' = [row EXCEPT ![c] = status]
            /\ Noted(c, status)
            /\ UNCHANGED faults
         \/ Fault /\ UNCHANGED <<row, audit>>
      /\ desk' = [desk EXCEPT ![p] = Idle]
      /\ UNCHANGED <<given, call, ran, consent, crashes>>

Reject(p) == desk[p].at = "rejecting" /\ Resolve(p, "rejected")

(* An approved command runs on the host, past the policy, before the       *)
(* checkpoint is resolved.                                                 *)
RunApproved(p) ==
  /\ desk[p].at = "approving"
  /\ ran' = [ran EXCEPT ![desk[p].of] = TRUE]
  /\ Resolving(p, "ran", desk[p].of)
  /\ UNCHANGED <<given, call, row, log, faults, crashes>>

(* No executor for the directory of the command: it is left pending.       *)
NotRun(p) ==
  /\ desk[p].at = "approving"
  /\ desk' = [desk EXCEPT ![p] = Idle]
  /\ UNCHANGED <<given, call, ran, row, log, faults, crashes>>

Approve(p) == desk[p].at = "ran" /\ Resolve(p, "approved")

(* The process dies: checkpoints and the audit log are in the database.    *)
Crash ==
  /\ crashes < MaxCrashes
  /\ crashes' = crashes + 1
  /\ call' = [c \in Calls |-> IF call[c] = "running" THEN "lost" ELSE call[c]]
  /\ desk' = [p \in People |-> Idle]
  /\ UNCHANGED <<given, ran, row, log, faults>>

Quiet == /\ \A c \in Calls : call[c] \in Finished
         /\ \A p \in People : desk[p] = Idle
         /\ UNCHANGED vars

Next ==
  \/ \E c \in Calls : Allowed(c) \/ Denied(c) \/ Held(c) \/ Returns(c)
  \/ \E p \in People, c \in Calls, action \in {"approving", "rejecting"} : Open(p, c, action)
  \/ \E p \in People : Reject(p) \/ RunApproved(p) \/ NotRun(p) \/ Approve(p)
  \/ Crash
  \/ Quiet

Spec == Init /\ [][Next]_vars

-----------------------------------------------------------------------------
(* Properties *)

(* executor/policy.go, docs of M3-05: whatever rules it matches and however *)
(* calls, decisions, failures and crashes interleave, a command a rule      *)
(* denies never runs, and one a rule holds back runs only for people who    *)
(* approved it and are its owner or may see everyone's.                     *)
AskedBeforeRun ==
  \A c \in Calls :
    ran[c] /\ rules[c] # {} =>
      /\ "deny" \notin rules[c]
      /\ \E p \in consent[c] : p = owner[c] \/ p \in CanSeeAll

(* api/checkpoint.go:81: "with action=reject it is marked rejected, and the *)
(* command never runs".                                                     *)
RejectedNeverRuns == \A c \in Calls : row[c] = "rejected" => ~ran[c]
=============================================================================
