------------------------------- MODULE Skills -------------------------------
(***************************************************************************)
(* Skills learned from sessions: the scan that extracts candidates from    *)
(* what was said (evolution/evolution.go), in the background and on        *)
(* request, the approval that publishes one in the shared library of       *)
(* skills (api/skill_candidate.go, skillrepo/skillrepo.go), and the check  *)
(* it must pass, run with the candidate already in the library             *)
(* (regression/regression.go).                                             *)
(*                                                                         *)
(* Candidates belong to users, the library is everyone's.  What the model  *)
(* extracts, and whether it passes a check, is left to chance; extractions *)
(* that fail the gate of quality are as if nothing was found.              *)
(* The checker is there: main.go sets it before it serves, and without one *)
(* (in tests only) a candidate is published unchecked.                     *)
(***************************************************************************)
EXTENDS Naturals, Sequences

CONSTANTS
  Users, Sessions, Names, Bodies,
  Scanners, Requests,      \* scans, and approvals and rejections, under way
  NoOne, Absent,           \* no user, no skill of a name
  MaxCands, MaxFaults  \* a crash is one of the faults

VARIABLES
  owner,    \* of each session
  cands,    \* the rows of candidates
  scan,     \* what each scan is doing
  desk,     \* what each request is doing
  library,  \* the skill of each name
  keeper,   \* the user the evaluation set of each name is of
  suite,    \* what the cases of each set ask about
  keyword,  \* the skill the checks put in front of the model
  passed,   \* the candidates a check was passed for
  spoiled,  \* the names whose file a failed write or removal, or a crash, left behind
  faults

table == <<owner, cands>>
check == <<keeper, suite, keyword, passed>>
vars == <<table, scan, desk, library, check, spoiled, faults>>

Statuses == {"pending", "approved", "rejected"}
(* What passes the gate of quality; of one name and body is of one hash.   *)
Skill == [name : Names, body : Bodies]
NoSkill == [name |-> Absent, body |-> Absent]
NotScanning == [at |-> "idle", session |-> NoOne, skill |-> NoSkill]
Idle == [at |-> "idle", cand |-> 0]
Cands == DOMAIN cands

TypeOK ==
  /\ owner \in [Sessions -> Users]
  /\ \A i \in Cands : /\ cands[i].user \in Users /\ cands[i].session \in Sessions
                      /\ cands[i].skill \in Skill /\ cands[i].status \in Statuses
  /\ \A s \in Scanners : /\ scan[s].at \in {"idle", "extracting", "found", "fresh"}
                         /\ scan[s].session \in Sessions \cup {NoOne}
                         /\ scan[s].skill \in Skill \cup {NoSkill}
  /\ \A r \in Requests : /\ desk[r].at \in {"idle", "loaded", "registered", "published",
                                            "checking", "removing", "approving", "rejecting"}
                         /\ desk[r].cand \in {0} \cup Cands
  /\ library \in [Names -> Bodies \cup {Absent}]
  /\ keeper \in [Names -> Users \cup {NoOne}]
  /\ suite \in [Names -> SUBSET (Names \cup Bodies)]
  /\ keyword \in Names \cup {Absent}
  /\ passed \subseteq Cands /\ spoiled \subseteq Names

Init ==
  /\ owner \in [Sessions -> Users]
  /\ cands = <<>>
  /\ scan = [s \in Scanners |-> NotScanning] /\ desk = [r \in Requests |-> Idle]
  /\ library = [n \in Names |-> Absent]
  /\ keeper = [n \in Names |-> NoOne]
  /\ suite = [n \in Names |-> {}]
  /\ keyword = Absent /\ passed = {} /\ spoiled = {}
  /\ faults = 0

Fault == faults < MaxFaults /\ faults' = faults + 1

-----------------------------------------------------------------------------
(* The scan, one session after the other *)

Standing(u) == {i \in Cands : cands[i].user = u /\ cands[i].status # "rejected"}

Extracted(session) == \E i \in Standing(owner[session]) : cands[i].session = session
Known(u, skill) == \E i \in Standing(u) : cands[i].skill = skill

ScanOnly == UNCHANGED <<owner, desk, library, check, spoiled, faults>>

ProcessSession(s, session) ==
  /\ scan[s] = NotScanning /\ ~Extracted(session)
  /\ scan' = [scan EXCEPT ![s].at = "extracting", ![s].session = session]
  /\ ScanOnly /\ UNCHANGED cands

(* Nothing found, an error, and a skill that is no good end it alike.      *)
Extract(s) ==
  /\ scan[s].at = "extracting"
  /\ \/ \E skill \in Skill : scan' = [scan EXCEPT ![s].at = "found", ![s].skill = skill]
     \/ scan' = [scan EXCEPT ![s] = NotScanning]
  /\ ScanOnly /\ UNCHANGED cands

LookForDuplicate(s) ==
  /\ scan[s].at = "found"
  /\ scan' = IF Known(owner[scan[s].session], scan[s].skill) THEN [scan EXCEPT ![s] = NotScanning]
             ELSE [scan EXCEPT ![s].at = "fresh"]
  /\ ScanOnly /\ UNCHANGED cands

CreateCandidate(s) ==
  /\ scan[s].at = "fresh" /\ Len(cands) < MaxCands
  /\ cands' = Append(cands, [user |-> owner[scan[s].session], session |-> scan[s].session,
                             skill |-> scan[s].skill, status |-> "pending"])
  /\ scan' = [scan EXCEPT ![s] = NotScanning]
  /\ ScanOnly

-----------------------------------------------------------------------------
(* Approval and rejection by the user the candidate is of *)

Goes(r, to) == desk' = [desk EXCEPT ![r].at = to]
Ends(r) == desk' = [desk EXCEPT ![r] = Idle]
Of(r) == cands[desk[r].cand]
Name(r) == Of(r).skill.name
Body(r) == Of(r).skill.body

DeskOnly == UNCHANGED <<owner, scan>>

(* Whatever its status is: nothing asks for it to be pending.              *)
Load(r, i, decision) ==
  /\ desk[r] = Idle /\ i \in Cands
  /\ desk' = [desk EXCEPT ![r] = [at |-> IF decision = "approve" THEN "loaded" ELSE "rejecting", cand |-> i]]
  /\ DeskOnly /\ UNCHANGED <<cands, library, check, spoiled, faults>>

Mine(r) == keeper[Name(r)] \in {NoOne, Of(r).user}

(* One that asks for the name, and some that ask what the text is about.   *)
GenerateCases(skill) == {skill.name, skill.body}

(* Makes sure of an evaluation set and adds cases made from the text.  The *)
(* set has its name for itself among all users.                            *)
Register(r) ==
  /\ desk[r].at = "loaded"
  /\ \/ /\ Mine(r)
        /\ keeper' = [keeper EXCEPT ![Name(r)] = Of(r).user]
        /\ suite' = [suite EXCEPT ![Name(r)] = @ \cup GenerateCases(Of(r).skill)]
        /\ Goes(r, "registered") /\ UNCHANGED faults
     \/ ~Mine(r) /\ Ends(r) /\ UNCHANGED <<keeper, suite, faults>>
     \/ /\ Mine(r) /\ Fault /\ Ends(r)
        /\ keeper' \in {keeper, [keeper EXCEPT ![Name(r)] = Of(r).user]}
        /\ UNCHANGED suite
  /\ DeskOnly /\ UNCHANGED <<cands, library, keyword, passed, spoiled>>

(* The file is replaced, whoever's it was.  A write that fails ends the    *)
(* request, before it has touched the file or after it has emptied it.     *)
PublishShared(r) ==
  /\ desk[r].at = "registered"
  /\ \/ /\ library' = [library EXCEPT ![Name(r)] = Body(r)] /\ Goes(r, "published")
        /\ UNCHANGED <<spoiled, faults>>
     \/ /\ Fault /\ Ends(r) /\ UNCHANGED library
        /\ spoiled' \in {spoiled, spoiled \cup {Name(r)}}
  /\ DeskOnly /\ UNCHANGED <<cands, check>>

Check(r) ==
  /\ desk[r].at = "published"
  /\ keyword' = Name(r)
  /\ Goes(r, "checking")
  /\ DeskOnly /\ UNCHANGED <<cands, library, keeper, suite, passed, spoiled, faults>>

CheckPasses(r) ==
  /\ desk[r].at = "checking"
  /\ passed' = passed \cup {desk[r].cand}
  /\ Goes(r, "approving")
  /\ DeskOnly /\ UNCHANGED <<cands, library, keeper, suite, keyword, spoiled, faults>>

(* Fault variant: a check that cannot be run is no reason to take it back. *)
CheckFailsOpen(r) ==
  /\ desk[r].at = "checking"
  /\ Ends(r)
  /\ DeskOnly /\ UNCHANGED <<cands, library, check, spoiled, faults>>

(* It fails, or cannot be run.                                             *)
CheckFails(r) ==
  /\ desk[r].at = "checking"
  /\ Goes(r, "removing")
  /\ DeskOnly /\ UNCHANGED <<cands, library, check, spoiled, faults>>

(* What there was before is not put back; an error is not looked at.       *)
RemoveShared(r) ==
  /\ desk[r].at = "removing"
  /\ \/ library' = [library EXCEPT ![Name(r)] = Absent] /\ UNCHANGED <<spoiled, faults>>
     \/ Fault /\ spoiled' = spoiled \cup {Name(r)} /\ UNCHANGED library
  /\ Ends(r)
  /\ DeskOnly /\ UNCHANGED <<cands, check>>

UpdateStatus(r, status) ==
  /\ \/ cands' = [cands EXCEPT ![desk[r].cand].status = status] /\ UNCHANGED faults
     \/ Fault /\ UNCHANGED cands
  /\ Ends(r)
  /\ DeskOnly /\ UNCHANGED <<library, check, spoiled>>

Approve(r) == desk[r].at = "approving" /\ UpdateStatus(r, "approved")
Reject(r) == desk[r].at = "rejecting" /\ UpdateStatus(r, "rejected")

InLibrary(r) == desk[r].at \in {"published", "checking", "removing"}

(* A write that a crash cuts short may leave anything of its text.         *)
Crash ==
  /\ Fault
  /\ spoiled' = spoiled \cup {Name(r) : r \in {q \in Requests : InLibrary(q) \/ desk[q].at = "registered"}}
  /\ scan' = [s \in Scanners |-> NotScanning] /\ desk' = [r \in Requests |-> Idle]
  /\ keyword' = Absent
  /\ UNCHANGED <<table, library, keeper, suite, passed>>

Next ==
  \/ \E s \in Scanners :
       \/ \E session \in Sessions : ProcessSession(s, session)
       \/ Extract(s) \/ LookForDuplicate(s) \/ CreateCandidate(s)
  \/ \E r \in Requests :
       \/ \E i \in Cands, decision \in {"approve", "reject"} : Load(r, i, decision)
       \/ Register(r) \/ PublishShared(r) \/ Check(r) \/ CheckPasses(r) \/ CheckFails(r)
       \/ RemoveShared(r) \/ Approve(r) \/ Reject(r)
  \/ Crash

Spec == Init /\ [][Next]_vars

-----------------------------------------------------------------------------
(* api/skill_candidate.go: "the regression was not passed: take back the    *)
(* publication".  However approvals of different and of the same candidates *)
(* overlap, replace each other's file and take it away, a skill in the      *)
(* library is one whose candidate has passed its check or is being approved *)
(* right now, but for names whose file a failed write, a failed removal or  *)
(* a crash has left as it was.                                              *)
LibraryChecked ==
  \A n \in Names \ spoiled :
    library[n] # Absent =>
      \E i \in Cands : /\ cands[i].skill = [name |-> n, body |-> library[n]]
                       /\ i \in passed \/ \E r \in Requests : InLibrary(r) /\ desk[r].cand = i
=============================================================================
