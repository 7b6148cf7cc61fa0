--------------------------- MODULE AutomationProofs ---------------------------
(***************************************************************************)
(* Theorems about module Automation, for any number of automations, jobs   *)
(* and overlapping scans and whatever the environment does.                *)
(***************************************************************************)
EXTENDS Automation, TLAPS

(* A job knows its automation as soon as it is started, and the webhook    *)
(* starts its own.                                                         *)
JobKnown ==
  \A j \in Jobs : /\ pc[j] # "new" => auto[j] \in Autos
                  /\ pc[j] = "admitting" => channel[j] = "webhook"

(* A running record has attempts left, as far as recovery knows too, and   *)
(* recovery has a current record exactly while it resumes one.             *)
AttemptsLeft ==
  /\ \A j \in Jobs : records[j].status = "running" => records[j].attempts < RecoveryMax
  /\ \A j \in Jobs : listed[j] # NotListed => listed[j] < RecoveryMax
  /\ IF recovery = "resuming" THEN current \in Jobs /\ listed[current] # NotListed
                              ELSE current = NoJob

(* LockExact by element. *)
HeldWhileLive ==
  \A c \in Channels, a \in Autos :
    a \in running[c] <=> \E j \in Jobs : pc[j] \in Live /\ channel[j] = c /\ auto[j] = a

OneHolder ==
  \A j, k \in Jobs :
    pc[j] \in Live /\ pc[k] \in Live /\ channel[j] = channel[k] /\ auto[j] = auto[k] => j = k

Inv == TypeOK /\ JobKnown /\ AttemptsLeft /\ HeldWhileLive /\ OneHolder

-----------------------------------------------------------------------------
(* What the actions do to the typed parts *)

LEMMA RowFields ==
  ASSUME NEW row \in Row
  PROVE  /\ \A s \in {"enabled", "disabled", "deleted"} : [row EXCEPT !.status = s] \in Row
         /\ \A t \in Channels : [row EXCEPT !.trigger = t] \in Row
         /\ \A n \in {"none", "future", "due"} : [row EXCEPT !.next = n] \in Row
BY DEF Row, Channels

LEMMA NoRowTyped == NoRow \in Row
BY DEF NoRow, Row, Channels

LEMMA SavedTyped ==
  ASSUME rows \in [Autos -> Row], NEW a \in Autos, NEW row \in Row
  PROVE  Saved(a, row) \in [Autos -> Row]
BY RowFields DEF Saved

LEMMA FaultTyped ==
  ASSUME TypeOK, Fault
  PROVE  spent' \in [fault : 0 .. MaxFaults, edit : 0 .. MaxEdits, crash : 0 .. MaxCrashes]
<1>1. spent.fault \in 0 .. MaxFaults /\ spent.fault < MaxFaults
  BY DEF Fault, TypeOK
<1>2. spent.fault + 1 \in 0 .. MaxFaults
  BY <1>1, BoundsAssumption
<1> QED
  BY <1>2 DEF Fault, TypeOK

LEMMA EditTyped ==
  ASSUME TypeOK, Edit
  PROVE  spent' \in [fault : 0 .. MaxFaults, edit : 0 .. MaxEdits, crash : 0 .. MaxCrashes]
<1>1. spent.edit \in 0 .. MaxEdits /\ spent.edit < MaxEdits
  BY DEF Edit, TypeOK
<1>2. spent.edit + 1 \in 0 .. MaxEdits
  BY <1>1, BoundsAssumption
<1> QED
  BY <1>2 DEF Edit, TypeOK

(* Steps that start and end no job keep the lock parts. *)
LEMMA LocksUntouched ==
  ASSUME Inv,
         running' = running,
         \A j \in Jobs : (pc'[j] \in Live) = (pc[j] \in Live),
         \A j \in Jobs : pc[j] \in Live => channel'[j] = channel[j] /\ auto'[j] = auto[j]
  PROVE  HeldWhileLive' /\ OneHolder'
BY DEF Inv, HeldWhileLive, OneHolder

(* Steps that write no record and leave recovery alone. *)
LEMMA AttemptsUntouched ==
  ASSUME Inv, UNCHANGED <<records, recoveryVars>>
  PROVE  AttemptsLeft'
BY DEF Inv, AttemptsLeft, recoveryVars

-----------------------------------------------------------------------------
(* The user and the clock *)

LEMMA CreateKeeps ==
  ASSUME Inv, NEW a \in Autos, Create(a)
  PROVE  Inv'
<1>1. TypeOK'
  <2>1. PICK trigger \in Channels :
          rows' = [rows EXCEPT ![a] =
                    [status |-> "enabled", trigger |-> trigger, next |-> "none",
                     token |-> IF trigger = "webhook" THEN "given" ELSE "none"]]
    BY DEF Create
  <2>2. [status |-> "enabled", trigger |-> trigger, next |-> "none",
         token |-> IF trigger = "webhook" THEN "given" ELSE "none"] \in Row
    BY DEF Row
  <2>3. rows' \in [Autos -> Row]
    BY <2>1, <2>2 DEF Inv, TypeOK
  <2> QED
    BY <2>3 DEF Inv, TypeOK, Create, jobVars, recoveryVars
<1>2. JobKnown'
  BY DEF Inv, JobKnown, Create, jobVars
<1>3. AttemptsLeft'
  BY AttemptsUntouched DEF Create
<1>4. HeldWhileLive' /\ OneHolder'
  BY LocksUntouched DEF Create, jobVars
<1> QED
  BY <1>1, <1>2, <1>3, <1>4 DEF Inv

LEMMA ReadForEditKeeps ==
  ASSUME Inv, NEW a \in Autos, ReadForEdit(a)
  PROVE  Inv'
<1>1. TypeOK'
  <2>1. PICK row \in {[rows[a] EXCEPT !.status = s] : s \in {"enabled", "disabled"}}
                   \cup {[rows[a] EXCEPT !.trigger = t] : t \in Channels} :
          edit' = [auto |-> a, row |-> row]
    BY DEF ReadForEdit
  <2>2. row \in Row
    <3>1. rows[a] \in Row
      BY DEF Inv, TypeOK
    <3>2. CASE row \in {[rows[a] EXCEPT !.status = s] : s \in {"enabled", "disabled"}}
      <4>1. PICK s \in {"enabled", "disabled"} : row = [rows[a] EXCEPT !.status = s]
        BY <3>2
      <4> QED
        BY <3>1, <4>1, RowFields
    <3>3. CASE row \in {[rows[a] EXCEPT !.trigger = t] : t \in Channels}
      <4>1. PICK t \in Channels : row = [rows[a] EXCEPT !.trigger = t]
        BY <3>3
      <4> QED
        BY <3>1, <4>1, RowFields
    <3> QED
      BY <3>2, <3>3
  <2>3. edit' \in [auto : Autos \cup {NoAuto}, row : Row]
    BY <2>1, <2>2
  <2>4. spent' \in [fault : 0 .. MaxFaults, edit : 0 .. MaxEdits, crash : 0 .. MaxCrashes]
    BY EditTyped DEF Inv, ReadForEdit
  <2> QED
    BY <2>3, <2>4 DEF Inv, TypeOK, ReadForEdit, jobVars, recoveryVars
<1>2. JobKnown'
  BY DEF Inv, JobKnown, ReadForEdit, jobVars
<1>3. AttemptsLeft'
  BY AttemptsUntouched DEF ReadForEdit
<1>4. HeldWhileLive' /\ OneHolder'
  BY LocksUntouched DEF ReadForEdit, jobVars
<1> QED
  BY <1>1, <1>2, <1>3, <1>4 DEF Inv

LEMMA SaveEditKeeps ==
  ASSUME Inv, NEW a \in Autos, SaveEdit(a)
  PROVE  Inv'
<1>1. TypeOK'
  <2>1. edit.row \in Row /\ rows \in [Autos -> Row]
    BY DEF Inv, TypeOK
  <2>2. rows' \in [Autos -> Row]
    BY <2>1, SavedTyped DEF SaveEdit
  <2>3. edit' \in [auto : Autos \cup {NoAuto}, row : Row]
    BY NoRowTyped DEF SaveEdit, NoEdit
  <2> QED
    BY <2>2, <2>3 DEF Inv, TypeOK, SaveEdit, jobVars, recoveryVars
<1>2. JobKnown'
  BY DEF Inv, JobKnown, SaveEdit, jobVars
<1>3. AttemptsLeft'
  BY AttemptsUntouched DEF SaveEdit
<1>4. HeldWhileLive' /\ OneHolder'
  BY LocksUntouched DEF SaveEdit, jobVars
<1> QED
  BY <1>1, <1>2, <1>3, <1>4 DEF Inv

LEMMA DeleteKeeps ==
  ASSUME Inv, NEW a \in Autos, Delete(a)
  PROVE  Inv'
<1>1. TypeOK'
  <2>1. rows \in [Autos -> Row] /\ rows[a] \in Row
    BY DEF Inv, TypeOK
  <2>2. [rows[a] EXCEPT !.status = "deleted"] \in Row
    BY <2>1, RowFields
  <2>3. rows' \in [Autos -> Row]
    BY <2>1, <2>2 DEF Delete
  <2>4. spent' \in [fault : 0 .. MaxFaults, edit : 0 .. MaxEdits, crash : 0 .. MaxCrashes]
    BY EditTyped DEF Inv, Delete
  <2> QED
    BY <2>3, <2>4 DEF Inv, TypeOK, Delete, jobVars, recoveryVars
<1>2. JobKnown'
  BY DEF Inv, JobKnown, Delete, jobVars
<1>3. AttemptsLeft'
  BY AttemptsUntouched DEF Delete
<1>4. HeldWhileLive' /\ OneHolder'
  BY LocksUntouched DEF Delete, jobVars
<1> QED
  BY <1>1, <1>2, <1>3, <1>4 DEF Inv

LEMMA ClockKeeps ==
  ASSUME Inv, NEW a \in Autos, Clock(a)
  PROVE  Inv'
<1>1. TypeOK'
  <2>1. rows \in [Autos -> Row] /\ rows[a] \in Row
    BY DEF Inv, TypeOK
  <2>2. [rows[a] EXCEPT !.next = "due"] \in Row
    BY <2>1, RowFields
  <2>3. rows' \in [Autos -> Row]
    BY <2>1, <2>2 DEF Clock
  <2> QED
    BY <2>3 DEF Inv, TypeOK, Clock, jobVars, recoveryVars
<1>2. JobKnown'
  BY DEF Inv, JobKnown, Clock, jobVars
<1>3. AttemptsLeft'
  BY AttemptsUntouched DEF Clock
<1>4. HeldWhileLive' /\ OneHolder'
  BY LocksUntouched DEF Clock, jobVars
<1> QED
  BY <1>1, <1>2, <1>3, <1>4 DEF Inv

-----------------------------------------------------------------------------
(* The scan *)

LEMMA LookedTyped ==
  ASSUME TypeOK, NEW s \in Scans, NEW a \in Autos, Looked(s, a)
  PROVE  list' \in [Scans -> [Autos -> Row]]
BY NoRowTyped DEF TypeOK, Looked

LEMMA ListCronKeeps ==
  ASSUME Inv, NEW s \in Scans, ListCron(s)
  PROVE  Inv'
<1>1. TypeOK'
  <2>1. [a \in Autos |-> IF IsCron(rows[a]) THEN rows[a] ELSE NoRow] \in [Autos -> Row]
    BY NoRowTyped DEF Inv, TypeOK
  <2>2. list' \in [Scans -> [Autos -> Row]]
    BY <2>1 DEF Inv, TypeOK, ListCron
  <2> QED
    BY <2>2 DEF Inv, TypeOK, ListCron, jobVars, recoveryVars
<1>2. JobKnown'
  BY DEF Inv, JobKnown, ListCron, jobVars
<1>3. AttemptsLeft'
  BY AttemptsUntouched DEF ListCron
<1>4. HeldWhileLive' /\ OneHolder'
  BY LocksUntouched DEF ListCron, jobVars
<1> QED
  BY <1>1, <1>2, <1>3, <1>4 DEF Inv

LEMMA ArmKeeps ==
  ASSUME Inv, NEW s \in Scans, NEW a \in Autos, Arm(s, a)
  PROVE  Inv'
<1>1. TypeOK'
  <2>1. rows \in [Autos -> Row] /\ list[s][a] \in Row
    BY DEF Inv, TypeOK
  <2>2. [list[s][a] EXCEPT !.next = "future"] \in Row
    BY <2>1, RowFields
  <2>3. Saved(a, [list[s][a] EXCEPT !.next = "future"]) \in [Autos -> Row]
    BY <2>1, <2>2, SavedTyped
  <2>4. rows' \in [Autos -> Row]
    BY <2>1, <2>3 DEF Arm
  <2>5. spent' \in [fault : 0 .. MaxFaults, edit : 0 .. MaxEdits, crash : 0 .. MaxCrashes]
    BY FaultTyped DEF Inv, Arm, TypeOK
  <2>6. list' \in [Scans -> [Autos -> Row]]
    BY LookedTyped DEF Inv, Arm
  <2> QED
    BY <2>4, <2>5, <2>6 DEF Inv, TypeOK, Arm, jobVars, recoveryVars
<1>2. JobKnown'
  BY DEF Inv, JobKnown, Arm, jobVars
<1>3. AttemptsLeft'
  BY AttemptsUntouched DEF Arm
<1>4. HeldWhileLive' /\ OneHolder'
  BY LocksUntouched DEF Arm, jobVars
<1> QED
  BY <1>1, <1>2, <1>3, <1>4 DEF Inv

LEMMA SkipKeeps ==
  ASSUME Inv, NEW s \in Scans, NEW a \in Autos, Skip(s, a)
  PROVE  Inv'
<1>1. TypeOK'
  <2>1. list' \in [Scans -> [Autos -> Row]]
    BY LookedTyped DEF Inv, Skip
  <2> QED
    BY <2>1 DEF Inv, TypeOK, Skip, jobVars, recoveryVars
<1>2. JobKnown'
  BY DEF Inv, JobKnown, Skip, jobVars
<1>3. AttemptsLeft'
  BY AttemptsUntouched DEF Skip
<1>4. HeldWhileLive' /\ OneHolder'
  BY LocksUntouched DEF Skip, jobVars
<1> QED
  BY <1>1, <1>2, <1>3, <1>4 DEF Inv

LEMMA FireKeeps ==
  ASSUME Inv, NEW s \in Scans, NEW a \in Autos, NEW j \in Jobs, Fire(s, a, j)
  PROVE  Inv'
<1>1. TypeOK'
  <2>1. list' \in [Scans -> [Autos -> Row]] /\ list[s][a] \in Row
    BY LookedTyped DEF Inv, Fire, TypeOK
  <2>2. copy' \in [Jobs -> Row]
    BY <2>1 DEF Inv, TypeOK, Fire
  <2>3. pc' \in [Jobs -> {"new", "admitting", "refused", "done", "lost"} \cup Live]
    BY DEF Inv, TypeOK, Fire, Fresh, Goto, Live
  <2>4. auto' \in [Jobs -> Autos \cup {NoAuto}] /\ channel' \in [Jobs -> Channels]
    BY DEF Inv, TypeOK, Fire, Channels
  <2>5. running' \in [Channels -> SUBSET Autos]
    BY DEF Inv, TypeOK, Fire, Channels
  <2> QED
    BY <2>1, <2>2, <2>3, <2>4, <2>5 DEF Inv, TypeOK, Fire, recoveryVars
<1>2. JobKnown'
  BY DEF Inv, TypeOK, JobKnown, Fire, Fresh, Goto
<1>3. AttemptsLeft'
  BY AttemptsUntouched DEF Fire
<1>4. /\ pc'[j] = "opening" /\ auto'[j] = a /\ channel'[j] = "cron"
      /\ \A k \in Jobs : k # j =>
           pc'[k] = pc[k] /\ auto'[k] = auto[k] /\ channel'[k] = channel[k]
      /\ pc[j] \notin Live
      /\ running'["cron"] = running["cron"] \cup {a}
      /\ running'["webhook"] = running["webhook"]
      /\ a \notin running["cron"]
  BY DEF Inv, TypeOK, Fire, Fresh, Goto, Live, Channels
<1>5. HeldWhileLive'
  BY <1>4 DEF Inv, HeldWhileLive, Live, Channels
<1>6. OneHolder'
  BY <1>4 DEF Inv, HeldWhileLive, OneHolder, Channels
<1> QED
  BY <1>1, <1>2, <1>3, <1>5, <1>6 DEF Inv

-----------------------------------------------------------------------------
(* Webhook calls *)

LEMMA CallKeeps ==
  ASSUME Inv, NEW j \in Jobs, NEW a \in Autos, Call(j, a)
  PROVE  Inv'
<1>1. TypeOK'
  <2>1. copy' \in [Jobs -> Row] /\ auto' \in [Jobs -> Autos \cup {NoAuto}]
    BY DEF Inv, TypeOK, Call
  <2>2. pc' \in [Jobs -> {"new", "admitting", "refused", "done", "lost"} \cup Live]
    BY DEF Inv, TypeOK, Call, Fresh, Goto
  <2>3. channel' \in [Jobs -> Channels]
    BY DEF Inv, TypeOK, Call, Channels
  <2> QED
    BY <2>1, <2>2, <2>3 DEF Inv, TypeOK, Call, recoveryVars
<1>2. JobKnown'
  BY DEF Inv, TypeOK, JobKnown, Call, Fresh, Goto
<1>3. AttemptsLeft'
  BY AttemptsUntouched DEF Call
<1>4. /\ pc[j] \notin Live /\ pc'[j] \notin Live
      /\ \A k \in Jobs : k # j =>
           pc'[k] = pc[k] /\ auto'[k] = auto[k] /\ channel'[k] = channel[k]
  BY DEF Inv, TypeOK, Call, Fresh, Goto, Live
<1>5. HeldWhileLive' /\ OneHolder'
  BY <1>4, LocksUntouched DEF Call
<1> QED
  BY <1>1, <1>2, <1>3, <1>5 DEF Inv

LEMMA RefuseKeeps ==
  ASSUME Inv, NEW j \in Jobs, Refuse(j)
  PROVE  Inv'
<1>1. TypeOK'
  <2>1. copy' \in [Jobs -> Row] /\ channel' \in [Jobs -> Channels]
    BY NoRowTyped DEF Inv, TypeOK, Refuse, Channels
  <2>2. pc' \in [Jobs -> {"new", "admitting", "refused", "done", "lost"} \cup Live]
    BY DEF Inv, TypeOK, Refuse, Goto
  <2> QED
    BY <2>1, <2>2 DEF Inv, TypeOK, Refuse, recoveryVars
<1>2. JobKnown'
  BY DEF Inv, TypeOK, JobKnown, Refuse, Goto
<1>3. AttemptsLeft'
  BY AttemptsUntouched DEF Refuse
<1>4. /\ pc[j] \notin Live /\ pc'[j] \notin Live
      /\ \A k \in Jobs : k # j => pc'[k] = pc[k] /\ channel'[k] = channel[k]
  BY DEF Inv, TypeOK, Refuse, Goto, Live
<1>5. HeldWhileLive' /\ OneHolder'
  BY <1>4, LocksUntouched DEF Refuse
<1> QED
  BY <1>1, <1>2, <1>3, <1>5 DEF Inv

LEMMA AdmitKeeps ==
  ASSUME Inv, NEW j \in Jobs, Admit(j)
  PROVE  Inv'
<1>0. auto[j] \in Autos /\ channel[j] \in Channels
  BY DEF Inv, TypeOK, JobKnown, Admit
<1>1. TypeOK'
  <2>1. running' \in [Channels -> SUBSET Autos]
    BY <1>0 DEF Inv, TypeOK, Admit, Channels
  <2>2. pc' \in [Jobs -> {"new", "admitting", "refused", "done", "lost"} \cup Live]
    BY DEF Inv, TypeOK, Admit, Goto, Live
  <2> QED
    BY <2>1, <2>2 DEF Inv, TypeOK, Admit, recoveryVars
<1>2. JobKnown'
  BY <1>0 DEF Inv, TypeOK, JobKnown, Admit, Goto
<1>3. AttemptsLeft'
  BY AttemptsUntouched DEF Admit
<1>4. /\ pc'[j] = "opening" /\ auto'[j] = auto[j] /\ channel'[j] = channel[j]
      /\ \A k \in Jobs : k # j =>
           pc'[k] = pc[k] /\ auto'[k] = auto[k] /\ channel'[k] = channel[k]
      /\ pc[j] \notin Live
      /\ running'["webhook"] = running["webhook"] \cup {auto[j]}
      /\ running'["cron"] = running["cron"]
      /\ auto[j] \notin running["webhook"]
  BY DEF Inv, TypeOK, Admit, Goto, Live, Channels
<1>5. channel[j] = "webhook"
  BY DEF Inv, JobKnown, Admit
<1>6. HeldWhileLive'
  BY <1>4, <1>5 DEF Inv, HeldWhileLive, Live, Channels
<1>7. OneHolder'
  BY <1>0, <1>4, <1>5 DEF Inv, HeldWhileLive, OneHolder, Channels
<1> QED
  BY <1>1, <1>2, <1>3, <1>6, <1>7 DEF Inv

-----------------------------------------------------------------------------
(* Jobs *)

(* A job moves on between two places in which it is live. *)
LEMMA MovesOn ==
  ASSUME Inv, NEW j \in Jobs, NEW p \in Live, pc[j] \in Live, Goto(j, p),
         UNCHANGED <<auto, channel, running>>
  PROVE  /\ pc' \in [Jobs -> {"new", "admitting", "refused", "done", "lost"} \cup Live]
         /\ JobKnown'
         /\ HeldWhileLive' /\ OneHolder'
<1>1. pc' \in [Jobs -> {"new", "admitting", "refused", "done", "lost"} \cup Live]
  BY DEF Inv, TypeOK, Goto
<1>2. pc'[j] = p /\ \A k \in Jobs : k # j => pc'[k] = pc[k]
  BY DEF Inv, TypeOK, Goto
<1>3. JobKnown'
  BY <1>2 DEF Inv, JobKnown, Live
<1>4. HeldWhileLive' /\ OneHolder'
  BY <1>2, LocksUntouched
<1> QED
  BY <1>1, <1>3, <1>4

LEMMA OpenKeeps ==
  ASSUME Inv, NEW j \in Jobs, Open(j)
  PROVE  Inv'
<1>1. PICK p \in {"executing", "saving", "leaving"} : Goto(j, p)
  BY DEF Open
<1>2. p \in Live /\ pc[j] \in Live
  BY DEF Open, Live
<1>3. /\ pc' \in [Jobs -> {"new", "admitting", "refused", "done", "lost"} \cup Live]
      /\ JobKnown'
      /\ HeldWhileLive' /\ OneHolder'
  BY <1>1, <1>2, MovesOn DEF Open
<1>4. records' \in [Jobs -> Record]
  <2>1. [status |-> "running", attempts |-> 0] \in Record
    BY BoundsAssumption DEF Record
  <2> QED
    BY <2>1 DEF Inv, TypeOK, Open
<1>5. spent' \in [fault : 0 .. MaxFaults, edit : 0 .. MaxEdits, crash : 0 .. MaxCrashes]
  BY FaultTyped DEF Inv, TypeOK, Open
<1>6. outcome' \in [Jobs -> {"none", "ok", "failed"}]
  BY DEF Inv, TypeOK, Open
<1>7. TypeOK'
  BY <1>3, <1>4, <1>5, <1>6 DEF Inv, TypeOK, Open, recoveryVars
<1>8. AttemptsLeft'
  <2>1. \A k \in Jobs : records'[k].status = "running" => records'[k].attempts < RecoveryMax
    <3> SUFFICES ASSUME NEW k \in Jobs, records'[k].status = "running"
                 PROVE  records'[k].attempts < RecoveryMax
      OBVIOUS
    <3>1. CASE records'[k] = records[k]
      BY <3>1 DEF Inv, AttemptsLeft
    <3>2. CASE records'[k] = [status |-> "running", attempts |-> 0]
      BY <3>2, BoundsAssumption
    <3> QED
      BY <3>1, <3>2 DEF Inv, TypeOK, Open
  <2> QED
    BY <2>1 DEF Inv, AttemptsLeft, Open, recoveryVars
<1> QED
  BY <1>3, <1>7, <1>8 DEF Inv

LEMMA RunSucceedsKeeps ==
  ASSUME Inv, NEW j \in Jobs, RunSucceeds(j)
  PROVE  Inv'
<1>1. AfterRun(j) \in Live /\ pc[j] \in Live
  BY DEF AfterRun, RunSucceeds, Live
<1>2. /\ pc' \in [Jobs -> {"new", "admitting", "refused", "done", "lost"} \cup Live]
      /\ JobKnown'
      /\ HeldWhileLive' /\ OneHolder'
  BY <1>1, MovesOn DEF RunSucceeds
<1>3. tries' \in [Jobs -> 0 .. MaxRetries]
  BY BoundsAssumption DEF Inv, TypeOK, RunSucceeds
<1>4. TypeOK'
  BY <1>2, <1>3 DEF Inv, TypeOK, RunSucceeds, recoveryVars
<1>5. AttemptsLeft'
  BY AttemptsUntouched DEF RunSucceeds
<1> QED
  BY <1>2, <1>4, <1>5 DEF Inv

LEMMA RunFailsKeeps ==
  ASSUME Inv, NEW j \in Jobs, RunFails(j)
  PROVE  Inv'
<1>0. AttemptsLeft'
  BY AttemptsUntouched DEF RunFails
<1>1. CASE channel[j] = "cron" /\ tries[j] < MaxRetries
  <2>1. tries[j] \in 0 .. MaxRetries /\ tries[j] < MaxRetries
    BY <1>1 DEF Inv, TypeOK
  <2>2. tries[j] + 1 \in 0 .. MaxRetries
    BY <2>1, BoundsAssumption
  <2>3. tries' \in [Jobs -> 0 .. MaxRetries]
    BY <1>1, <2>2 DEF Inv, TypeOK, RunFails
  <2>4. TypeOK'
    BY <1>1, <2>3 DEF Inv, TypeOK, RunFails, recoveryVars
  <2>5. JobKnown'
    BY <1>1 DEF Inv, JobKnown, RunFails
  <2>6. HeldWhileLive' /\ OneHolder'
    BY <1>1, LocksUntouched DEF RunFails
  <2> QED
    BY <1>0, <2>4, <2>5, <2>6 DEF Inv
<1>2. CASE ~(channel[j] = "cron" /\ tries[j] < MaxRetries)
  <2>1. AfterRun(j) \in Live /\ pc[j] \in Live
    BY DEF AfterRun, RunFails, Live
  <2>2. /\ pc' \in [Jobs -> {"new", "admitting", "refused", "done", "lost"} \cup Live]
        /\ JobKnown'
        /\ HeldWhileLive' /\ OneHolder'
    BY <1>2, <2>1, MovesOn DEF RunFails
  <2>3. tries' \in [Jobs -> 0 .. MaxRetries]
    BY <1>2, BoundsAssumption DEF Inv, TypeOK, RunFails
  <2>4. TypeOK'
    BY <1>2, <2>2, <2>3 DEF Inv, TypeOK, RunFails, recoveryVars
  <2> QED
    BY <1>0, <2>2, <2>4 DEF Inv
<1> QED
  BY <1>1, <1>2

LEMMA MarkRecordKeeps ==
  ASSUME Inv, NEW j \in Jobs, MarkRecord(j)
  PROVE  Inv'
<1>1. AfterMark(j) \in Live /\ pc[j] \in Live
  BY DEF AfterMark, MarkRecord, Live
<1>2. /\ pc' \in [Jobs -> {"new", "admitting", "refused", "done", "lost"} \cup Live]
      /\ JobKnown'
      /\ HeldWhileLive' /\ OneHolder'
  BY <1>1, MovesOn DEF MarkRecord
<1>3. Finished(j) \in Record /\ Finished(j).status # "running"
  BY BoundsAssumption DEF Finished, Record
<1>4. records' \in [Jobs -> Record]
  BY <1>3 DEF Inv, TypeOK, MarkRecord
<1>5. spent' \in [fault : 0 .. MaxFaults, edit : 0 .. MaxEdits, crash : 0 .. MaxCrashes]
  BY FaultTyped DEF Inv, TypeOK, MarkRecord
<1>6. TypeOK'
  BY <1>2, <1>4, <1>5 DEF Inv, TypeOK, MarkRecord, recoveryVars
<1>7. \A k \in Jobs : records'[k] = records[k] \/ records'[k] = Finished(j)
  BY DEF Inv, TypeOK, MarkRecord
<1>8. AttemptsLeft'
  BY <1>3, <1>7 DEF Inv, AttemptsLeft, MarkRecord, recoveryVars
<1> QED
  BY <1>2, <1>6, <1>8 DEF Inv

LEMMA SaveRowKeeps ==
  ASSUME Inv, NEW j \in Jobs, SaveRow(j)
  PROVE  Inv'
<1>1. AfterSave(j) \in Live /\ pc[j] \in Live
  BY DEF AfterSave, SaveRow, Live
<1>2. /\ pc' \in [Jobs -> {"new", "admitting", "refused", "done", "lost"} \cup Live]
      /\ JobKnown'
      /\ HeldWhileLive' /\ OneHolder'
  BY <1>1, MovesOn DEF SaveRow
<1>3. rows' \in [Autos -> Row]
  <2>1. rows \in [Autos -> Row] /\ copy[j] \in Row /\ auto[j] \in Autos
    BY DEF Inv, TypeOK, JobKnown, SaveRow
  <2>2. Advanced(j) \in Row
    BY <2>1, RowFields DEF Advanced
  <2>3. Saved(auto[j], Advanced(j)) \in [Autos -> Row]
    BY <2>1, <2>2, SavedTyped
  <2> QED
    BY <2>1, <2>3 DEF SaveRow
<1>4. spent' \in [fault : 0 .. MaxFaults, edit : 0 .. MaxEdits, crash : 0 .. MaxCrashes]
  BY FaultTyped DEF Inv, TypeOK, SaveRow
<1>5. TypeOK'
  BY <1>2, <1>3, <1>4, NoRowTyped DEF Inv, TypeOK, SaveRow, recoveryVars
<1>6. AttemptsLeft'
  BY AttemptsUntouched DEF SaveRow
<1> QED
  BY <1>2, <1>5, <1>6 DEF Inv

LEMMA LeaveKeeps ==
  ASSUME Inv, NEW j \in Jobs, Leave(j)
  PROVE  Inv'
<1>0. auto[j] \in Autos /\ channel[j] \in Channels
  BY DEF Inv, TypeOK, JobKnown, Leave
<1>1. TypeOK'
  <2>1. pc' \in [Jobs -> {"new", "admitting", "refused", "done", "lost"} \cup Live]
    BY DEF Inv, TypeOK, Leave, Goto
  <2>2. copy' \in [Jobs -> Row] /\ channel' \in [Jobs -> Channels]
    BY NoRowTyped DEF Inv, TypeOK, Leave, Channels
  <2>3. running' \in [Channels -> SUBSET Autos]
    BY <1>0 DEF Inv, TypeOK, Leave
  <2> QED
    BY <2>1, <2>2, <2>3 DEF Inv, TypeOK, Leave, recoveryVars
<1>2. JobKnown'
  BY DEF Inv, TypeOK, JobKnown, Leave, Goto
<1>3. AttemptsLeft'
  BY AttemptsUntouched DEF Leave
<1>4. /\ pc[j] \in Live /\ pc'[j] \notin Live
      /\ \A k \in Jobs : k # j => pc'[k] = pc[k] /\ channel'[k] = channel[k]
      /\ auto' = auto
  BY DEF Inv, TypeOK, Leave, Goto, Live
<1>5. \A c \in Channels : running'[c] = IF c = channel[j] THEN running[c] \ {auto[j]} ELSE running[c]
  BY <1>0 DEF Inv, TypeOK, Leave
<1>6. HeldWhileLive'
  <2> SUFFICES ASSUME NEW c \in Channels, NEW a \in Autos
               PROVE  a \in running'[c] <=>
                        \E k \in Jobs : pc'[k] \in Live /\ channel'[k] = c /\ auto'[k] = a
    BY DEF HeldWhileLive
  <2>1. a \in running[c] <=> \E k \in Jobs : pc[k] \in Live /\ channel[k] = c /\ auto[k] = a
    BY DEF Inv, HeldWhileLive
  <2>2. CASE c = channel[j] /\ a = auto[j]
    <3>1. \A k \in Jobs : pc[k] \in Live /\ channel[k] = c /\ auto[k] = a => k = j
      BY <1>4, <2>2 DEF Inv, OneHolder
    <3> QED
      BY <1>4, <1>5, <2>2, <3>1
  <2>3. CASE ~(c = channel[j] /\ a = auto[j])
    BY <1>4, <1>5, <2>1, <2>3
  <2> QED
    BY <2>2, <2>3
<1>7. OneHolder'
  BY <1>4 DEF Inv, OneHolder
<1> QED
  BY <1>1, <1>2, <1>3, <1>6, <1>7 DEF Inv

-----------------------------------------------------------------------------
(* Recovery *)

(* Recovery starts and ends no job. *)
LEMMA RecoveryLeavesJobs ==
  ASSUME Inv, UNCHANGED <<jobVars, running>>
  PROVE  JobKnown' /\ HeldWhileLive' /\ OneHolder'
<1>1. JobKnown'
  BY DEF Inv, JobKnown, jobVars
<1>2. HeldWhileLive' /\ OneHolder'
  BY LocksUntouched DEF jobVars
<1> QED
  BY <1>1, <1>2

LEMMA DealtWithTyped ==
  ASSUME Inv, NEW j \in Jobs, DealtWith(j)
  PROVE  /\ listed' \in [Jobs -> 0 .. NotListed]
         /\ \A k \in Jobs : listed'[k] # NotListed => k # j /\ listed'[k] = listed[k]
<1>1. NotListed \in 0 .. NotListed
  BY BoundsAssumption DEF NotListed
<1> QED
  BY <1>1 DEF Inv, TypeOK, DealtWith

LEMMA ListUnfinishedKeeps ==
  ASSUME Inv, ListUnfinished
  PROVE  Inv'
<1>1. JobKnown' /\ HeldWhileLive' /\ OneHolder'
  BY RecoveryLeavesJobs DEF ListUnfinished
<1>2. \A j \in Jobs : records[j].attempts \in 0 .. RecoveryMax
  BY DEF Inv, TypeOK, Record
<1>3. Unfinished \in [Jobs -> 0 .. NotListed]
  BY <1>2, BoundsAssumption DEF Unfinished, NotListed
<1>4. spent' \in [fault : 0 .. MaxFaults, edit : 0 .. MaxEdits, crash : 0 .. MaxCrashes]
  BY FaultTyped DEF Inv, TypeOK, ListUnfinished
<1>5. TypeOK'
  BY <1>3, <1>4 DEF Inv, TypeOK, ListUnfinished, jobVars
<1>6. \A j \in Jobs : Unfinished[j] # NotListed => Unfinished[j] < RecoveryMax
  BY DEF Inv, AttemptsLeft, Unfinished
<1>7. AttemptsLeft'
  BY <1>6 DEF Inv, AttemptsLeft, ListUnfinished
<1> QED
  BY <1>1, <1>5, <1>7 DEF Inv

LEMMA AbandonKeeps ==
  ASSUME Inv, NEW j \in Jobs, Abandon(j)
  PROVE  Inv'
<1>1. JobKnown' /\ HeldWhileLive' /\ OneHolder'
  BY RecoveryLeavesJobs DEF Abandon
<1>2. /\ listed' \in [Jobs -> 0 .. NotListed]
      /\ \A k \in Jobs : listed'[k] # NotListed => k # j /\ listed'[k] = listed[k]
  BY DealtWithTyped DEF Abandon
<1>3. listed[j] \in 0 .. RecoveryMax
  BY BoundsAssumption DEF Inv, TypeOK, Abandon, NotListed
<1>4. [status |-> "failed", attempts |-> listed[j]] \in Record
  BY <1>3 DEF Record
<1>5. records' \in [Jobs -> Record]
  BY <1>4 DEF Inv, TypeOK, Abandon, GiveUp
<1>6. spent' \in [fault : 0 .. MaxFaults, edit : 0 .. MaxEdits, crash : 0 .. MaxCrashes]
  BY FaultTyped DEF Inv, TypeOK, Abandon
<1>7. TypeOK'
  BY <1>2, <1>5, <1>6 DEF Inv, TypeOK, Abandon, jobVars
<1>8. \A k \in Jobs : records'[k] = records[k] \/ records'[k].status = "failed"
  BY DEF Inv, TypeOK, Abandon, GiveUp
<1>9. AttemptsLeft'
  BY <1>2, <1>8 DEF Inv, AttemptsLeft, Abandon
<1> QED
  BY <1>1, <1>7, <1>9 DEF Inv

LEMMA ResumeKeeps ==
  ASSUME Inv, NEW j \in Jobs, Resume(j)
  PROVE  Inv'
<1>1. JobKnown' /\ HeldWhileLive' /\ OneHolder'
  BY RecoveryLeavesJobs DEF Resume
<1>2. TypeOK'
  BY DEF Inv, TypeOK, Resume, jobVars
<1>3. AttemptsLeft'
  BY DEF Inv, AttemptsLeft, Resume
<1> QED
  BY <1>1, <1>2, <1>3 DEF Inv

LEMMA RetriedIsRecord ==
  ASSUME NEW n \in Nat, n < RecoveryMax
  PROVE  /\ Retried(n) \in Record
         /\ Retried(n).attempts = n + 1
         /\ Retried(n).status \in {"running", "failed"}
         /\ Retried(n).status = "running" => n + 1 < RecoveryMax
BY BoundsAssumption DEF Retried, Record

LEMMA ResumeEndsKeeps ==
  ASSUME Inv, NEW j \in Jobs, ResumeEnds(j)
  PROVE  Inv'
<1>1. JobKnown' /\ HeldWhileLive' /\ OneHolder'
  BY RecoveryLeavesJobs DEF ResumeEnds
<1>2. /\ listed' \in [Jobs -> 0 .. NotListed]
      /\ \A k \in Jobs : listed'[k] # NotListed => k # j /\ listed'[k] = listed[k]
  BY DealtWithTyped DEF ResumeEnds
<1>3. listed[j] \in Nat /\ listed[j] < RecoveryMax
  BY BoundsAssumption DEF Inv, TypeOK, AttemptsLeft, ResumeEnds, NotListed
<1>4. PICK record \in {[status |-> "done", attempts |-> listed[j]], Retried(listed[j])} :
        \/ records' = [records EXCEPT ![j] = record] /\ UNCHANGED spent
        \/ Fault /\ UNCHANGED records
  BY DEF ResumeEnds
<1>5. [status |-> "done", attempts |-> listed[j]] \in Record
  BY <1>3, BoundsAssumption DEF Record
<1>6. record \in Record /\ (record.status = "running" => record.attempts < RecoveryMax)
  BY <1>3, <1>4, <1>5, RetriedIsRecord
<1>7. records' \in [Jobs -> Record]
  BY <1>4, <1>6 DEF Inv, TypeOK
<1>8. spent' \in [fault : 0 .. MaxFaults, edit : 0 .. MaxEdits, crash : 0 .. MaxCrashes]
  BY <1>4, FaultTyped DEF Inv, TypeOK
<1>9. resumed' \in [Jobs -> Nat] /\ spoiled' \in [Jobs -> Nat] /\ missed' \subseteq Jobs
  BY DEF Inv, TypeOK, ResumeEnds
<1>10. TypeOK'
  BY <1>2, <1>7, <1>8, <1>9 DEF Inv, TypeOK, ResumeEnds, jobVars
<1>11. \A k \in Jobs : records'[k] = records[k] \/ records'[k] = record
  BY <1>4 DEF Inv, TypeOK
<1>12. AttemptsLeft'
  BY <1>2, <1>6, <1>11 DEF Inv, AttemptsLeft, ResumeEnds
<1> QED
  BY <1>1, <1>10, <1>12 DEF Inv

LEMMA EndRecoveryKeeps ==
  ASSUME Inv, EndRecovery
  PROVE  Inv'
<1>1. JobKnown' /\ HeldWhileLive' /\ OneHolder'
  BY RecoveryLeavesJobs DEF EndRecovery
<1>2. TypeOK'
  BY DEF Inv, TypeOK, EndRecovery, jobVars
<1>3. AttemptsLeft'
  BY DEF Inv, AttemptsLeft, EndRecovery
<1> QED
  BY <1>1, <1>2, <1>3 DEF Inv

LEMMA CrashKeeps ==
  ASSUME Inv, Crash
  PROVE  Inv'
<1>1. spent' \in [fault : 0 .. MaxFaults, edit : 0 .. MaxEdits, crash : 0 .. MaxCrashes]
  <2>1. spent.crash + 1 \in 0 .. MaxCrashes
    BY BoundsAssumption DEF Inv, TypeOK, Crash
  <2> QED
    BY <2>1 DEF Inv, TypeOK, Crash
<1>2. \A j \in Jobs : pc'[j] = (IF pc[j] \in Live \cup {"admitting"} THEN "lost" ELSE pc[j])
  BY DEF Crash
<1>3. pc' \in [Jobs -> {"new", "admitting", "refused", "done", "lost"} \cup Live]
  BY DEF Inv, TypeOK, Crash
<1>4. \A j \in Jobs : pc'[j] \notin Live /\ pc'[j] # "admitting"
  BY <1>2 DEF Live
<1>5. /\ copy' \in [Jobs -> Row] /\ channel' \in [Jobs -> Channels]
      /\ tries' \in [Jobs -> 0 .. MaxRetries]
      /\ outcome' \in [Jobs -> {"none", "ok", "failed"}]
  BY NoRowTyped, BoundsAssumption DEF Crash, Channels
<1>6. list' \in [Scans -> [Autos -> Row]] /\ edit' \in [auto : Autos \cup {NoAuto}, row : Row]
  BY NoRowTyped DEF Crash, NothingListed, NoEdit
<1>7. running' = [c \in Channels |-> {}] /\ running' \in [Channels -> SUBSET Autos]
  BY DEF Crash, NoneRunning
<1>8. listed' = [j \in Jobs |-> NotListed] /\ listed' \in [Jobs -> 0 .. NotListed]
  BY BoundsAssumption DEF Crash, NoneInterrupted, NotListed
<1>9. TypeOK'
  <2>1. spoiled' \in [Jobs -> Nat]
    BY DEF Inv, TypeOK, Crash
  <2> QED
    BY <1>1, <1>3, <1>5, <1>6, <1>7, <1>8, <2>1 DEF Inv, TypeOK, Crash
<1>10. JobKnown'
  <2>1. \A j \in Jobs : pc'[j] # "new" => pc[j] # "new"
    BY <1>2 DEF Live
  <2>2. auto' = auto
    BY DEF Crash
  <2> QED
    BY <1>4, <2>1, <2>2 DEF Inv, JobKnown
<1>11. AttemptsLeft'
  BY <1>8 DEF Inv, AttemptsLeft, Crash
<1>12. HeldWhileLive' /\ OneHolder'
  BY <1>4, <1>7 DEF HeldWhileLive, OneHolder
<1> QED
  BY <1>9, <1>10, <1>11, <1>12 DEF Inv

-----------------------------------------------------------------------------
(* The inductive invariant *)

LEMMA InitInv == Init => Inv
<1> SUFFICES ASSUME Init PROVE Inv
  OBVIOUS
<1>1. TypeOK
  <2>1. [status |-> "absent", attempts |-> 0] \in Record
    BY BoundsAssumption DEF Record
  <2>2. listed \in [Jobs -> 0 .. NotListed]
    BY BoundsAssumption DEF Init, NoneInterrupted, NotListed
  <2>3. list \in [Scans -> [Autos -> Row]] /\ edit \in [auto : Autos \cup {NoAuto}, row : Row]
    BY NoRowTyped DEF Init, NothingListed, NoEdit
  <2>4. spent \in [fault : 0 .. MaxFaults, edit : 0 .. MaxEdits, crash : 0 .. MaxCrashes]
    BY BoundsAssumption DEF Init
  <2>5. tries \in [Jobs -> 0 .. MaxRetries] /\ resumed \in [Jobs -> Nat]
        /\ spoiled \in [Jobs -> Nat] /\ missed \subseteq Jobs
    BY BoundsAssumption DEF Init
  <2> QED
    BY <2>1, <2>2, <2>3, <2>4, <2>5, NoRowTyped DEF Init, TypeOK, NoneRunning, Channels
<1>2. JobKnown /\ AttemptsLeft /\ HeldWhileLive /\ OneHolder
  BY DEF Init, JobKnown, AttemptsLeft, HeldWhileLive, OneHolder, Live, NoneInterrupted, NoneRunning
<1> QED
  BY <1>1, <1>2 DEF Inv

LEMMA NextInv == Inv /\ [Next]_vars => Inv'
<1> SUFFICES ASSUME Inv, [Next]_vars PROVE Inv'
  OBVIOUS
<1>1. ASSUME NEW a \in Autos, Create(a) \/ ReadForEdit(a) \/ SaveEdit(a) \/ Delete(a) PROVE Inv'
  BY <1>1, CreateKeeps, ReadForEditKeeps, SaveEditKeeps, DeleteKeeps
<1>2. ASSUME NEW s \in Scans, ScanStep(s) PROVE Inv'
  BY <1>2, ListCronKeeps, ArmKeeps, SkipKeeps, FireKeeps DEF ScanStep
<1>3. ASSUME NEW j \in Jobs, NEW a \in Autos, Call(j, a) PROVE Inv'
  BY <1>3, CallKeeps
<1>4. ASSUME NEW j \in Jobs, JobStep(j) PROVE Inv'
  BY <1>4, RefuseKeeps, AdmitKeeps, OpenKeeps, RunSucceedsKeeps, RunFailsKeeps,
     MarkRecordKeeps, SaveRowKeeps, LeaveKeeps DEF JobStep
<1>5. CASE RecoveryStep
  BY <1>5, ListUnfinishedKeeps, EndRecoveryKeeps, AbandonKeeps, ResumeKeeps, ResumeEndsKeeps
     DEF RecoveryStep
<1>6. ASSUME NEW a \in Autos, Clock(a) PROVE Inv'
  BY <1>6, ClockKeeps
<1>7. CASE Crash
  BY <1>7, CrashKeeps
<1>8. CASE UNCHANGED vars
  BY <1>8 DEF Inv, TypeOK, JobKnown, AttemptsLeft, HeldWhileLive, OneHolder, vars, jobVars, recoveryVars
<1> QED
  BY <1>1, <1>2, <1>3, <1>4, <1>5, <1>6, <1>7, <1>8 DEF Next, UserStep

LEMMA Invariance == Spec => []Inv
BY InitInv, NextInv, PTL DEF Spec

(* Every variable keeps its type: in particular the attempts counter of a  *)
(* run record never passes RecoveryMax (recovery.go:76-89).                *)
THEOREM AutomationTyped == Spec => []TypeOK
BY Invariance, PTL DEF Inv

(* However many ticks overlap and whatever fails, each running map holds   *)
(* exactly the automations under way, once each (scheduler.go:141, 158,    *)
(* webhook.go:141, 149, 184).                                              *)
THEOREM LocksExact == Spec => []LockExact
<1>1. Inv => LockExact
  <2> SUFFICES ASSUME Inv, NEW c \in Channels
               PROVE  /\ running[c] = {auto[j] : j \in {k \in Jobs : pc[k] \in Live /\ channel[k] = c}}
                      /\ \A j, k \in Jobs :
                           /\ {pc[j], pc[k]} \subseteq Live
                           /\ channel[j] = c /\ channel[k] = c
                           /\ auto[j] = auto[k]
                           => j = k
    BY DEF LockExact
  <2>1. ASSUME NEW a \in running[c]
        PROVE  a \in {auto[j] : j \in {k \in Jobs : pc[k] \in Live /\ channel[k] = c}}
    BY <2>1 DEF Inv, TypeOK, HeldWhileLive
  <2>2. ASSUME NEW j \in Jobs, pc[j] \in Live, channel[j] = c
        PROVE  auto[j] \in running[c]
    <3>1. auto[j] \in Autos
      BY <2>2 DEF Inv, JobKnown, Live
    <3> QED
      BY <2>2, <3>1 DEF Inv, HeldWhileLive
  <2>3. running[c] = {auto[j] : j \in {k \in Jobs : pc[k] \in Live /\ channel[k] = c}}
    BY <2>1, <2>2
  <2> QED
    BY <2>3 DEF Inv, OneHolder
<1> QED
  BY <1>1, Invariance, PTL
-----------------------------------------------------------------------------
(* What recovery does with the records *)

(* Until its record is opened a job has none. *)
Early == {"new", "admitting", "refused", "opening"}
RecordsLate == \A j \in Jobs : pc[j] \in Early => records[j].status = "absent"

(* A resume shows in the attempts of a record that may be resumed again,   *)
(* unless it is under way or was spoiled.                                  *)
Owed(j) == IF current = j THEN 1 ELSE 0

Counted(j) ==
  /\ records[j].status = "absent" => listed[j] = NotListed /\ resumed[j] = 0
  /\ records[j].status = "running" => resumed[j] <= records[j].attempts + spoiled[j] + Owed(j)
  /\ listed[j] # NotListed => resumed[j] <= listed[j] + spoiled[j] + Owed(j)
  /\ resumed[j] <= RecoveryMax + spoiled[j]

ResumesCounted == \A j \in Jobs : Counted(j)

(* Nobody but recovery writes the record of a job that was lost.           *)
ListedLives ==
  \A j \in Jobs : pc[j] = "lost" /\ listed[j] # NotListed => records[j].status = "running"

(* An interrupted run is on the list of the recovery under way, or of the  *)
(* one to come, until it has been tried or a statement about it has failed.*)
Pending(j) ==
  \/ recovery = "starting"
  \/ recovery \in {"scanning", "resuming"} /\ listed[j] # NotListed

Untried(j) ==
  pc[j] = "lost" /\ records[j].status = "running" /\ records[j].attempts = 0

UntriedPending == \A j \in Jobs \ missed : Untried(j) => Pending(j)

RecoveryInv == RecordsLate /\ ResumesCounted /\ ListedLives /\ UntriedPending

LEMMA CountersNat ==
  ASSUME Inv
  PROVE  /\ \A j \in Jobs : /\ resumed[j] \in Nat /\ spoiled[j] \in Nat /\ listed[j] \in Nat
                            /\ records[j].attempts \in Nat /\ Owed(j) \in {0, 1}
                            /\ records[j] \in Record
         /\ RecoveryMax \in Nat \ {0}
BY BoundsAssumption DEF Inv, TypeOK, Record, NotListed, Owed

(* Nothing is resumed but while recovery is at it. *)
LEMMA NothingOwed ==
  ASSUME Inv, recovery # "resuming", NEW j \in Jobs
  PROVE  Owed(j) = 0
BY IdsAssumption DEF Inv, AttemptsLeft, Owed

(* A step outside the records and the recovery. *)
LEMMA Elsewhere ==
  ASSUME Inv, RecoveryInv, UNCHANGED <<records, recoveryVars>>,
         \A j \in Jobs : /\ pc'[j] = "lost" <=> pc[j] = "lost"
                         /\ pc'[j] \in Early => pc[j] \in Early
  PROVE  RecoveryInv'
<1>1. UNCHANGED <<records, recovery, listed, current, resumed, spoiled, missed>>
  BY DEF recoveryVars
<1>2. RecordsLate'
  BY <1>1 DEF RecoveryInv, RecordsLate
<1>3. ResumesCounted'
  BY <1>1 DEF RecoveryInv, ResumesCounted, Counted, Owed
<1>4. ListedLives'
  BY <1>1 DEF RecoveryInv, ListedLives
<1>5. UntriedPending'
  BY <1>1 DEF RecoveryInv, UntriedPending, Untried, Pending
<1> QED
  BY <1>2, <1>3, <1>4, <1>5 DEF RecoveryInv

(* The user, the scan and the webhook call. *)
LEMMA OutsideKeepsRecovery ==
  ASSUME Inv, RecoveryInv,
         \/ \E a \in Autos : Create(a) \/ ReadForEdit(a) \/ SaveEdit(a) \/ Delete(a) \/ Clock(a)
         \/ \E s \in Scans : ScanStep(s)
         \/ \E j \in Jobs, a \in Autos : Call(j, a)
         \/ UNCHANGED vars
  PROVE  RecoveryInv'
<1>1. UNCHANGED <<records, recoveryVars>>
  BY DEF Create, ReadForEdit, SaveEdit, Delete, Clock, ScanStep, ListCron, Arm, Skip, Fire,
         Call, vars
<1>2. \/ pc' = pc
      \/ \E j \in Jobs, p \in {"opening", "admitting"} : pc[j] = "new" /\ Goto(j, p)
  BY DEF Create, ReadForEdit, SaveEdit, Delete, Clock, ScanStep, ListCron, Arm, Skip, Fire,
         Call, Fresh, vars, jobVars
<1>3. \A j \in Jobs : /\ pc'[j] = "lost" <=> pc[j] = "lost"
                      /\ pc'[j] \in Early => pc[j] \in Early
  BY <1>2 DEF Inv, TypeOK, Goto, Early
<1> QED
  BY <1>1, <1>3, Elsewhere

(* A job that does not write its record. *)
LEMMA JobKeepsRecovery ==
  ASSUME Inv, RecoveryInv, NEW j \in Jobs,
         \/ Refuse(j) \/ Admit(j) \/ RunSucceeds(j) \/ RunFails(j) \/ SaveRow(j) \/ Leave(j)
  PROVE  RecoveryInv'
<1>1. UNCHANGED <<records, recoveryVars>>
  BY DEF Refuse, Admit, RunSucceeds, RunFails, SaveRow, Leave
<1>2. \/ pc' = pc
      \/ pc[j] # "lost" /\ \E p \in {"marking", "saving", "leaving", "done"} : Goto(j, p)
      \/ pc[j] = "admitting" /\ \E p \in {"opening", "refused"} : Goto(j, p)
  BY DEF Refuse, Admit, RunSucceeds, RunFails, SaveRow, Leave, AfterRun, AfterSave
<1>3. \A k \in Jobs : /\ pc'[k] = "lost" <=> pc[k] = "lost"
                      /\ pc'[k] \in Early => pc[k] \in Early
  BY <1>2 DEF Inv, TypeOK, Goto, Early
<1> QED
  BY <1>1, <1>3, Elsewhere

(* A job writes its own record: it is not lost, and the record it leaves   *)
(* running is new.                                                         *)
LEMMA RecordKeepsRecovery ==
  ASSUME Inv, RecoveryInv, NEW j \in Jobs, Open(j) \/ MarkRecord(j)
  PROVE  RecoveryInv'
<1>1. /\ UNCHANGED <<recovery, listed, current, resumed, spoiled, missed>>
      /\ pc[j] \in {"opening", "marking"}
      /\ pc'[j] \in {"executing", "saving", "leaving"}
      /\ \A k \in Jobs \ {j} : pc'[k] = pc[k]
  BY DEF Open, MarkRecord, recoveryVars, Goto, AfterMark, Inv, TypeOK
<1>2. /\ \A k \in Jobs \ {j} : records'[k] = records[k]
      /\ \/ records'[j] = records[j]
         \/ records[j].status = "absent" /\ records'[j] = [status |-> "running", attempts |-> 0]
         \/ records'[j].status \in {"done", "failed"}
  <2>1. CASE Open(j)
    BY <2>1 DEF Open, Inv, TypeOK, RecoveryInv, RecordsLate, Early
  <2>2. CASE MarkRecord(j)
    BY <2>2 DEF MarkRecord, Inv, TypeOK, Finished
  <2> QED
    BY <2>1, <2>2
<1>3. RecordsLate'
  BY <1>1, <1>2 DEF RecoveryInv, RecordsLate, Early
<1>4. ResumesCounted'
  <2> SUFFICES ASSUME NEW k \in Jobs PROVE Counted(k)'
    BY DEF ResumesCounted
  <2>1. Counted(k)
    BY DEF RecoveryInv, ResumesCounted
  <2>2. Owed(k)' = Owed(k)
    BY <1>1 DEF Owed
  <2> QED
    BY <1>1, <1>2, <2>1, <2>2, CountersNat DEF Counted
<1>5. ListedLives'
  BY <1>1, <1>2 DEF RecoveryInv, ListedLives
<1>6. UntriedPending'
  BY <1>1, <1>2 DEF RecoveryInv, UntriedPending, Untried, Pending
<1> QED
  BY <1>3, <1>4, <1>5, <1>6 DEF RecoveryInv

LEMMA ListKeepsRecovery ==
  ASSUME Inv, RecoveryInv, ListUnfinished
  PROVE  RecoveryInv'
<1>1. /\ UNCHANGED <<records, pc, current, resumed, spoiled>> /\ recovery = "starting"
      /\ \/ listed' = Unfinished /\ recovery' = "scanning" /\ missed' = missed
         \/ recovery' = "idle" /\ listed' = listed /\ missed' = Jobs
  BY DEF ListUnfinished, jobVars
<1>2. \A j \in Jobs : IF records[j].status = "running"
                        THEN Unfinished[j] = records[j].attempts
                        ELSE Unfinished[j] = NotListed
  BY DEF Unfinished
<1>3. \A j \in Jobs : listed'[j] = Unfinished[j] \/ listed'[j] = listed[j]
  BY <1>1
<1>4. RecordsLate'
  BY <1>1 DEF RecoveryInv, RecordsLate
<1>5. ResumesCounted'
  <2> SUFFICES ASSUME NEW k \in Jobs PROVE Counted(k)'
    BY DEF ResumesCounted
  <2>1. Counted(k)
    BY DEF RecoveryInv, ResumesCounted
  <2>2. Owed(k)' = Owed(k)
    BY <1>1 DEF Owed
  <2> QED
    BY <1>1, <1>2, <1>3, <2>1, <2>2 DEF Counted
<1>6. ListedLives'
  BY <1>1, <1>2, <1>3 DEF RecoveryInv, ListedLives
<1>7. UntriedPending'
  <2> SUFFICES ASSUME NEW j \in Jobs, j \notin missed', Untried(j)' PROVE Pending(j)'
    BY DEF UntriedPending
  <2>1. listed' = Unfinished /\ recovery' = "scanning"
    BY <1>1
  <2>2. listed'[j] = 0 /\ NotListed # 0
    BY <1>1, <1>2, <2>1, CountersNat DEF Untried, NotListed
  <2> QED
    BY <2>1, <2>2 DEF Pending
<1> QED
  BY <1>4, <1>5, <1>6, <1>7 DEF RecoveryInv

(* What dealing with a record does to the others: nothing. *)
LEMMA DealingTouches ==
  ASSUME Inv, NEW j \in Jobs, Abandon(j) \/ ResumeEnds(j)
  PROVE  /\ pc' = pc /\ UNCHANGED resumed
         /\ listed[j] # NotListed /\ listed[j] \in Nat /\ listed[j] < RecoveryMax
         /\ recovery \in {"scanning", "resuming"} /\ recovery' = "scanning"
         /\ listed'[j] = NotListed /\ current' = NoJob
         /\ \A k \in Jobs \ {j} : /\ listed'[k] = listed[k] /\ spoiled'[k] = spoiled[k]
                                  /\ records'[k] = records[k] /\ current # k
                                  /\ k \notin missed' => k \notin missed
<1>1. /\ pc' = pc /\ UNCHANGED resumed /\ listed[j] # NotListed
      /\ recovery \in {"scanning", "resuming"} /\ recovery' = "scanning"
  BY DEF Abandon, ResumeEnds, jobVars, Inv, AttemptsLeft
<1>2. /\ listed'[j] = NotListed /\ \A k \in Jobs \ {j} : listed'[k] = listed[k]
      /\ listed[j] \in Nat /\ listed[j] < RecoveryMax
  BY <1>1, CountersNat DEF Abandon, ResumeEnds, DealtWith, Inv, TypeOK, AttemptsLeft
<1>3. current' = NoJob /\ \A k \in Jobs \ {j} : current # k
  BY IdsAssumption DEF Abandon, ResumeEnds, Inv, AttemptsLeft
<1>4. \A k \in Jobs \ {j} : /\ spoiled'[k] = spoiled[k] /\ records'[k] = records[k]
                            /\ k \notin missed' => k \notin missed
  BY DEF Abandon, GiveUp, ResumeEnds, Inv, TypeOK
<1> QED
  BY <1>1, <1>2, <1>3, <1>4

(* A resume that ends, or a run given up: the attempt is counted, unless   *)
(* the statement that records it fails.                                    *)
LEMMA DealingKeepsRecovery ==
  ASSUME Inv, RecoveryInv, NEW j \in Jobs, Abandon(j) \/ ResumeEnds(j)
  PROVE  RecoveryInv'
<1>1. Counted(j) /\ records[j].status # "absent"
  BY DealingTouches DEF RecoveryInv, ResumesCounted, Counted
<1>2. /\ Owed(j)' = 0
      /\ \A k \in Jobs \ {j} : Owed(k) = 0 /\ Owed(k)' = 0
  BY DealingTouches, IdsAssumption DEF Owed
<1>3. \/ /\ spoiled'[j] = spoiled[j]
         /\ \/ records'[j].status \in {"done", "failed"}
            \/ /\ records'[j].status = "running" /\ records'[j].attempts = listed[j] + 1
      \/ /\ records'[j] = records[j] /\ j \in missed'
         /\ \/ spoiled'[j] = spoiled[j] + 1
            \/ spoiled'[j] = spoiled[j] /\ Owed(j) = 0
  <2>1. CASE Abandon(j)
    <3>1. Owed(j) = 0
      BY <2>1, NothingOwed DEF Abandon
    <3>2. spoiled' = spoiled
      BY <2>1 DEF Abandon
    <3>3. records'[j].status = "failed" \/ (records' = records /\ j \in missed')
      BY <2>1 DEF Abandon, GiveUp, Inv, TypeOK
    <3> QED
      BY <3>1, <3>2, <3>3
  <2>2. CASE ResumeEnds(j)
    <3>1. PICK record \in {[status |-> "done", attempts |-> listed[j]], Retried(listed[j])} :
            \/ records' = [records EXCEPT ![j] = record] /\ spoiled' = spoiled
            \/ /\ spoiled' = [spoiled EXCEPT ![j] = @ + 1] /\ missed' = missed \cup {j}
               /\ UNCHANGED records
      BY <2>2 DEF ResumeEnds
    <3>2. \/ record.status \in {"done", "failed"}
          \/ record.status = "running" /\ record.attempts = listed[j] + 1
      BY DealingTouches, RetriedIsRecord
    <3> QED
      BY <3>1, <3>2 DEF Inv, TypeOK
  <2> QED
    BY <2>1, <2>2
<1>4. RecordsLate'
  BY <1>1, DealingTouches DEF RecoveryInv, RecordsLate
<1>5. Counted(j)'
  <2>1. /\ resumed'[j] = resumed[j] /\ resumed[j] \in Nat /\ spoiled[j] \in Nat
        /\ listed[j] \in Nat /\ records[j].attempts \in Nat /\ Owed(j) \in {0, 1}
        /\ listed[j] # NotListed /\ listed'[j] = NotListed /\ RecoveryMax \in Nat
    BY DealingTouches, CountersNat
  <2>2. /\ resumed[j] <= listed[j] + spoiled[j] + Owed(j)
        /\ resumed[j] <= RecoveryMax + spoiled[j]
        /\ records[j].status = "running" => resumed[j] <= records[j].attempts + spoiled[j] + Owed(j)
    BY <1>1, <2>1 DEF Counted
  <2>3. CASE /\ spoiled'[j] = spoiled[j]
             /\ \/ records'[j].status \in {"done", "failed"}
                \/ /\ records'[j].status = "running" /\ records'[j].attempts = listed[j] + 1
    BY <1>2, <2>1, <2>2, <2>3 DEF Counted
  <2>4. CASE /\ records'[j] = records[j]
             /\ \/ spoiled'[j] = spoiled[j] + 1
                \/ spoiled'[j] = spoiled[j] /\ Owed(j) = 0
    BY <1>1, <1>2, <2>1, <2>2, <2>4 DEF Counted
  <2> QED
    BY <1>3, <2>3, <2>4
<1>6. ResumesCounted'
  <2> SUFFICES ASSUME NEW k \in Jobs, k # j PROVE Counted(k)'
    BY <1>5 DEF ResumesCounted
  <2>1. Counted(k) /\ Owed(k)' = Owed(k)
    BY <1>2 DEF RecoveryInv, ResumesCounted
  <2> QED
    BY <2>1, DealingTouches DEF Counted
<1>7. ListedLives'
  BY DealingTouches DEF RecoveryInv, ListedLives
<1>8. UntriedPending'
  <2> SUFFICES ASSUME NEW k \in Jobs, k \notin missed', Untried(k)' PROVE Pending(k)'
    BY DEF UntriedPending
  <2>1. k # j
    BY <1>3, DealingTouches DEF Untried
  <2>2. Untried(k) /\ k \notin missed
    BY <2>1, DealingTouches DEF Untried
  <2>3. Pending(k)
    BY <2>2 DEF RecoveryInv, UntriedPending
  <2> QED
    BY <2>1, <2>3, DealingTouches DEF Pending
<1> QED
  BY <1>4, <1>6, <1>7, <1>8 DEF RecoveryInv

(* A resume begins: it is owed until it ends. *)
LEMMA ResumeKeepsRecovery ==
  ASSUME Inv, RecoveryInv, NEW j \in Jobs, Resume(j)
  PROVE  RecoveryInv'
<1>1. /\ UNCHANGED <<records, pc, listed, spoiled, missed>>
      /\ recovery = "scanning" /\ recovery' = "resuming" /\ current' = j
      /\ listed[j] # NotListed
  BY DEF Resume, jobVars
<1>2. resumed'[j] = resumed[j] + 1 /\ \A k \in Jobs \ {j} : resumed'[k] = resumed[k]
  BY DEF Resume, Inv, TypeOK
<1>3. \A k \in Jobs : Owed(k) = 0 /\ Owed(k)' = IF k = j THEN 1 ELSE 0
  BY <1>1, NothingOwed DEF Owed
<1>4. RecordsLate' /\ ListedLives'
  BY <1>1 DEF RecoveryInv, RecordsLate, ListedLives
<1>5. ResumesCounted'
  <2> SUFFICES ASSUME NEW k \in Jobs PROVE Counted(k)'
    BY DEF ResumesCounted
  <2>1. Counted(k)
    BY DEF RecoveryInv, ResumesCounted
  <2>2. CASE k = j
    <3>1. listed[j] < RecoveryMax
      BY <1>1 DEF Inv, AttemptsLeft
    <3> QED
      BY <1>1, <1>2, <1>3, <2>1, <2>2, <3>1, CountersNat DEF Counted
  <2>3. CASE k # j
    BY <1>1, <1>2, <1>3, <2>1, <2>3, CountersNat DEF Counted
  <2> QED
    BY <2>2, <2>3
<1>6. UntriedPending'
  BY <1>1 DEF RecoveryInv, UntriedPending, Untried, Pending
<1> QED
  BY <1>4, <1>5, <1>6 DEF RecoveryInv

LEMMA EndKeepsRecovery ==
  ASSUME Inv, RecoveryInv, EndRecovery
  PROVE  RecoveryInv'
<1>1. UNCHANGED <<records, pc, listed, current, resumed, spoiled, missed>>
  BY DEF EndRecovery, jobVars
<1>2. RecordsLate' /\ ResumesCounted' /\ ListedLives'
  BY <1>1 DEF RecoveryInv, RecordsLate, ResumesCounted, Counted, Owed, ListedLives
<1>3. \A j \in Jobs : ~Pending(j)
  BY DEF EndRecovery, Pending, NoneInterrupted
<1>4. UntriedPending'
  BY <1>1, <1>3 DEF RecoveryInv, UntriedPending, Untried
<1> QED
  BY <1>2, <1>4 DEF RecoveryInv

(* A resume the process did not survive is spoiled. *)
LEMMA CrashKeepsRecovery ==
  ASSUME Inv, RecoveryInv, Crash
  PROVE  RecoveryInv'
<1>1. /\ UNCHANGED <<records, resumed>> /\ recovery' = "starting" /\ current' = NoJob
      /\ \A j \in Jobs : listed'[j] = NotListed
      /\ \A j \in Jobs : spoiled'[j] = IF j = current THEN spoiled[j] + 1 ELSE spoiled[j]
  BY DEF Crash, NoneInterrupted
<1>2. \A j \in Jobs : pc'[j] \in Early => pc[j] \in Early
  BY DEF Crash, Early
<1>3. RecordsLate'
  BY <1>1, <1>2 DEF RecoveryInv, RecordsLate
<1>4. ResumesCounted'
  <2> SUFFICES ASSUME NEW k \in Jobs PROVE Counted(k)'
    BY DEF ResumesCounted
  <2>1. Counted(k)
    BY DEF RecoveryInv, ResumesCounted
  <2>2. Owed(k)' = 0 /\ spoiled'[k] = spoiled[k] + Owed(k)
    BY <1>1, IdsAssumption, CountersNat DEF Owed
  <2> QED
    BY <1>1, <2>1, <2>2, CountersNat DEF Counted
<1>5. ListedLives' /\ UntriedPending'
  BY <1>1 DEF ListedLives, UntriedPending, Pending
<1> QED
  BY <1>3, <1>4, <1>5 DEF RecoveryInv

LEMMA NextKeepsRecovery == Inv /\ RecoveryInv /\ [Next]_vars => RecoveryInv'
<1> SUFFICES ASSUME Inv, RecoveryInv, [Next]_vars PROVE RecoveryInv'
  OBVIOUS
<1>1. ASSUME NEW j \in Jobs, JobStep(j) PROVE RecoveryInv'
  BY <1>1, JobKeepsRecovery, RecordKeepsRecovery DEF JobStep
<1>2. CASE RecoveryStep
  BY <1>2, ListKeepsRecovery, DealingKeepsRecovery, ResumeKeepsRecovery, EndKeepsRecovery
     DEF RecoveryStep
<1> QED
  BY <1>1, <1>2, OutsideKeepsRecovery, CrashKeepsRecovery DEF Next, UserStep

LEMMA RecoveryHolds == Spec => []RecoveryInv
<1>1. Init => RecoveryInv
  BY BoundsAssumption DEF Init, RecoveryInv, RecordsLate, ResumesCounted, Counted, Owed, ListedLives,
     UntriedPending, Untried, NoneInterrupted, Early
<1> QED
  BY <1>1, NextKeepsRecovery, Invariance, PTL DEF Spec

(* Over any number of restarts, and whatever else runs on the same record, *)
(* a run is started again RecoveryMax times at most, plus once for every   *)
(* resume of it that a crash cut off, or whose end could not be stored     *)
(* (recovery.go:18-20, 76-89).                                             *)
THEOREM ResumesBounded == Spec => []ResumeBudget
<1>1. RecoveryInv => ResumeBudget
  BY DEF RecoveryInv, ResumesCounted, Counted, ResumeBudget
<1> QED
  BY <1>1, RecoveryHolds, PTL

(* A recovery that is over has left no interrupted run untried but those   *)
(* about which one of its own statements failed: each was resumed or given *)
(* up, also when the process died within earlier recoveries                *)
(* (recovery.go:64-95).                                                    *)
THEOREM InterruptedTried == Spec => []InterruptedRunIsTried
<1>1. Inv /\ RecoveryInv => InterruptedRunIsTried
  BY CountersNat DEF RecoveryInv, UntriedPending, Untried, Pending, InterruptedRunIsTried
<1> QED
  BY <1>1, Invariance, RecoveryHolds, PTL

(* Once recovery has settled a run that a crash cut off, nothing writes    *)
(* its record again: no later recovery, and not the job, which is gone.    *)
THEOREM RecordsFinal == Spec => RecordFinal
<1>1. Inv /\ RecoveryInv /\ [Next]_vars =>
        [\A j \in Jobs :
           /\ pc[j] = "lost"
           /\ records[j].status \in {"done", "failed"}
           => records'[j] = records[j]]_vars
  <2> SUFFICES ASSUME Inv, RecoveryInv, [Next]_vars, NEW j \in Jobs,
                      pc[j] = "lost", records[j].status \in {"done", "failed"}
               PROVE  records'[j] = records[j]
    OBVIOUS
  <2>1. listed[j] = NotListed
    BY DEF RecoveryInv, ListedLives
  <2>2. ASSUME NEW k \in Jobs, Open(k) \/ MarkRecord(k) PROVE records'[j] = records[j]
    BY <2>2 DEF Open, MarkRecord, Inv, TypeOK
  <2>3. ASSUME NEW k \in Jobs, Abandon(k) \/ ResumeEnds(k) PROVE records'[j] = records[j]
    <3>1. k # j
      BY <2>1, <2>3 DEF Abandon, ResumeEnds, Inv, AttemptsLeft
    <3> QED
      BY <2>3, <3>1 DEF Abandon, GiveUp, ResumeEnds, Inv, TypeOK
  <2>4. ASSUME UNCHANGED records PROVE records'[j] = records[j]
    BY <2>4
  <2> QED
    BY <2>2, <2>3, <2>4 DEF Next, UserStep, Create, ReadForEdit, SaveEdit, Delete, ScanStep,
       ListCron, Arm, Skip, Fire, Call, JobStep, Refuse, Admit, RunSucceeds, RunFails, SaveRow,
       Leave, RecoveryStep, ListUnfinished, EndRecovery, Resume, Clock, Crash, vars
<1> QED
  BY <1>1, Invariance, RecoveryHolds, PTL DEF Spec, RecordFinal
=============================================================================
