------------------------- MODULE SessionGatewayProofs -------------------------
(***************************************************************************)
(* Theorems about SessionGateway, for every finite set of requests, every  *)
(* set of sessions, every budget and every bound on the environment.       *)
(***************************************************************************)
EXTENDS SessionGateway, FiniteSetTheorems, SequenceTheorems, TLAPS

USE NoOneAssumption, LimitsAssumption, FiniteAssumption

-----------------------------------------------------------------------------
(* Types *)

Spent == [fault : 0 .. MaxFaults, delete : 0 .. MaxDeletes, crash : 0 .. MaxCrashes]

LEMMA FaultType ==
  ASSUME TypeOK, Fault \/ UNCHANGED spent
  PROVE  spent' \in Spent
<1>1. spent \in Spent /\ spent.fault \in 0 .. MaxFaults
  BY DEF TypeOK, Spent
<1>2. CASE Fault
  <2>1. spent.fault + 1 \in 0 .. MaxFaults
    BY <1>1, <1>2 DEF Fault
  <2> QED
    BY <1>1, <1>2, <2>1 DEF Fault, Spent
<1> QED
  BY <1>1, <1>2

LEMMA PhaseTypes ==
  /\ Serving \subseteq Phase
  /\ {"new", "waiting", "unlocking", "done", "lost"} \subseteq Phase
BY DEF Phase

LEMMA GotoType ==
  ASSUME TypeOK, NEW r \in Requests, NEW p \in Phase, Goto(r, p)
  PROVE  pc' \in [Requests -> Phase]
BY DEF TypeOK, Goto

LEMMA ReturnType ==
  ASSUME TypeOK, NEW r \in Requests,
         NEW w \in {"answered", "blocked", "failed", "unopened"}, Return(r, w)
  PROVE  /\ pc' \in [Requests -> Phase]
         /\ result' \in [Requests -> {"none", "answered", "blocked", "failed", "unopened"}]
         /\ history' \in [Requests -> Seq(Message)]
         /\ reply' \in [Requests -> Reply]
<1>1. pc' \in [Requests -> Phase]
  BY GotoType, PhaseTypes DEF Return, Serving
<1>2. << >> \in Seq(Message) /\ NoReply \in Reply
  BY DEF Reply
<1> QED
  BY <1>1, <1>2 DEF Return, TypeOK

LEMMA StoreType ==
  ASSUME TypeOK, NEW r \in Requests, NEW m \in Message, Store(r, m)
  PROVE  msgs' \in [Sessions -> Seq(Message)]
<1>1. session[r] \in Sessions /\ msgs[session[r]] \in Seq(Message)
  BY DEF TypeOK
<1>2. Append(msgs[session[r]], m) \in Seq(Message)
  BY <1>1
<1> QED
  BY <1>1, <1>2 DEF TypeOK, Store

(* What is loaded as history is a log again. *)
LEMMA BeforeLastType ==
  ASSUME NEW log \in Seq(Message)
  PROVE  BeforeLast(log) \in Seq(Message)
<1>1. CASE log = << >>
  BY <1>1 DEF BeforeLast
<1>2. CASE log # << >>
  <2>1. Len(log) \in Nat /\ Len(log) - 1 <= Len(log)
    OBVIOUS
  <2>2. \A i \in 1 .. Len(log) - 1 : log[i] \in Message
    OBVIOUS
  <2>3. SubSeq(log, 1, Len(log) - 1) \in Seq(Message)
    BY <2>1, <2>2
  <2> QED
    BY <1>2, <2>3 DEF BeforeLast
<1> QED
  BY <1>1, <1>2

LEMMA InitType == Init => TypeOK
BY DEF Init, TypeOK, Phase, NoEntries, NoUsers, Nobody, NoReply, Reply

LEMMA LockTypes ==
  ASSUME TypeOK, NEW r \in Requests,
         \/ LockEntry(r) \/ LockMutex(r) \/ UnlockMutex(r)
         \/ UnlockEntry(r) /\ ref[locks[session[r]]] # 0
  PROVE  TypeOK'
<1>1. session[r] \in Sessions /\ locks[session[r]] \in Requests \cup {NoOne}
  BY DEF TypeOK
<1>2. CASE LockEntry(r)
  <2>1. Entry(r) \in Requests
    BY <1>1 DEF Entry
  <2>2. pc' \in [Requests -> Phase]
    BY <1>2, GotoType, PhaseTypes DEF LockEntry
  <2>3. locks' \in [Sessions -> Requests \cup {NoOne}]
    BY <1>1, <1>2, <2>1 DEF LockEntry, TypeOK
  <2>4. ref' \in [Requests -> Nat]
    <3>1. ref' = [ref EXCEPT ![Entry(r)] = ref[Entry(r)] + 1]
      BY <1>2 DEF LockEntry
    <3>2. ref \in [Requests -> Nat] /\ ref[Entry(r)] + 1 \in Nat
      BY <2>1 DEF TypeOK
    <3> QED
      BY <2>1, <3>1, <3>2
  <2>5. mine' \in [Requests -> Requests \cup {NoOne}]
    BY <1>2, <2>1 DEF LockEntry, TypeOK
  <2>6. UNCHANGED <<session, stream, result, held, row, msgs, history, reply,
                    charged, billed, spent>>
    BY <1>2 DEF LockEntry, callVars, usageVars
  <2> QED
    BY <2>2, <2>3, <2>4, <2>5, <2>6 DEF TypeOK
<1>3. CASE LockMutex(r)
  <2>1. pc' \in [Requests -> Phase]
    BY <1>3, GotoType, PhaseTypes DEF LockMutex, Serving
  <2> QED
    BY <1>3, <2>1 DEF LockMutex, TypeOK, callVars, usageVars
<1>4. CASE UnlockMutex(r)
  <2>1. pc' \in [Requests -> Phase]
    BY <1>4, GotoType, PhaseTypes DEF UnlockMutex
  <2> QED
    BY <1>4, <2>1 DEF UnlockMutex, TypeOK, callVars, usageVars
<1>5. CASE UnlockEntry(r) /\ ref[locks[session[r]]] # 0
  <2> DEFINE s == session[r]
             sl == locks[s]
  <2>1. pc' \in [Requests -> Phase]
    BY <1>5, GotoType, PhaseTypes DEF UnlockEntry
  <2>2. locks' \in [Sessions -> Requests \cup {NoOne}]
    BY <1>1, <1>5 DEF UnlockEntry, Dropped, TypeOK
  <2>3. ref' \in [Requests -> Nat]
    <3>1. CASE sl = NoOne
      BY <1>5, <3>1 DEF UnlockEntry, TypeOK
    <3>2. CASE sl # NoOne
      <4>1. sl \in Requests /\ ref[sl] - 1 \in Nat
        <5>1. sl \in Requests
          BY <1>1, <3>2
        <5>2. ref[sl] \in Nat /\ ref[sl] # 0
          BY <1>5, <5>1 DEF TypeOK
        <5> QED
          BY <5>1, <5>2
      <4>2. ref' = [ref EXCEPT ![sl] = @ - 1]
        BY <1>5, <3>2 DEF UnlockEntry
      <4> QED
        BY <4>1, <4>2 DEF TypeOK
    <3> QED
      BY <3>1, <3>2
  <2>4. mine' \in [Requests -> Requests \cup {NoOne}]
    BY <1>1, <1>5 DEF UnlockEntry, TypeOK
  <2>5. UNCHANGED <<session, stream, result, held, row, msgs, history, reply,
                    charged, billed, spent>>
    BY <1>5 DEF UnlockEntry, callVars, usageVars
  <2> QED
    BY <2>1, <2>2, <2>3, <2>4, <2>5 DEF TypeOK
<1> QED
  BY <1>2, <1>3, <1>4, <1>5

LEMMA ServeTypes ==
  ASSUME TypeOK, NEW r \in Requests,
         \/ OpenSession(r) \/ Ask(r) \/ CheckBudget(r) \/ LoadHistory(r)
         \/ PrepareFails(r) \/ ModelReturns(r) \/ StreamBreaks(r)
         \/ Charge(r)
         \/ Answer(r) /\ reply[r] # NoReply
  PROVE  TypeOK'
<1>1. session[r] \in Sessions
  BY DEF TypeOK
<1>2. \A p \in Serving : Goto(r, p) => pc' \in [Requests -> Phase]
  BY GotoType, PhaseTypes
<1>3. CASE OpenSession(r)
  <2>1. row' \in [Sessions -> {"none", "live", "clearing", "emptied", "deleted"}]
    <3>1. row' = row \/ row' = [row EXCEPT ![session[r]] = "live"] \/ row' = [row EXCEPT ![session[r]] = row[session[r]]]
      BY <1>3 DEF OpenSession
    <3> QED
      BY <1>1, <3>1 DEF TypeOK
  <2>2. CASE Return(r, "unopened")
    BY <1>3, <2>1, <2>2, ReturnType DEF OpenSession, TypeOK, lockVars, usageVars
  <2>3. CASE Goto(r, "asking") /\ UNCHANGED <<result, callVars>>
    BY <1>2, <1>3, <2>1, <2>3 DEF OpenSession, TypeOK, lockVars, usageVars, callVars, Serving
  <2> QED
    BY <1>3, <2>2, <2>3 DEF OpenSession
<1>4. CASE Ask(r)
  <2>1. msgs' \in [Sessions -> Seq(Message)]
    BY <1>4, StoreType DEF Ask, Question, Message
  <2>2. pc' \in [Requests -> Phase]
    BY <1>2, <1>4 DEF Ask, Serving
  <2> QED
    BY <1>4, <2>1, <2>2 DEF Ask, TypeOK, lockVars, usageVars
<1>5. CASE CheckBudget(r)
  <2>1. CASE Return(r, "blocked")
    BY <1>5, <2>1, ReturnType DEF CheckBudget, TypeOK, lockVars, usageVars
  <2>2. CASE Goto(r, "loading") /\ UNCHANGED <<result, callVars>>
    BY <1>2, <1>5, <2>2 DEF CheckBudget, TypeOK, lockVars, usageVars, callVars, Serving
  <2> QED
    BY <1>5, <2>1, <2>2 DEF CheckBudget
<1>6. CASE LoadHistory(r)
  <2>1. history' \in [Requests -> Seq(Message)]
    <3>1. BeforeLast(msgs[session[r]]) \in Seq(Message) /\ << >> \in Seq(Message)
      BY <1>1, BeforeLastType DEF TypeOK
    <3> QED
      BY <1>6, <3>1 DEF LoadHistory, TypeOK
  <2>2. pc' \in [Requests -> Phase]
    BY <1>2, <1>6 DEF LoadHistory, Serving
  <2>3. spent' \in Spent
    BY <1>6, FaultType DEF LoadHistory
  <2> QED
    BY <1>6, <2>1, <2>2, <2>3 DEF LoadHistory, TypeOK, lockVars, usageVars, Spent
<1>7. CASE PrepareFails(r) \/ StreamBreaks(r)
  <2>1. Return(r, "failed") /\ (Fault \/ UNCHANGED spent)
    BY <1>7 DEF PrepareFails, StreamBreaks
  <2>2. spent' \in Spent
    BY <2>1, FaultType
  <2>3. UNCHANGED <<session, stream, locks, ref, held, mine, row, msgs, charged, billed>>
    BY <1>7 DEF PrepareFails, StreamBreaks, lockVars, usageVars
  <2> QED
    BY <2>1, <2>2, <2>3, ReturnType DEF TypeOK, Spent
<1>8. CASE ModelReturns(r)
  <2>1. reply' \in [Requests -> Reply]
    BY <1>8 DEF ModelReturns, TypeOK, Reply
  <2>2. pc' \in [Requests -> Phase]
    BY <1>2, <1>8 DEF ModelReturns, Serving
  <2> QED
    BY <1>8, <2>1, <2>2 DEF ModelReturns, TypeOK, lockVars, usageVars
<1>9. CASE Charge(r)
  <2>1. PICK t \in Nat : t = reply[r].tokens
    <3>1. reply[r].tokens \in Nat
      BY DEF TypeOK, Reply, NoReply, Tokens
    <3> QED
      BY <3>1
  <2>2. charged' \in [Sessions -> Nat] /\ billed' \in Nat
    <3>1. charged \in [Sessions -> Nat] /\ billed \in Nat
      BY DEF TypeOK
    <3>2. \/ charged' = [charged EXCEPT ![session[r]] = @ + t] /\ billed' = billed + t
          \/ charged' = charged /\ billed' = billed
      BY <1>9, <2>1 DEF Charge, usageVars
    <3> QED
      BY <1>1, <3>1, <3>2
  <2>3. pc' \in [Requests -> Phase]
    BY <1>2, <1>9 DEF Charge, Serving
  <2>4. spent' \in Spent
    BY <1>9, FaultType DEF Charge
  <2>5. UNCHANGED <<session, stream, result, locks, ref, held, mine, row, msgs,
                    history, reply>>
    BY <1>9 DEF Charge, lockVars, callVars
  <2> QED
    BY <2>2, <2>3, <2>4, <2>5 DEF TypeOK, Spent
<1>10. CASE Answer(r) /\ reply[r] # NoReply
  <2>1. [role |-> reply[r].role, by |-> r] \in Message
    BY <1>10 DEF TypeOK, Reply, Message
  <2>2. msgs' \in [Sessions -> Seq(Message)]
    BY <1>10, <2>1, StoreType DEF Answer, TypeOK
  <2>3. Return(r, "answered")
    BY <1>10 DEF Answer
  <2>4. spent' \in Spent
    BY <1>10, FaultType DEF Answer
  <2>5. UNCHANGED <<session, stream, locks, ref, held, mine, row, charged, billed>>
    BY <1>10 DEF Answer, lockVars, usageVars
  <2> QED
    BY <2>2, <2>3, <2>4, <2>5, ReturnType DEF TypeOK, Spent
<1> QED
  BY <1>3, <1>4, <1>5, <1>6, <1>7, <1>8, <1>9, <1>10

(* An answer to store, or tokens to record, come from a reply. *)
ReplyKnown ==
  \A r \in Requests : pc[r] \in {"charging", "answering"} => reply[r] # NoReply

-----------------------------------------------------------------------------
(* The lock *)

(* What makes the lock work.  The entry of a session is the one all its    *)
(* users have, exists while there are users, and counts them; it is named  *)
(* by a request of that session, so two sessions never share one.  The     *)
(* request inside is the one its mutex names.  A request that has not come *)
(* in has left no trace: the entry it may make is fresh.                   *)
UsersShare ==
  \A r \in Requests : pc[r] \in Using =>
    mine[r] = locks[session[r]] /\ locks[session[r]] # NoOne

EntryCounts ==
  \A s \in Sessions : locks[s] # NoOne =>
    /\ Users(s) # {}
    /\ ref[locks[s]] = Cardinality(Users(s))

EntryNamed ==
  \A s \in Sessions : locks[s] # NoOne =>
    /\ session[locks[s]] = s
    /\ pc[locks[s]] # "new"

InsideHolds ==
  \A r \in Requests : pc[r] \in Serving \cup {"unlocking"} =>
    mine[r] # NoOne /\ held[mine[r]] = r

NewIsFresh ==
  \A r \in Requests : pc[r] = "new" => ref[r] = 0 /\ held[r] = NoOne

LockInv == UsersShare /\ EntryCounts /\ EntryNamed /\ InsideHolds /\ NewIsFresh

LEMMA UsersFinite ==
  ASSUME NEW s \in Sessions
  PROVE  /\ IsFiniteSet(Users(s))
         /\ Cardinality(Users(s)) \in Nat
         /\ Cardinality(Users(s)) = 0 <=> Users(s) = {}
<1>1. Users(s) \in SUBSET Requests
  BY DEF Users
<1> QED
  BY <1>1, FS_Subset, FS_CardinalityType, FS_EmptySet

LEMMA InitLock == Init => LockInv
BY DEF Init, LockInv, UsersShare, EntryCounts, EntryNamed, InsideHolds, NewIsFresh,
       NoEntries, NoUsers, Nobody, Using, Serving

(* A request that moves on within its turn leaves the lock alone. *)
LEMMA MovesInside ==
  ASSUME TypeOK, LockInv, NEW r \in Requests, NEW p \in Serving,
         pc[r] \in Serving, Goto(r, p), UNCHANGED <<session, lockVars>>
  PROVE  LockInv'
<1>1. UNCHANGED <<session, locks, ref, held, mine>>
  BY DEF lockVars
<1>2. \A q \in Requests : /\ pc'[q] \in Using <=> pc[q] \in Using
                          /\ pc'[q] \in Serving \cup {"unlocking"}
                               <=> pc[q] \in Serving \cup {"unlocking"}
                          /\ pc'[q] = "new" <=> pc[q] = "new"
  BY DEF TypeOK, Goto, Using, Serving
<1>3. \A s \in Sessions : Users(s)' = Users(s)
  BY <1>1, <1>2 DEF Users
<1>4. UsersShare'
  BY <1>1, <1>2 DEF LockInv, UsersShare
<1>5. EntryCounts'
  BY <1>1, <1>3 DEF LockInv, EntryCounts
<1>6. EntryNamed'
  BY <1>1, <1>2 DEF LockInv, EntryNamed, TypeOK
<1>7. InsideHolds'
  BY <1>1, <1>2 DEF LockInv, InsideHolds
<1>8. NewIsFresh'
  BY <1>1, <1>2 DEF LockInv, NewIsFresh
<1> QED
  BY <1>4, <1>5, <1>6, <1>7, <1>8 DEF LockInv

LEMMA LockEntryKeeps ==
  ASSUME TypeOK, LockInv, NEW r \in Requests, LockEntry(r)
  PROVE  LockInv'
<1>0. PICK s \in Sessions : s = session[r]
  BY DEF TypeOK
<1> DEFINE e == Entry(r)
<1>1. s = session[r] /\ pc[r] = "new" /\ UNCHANGED <<session, held>>
  BY <1>0 DEF LockEntry
<1>2. /\ locks' = [locks EXCEPT ![s] = e]
      /\ ref' = [ref EXCEPT ![e] = @ + 1]
      /\ mine' = [mine EXCEPT ![r] = e]
      /\ pc' = [pc EXCEPT ![r] = "waiting"]
  BY <1>0 DEF LockEntry, Goto
<1>3. e \in Requests /\ e # NoOne
  <2>1. locks[s] \in Requests \cup {NoOne}
    BY <1>1 DEF TypeOK
  <2> QED
    BY <1>0, <2>1 DEF Entry
<1>4. \A q \in Requests : q # r => pc'[q] = pc[q] /\ mine'[q] = mine[q]
  BY <1>2 DEF TypeOK
<1>5. pc'[r] = "waiting" /\ mine'[r] = e /\ locks'[s] = e
  BY <1>1, <1>2 DEF TypeOK
<1>6. \A t \in Sessions : t # s => locks'[t] = locks[t] /\ Users(t)' = Users(t)
  <2>1. ASSUME NEW t \in Sessions, t # s PROVE Users(t)' = Users(t)
    BY <1>1, <1>4, <2>1 DEF Users
  <2> QED
    BY <1>1, <1>2, <2>1 DEF TypeOK
<1>7. Users(s)' = Users(s) \cup {r} /\ r \notin Users(s)
  BY <1>1, <1>4, <1>5 DEF Users, Using, Serving
<1>8. locks[s] = NoOne => Users(s) = {}
  BY <1>0 DEF LockInv, UsersShare, Users
<1>9. /\ session[e] = s
      /\ pc'[e] # "new"
      /\ locks[s] # NoOne => e = locks[s]
      /\ locks[s] = NoOne => e = r
  BY <1>1, <1>3, <1>4, <1>5 DEF LockInv, EntryNamed, Entry
<1>10. ref[e] = Cardinality(Users(s))
  <2>1. CASE locks[s] = NoOne
    BY <1>1, <1>8, <1>9, <2>1, FS_EmptySet DEF LockInv, NewIsFresh
  <2>2. CASE locks[s] # NoOne
    BY <1>1, <1>9, <2>2 DEF LockInv, EntryCounts
  <2> QED
    BY <2>1, <2>2
<1>11. ref'[e] = Cardinality(Users(s)')
  <2>1. Cardinality(Users(s) \cup {r}) = Cardinality(Users(s)) + 1
    BY <1>1, <1>7, UsersFinite, FS_AddElement
  <2>2. ref'[e] = ref[e] + 1
    BY <1>2, <1>3 DEF TypeOK
  <2> QED
    BY <1>7, <1>10, <2>1, <2>2
<1>12. \A t \in Sessions : t # s /\ locks[t] # NoOne => locks[t] # e
  BY <1>9 DEF LockInv, EntryNamed
<1>13. UsersShare'
  <2> SUFFICES ASSUME NEW q \in Requests, pc'[q] \in Using
               PROVE  mine'[q] = locks'[session[q]] /\ locks'[session[q]] # NoOne
    BY <1>1 DEF UsersShare
  <2>1. CASE q = r
    BY <1>1, <1>3, <1>5, <2>1
  <2>2. CASE q # r /\ session[q] = s
    <3>1. mine[q] = locks[s] /\ locks[s] # NoOne
      BY <1>4, <2>2 DEF LockInv, UsersShare
    <3> QED
      BY <1>3, <1>4, <1>5, <1>9, <2>2, <3>1
  <2>3. CASE q # r /\ session[q] # s
    <3>1. mine[q] = locks[session[q]] /\ locks[session[q]] # NoOne
      BY <1>4, <2>3 DEF LockInv, UsersShare
    <3>2. session[q] \in Sessions
      BY DEF TypeOK
    <3> QED
      BY <1>4, <1>6, <2>3, <3>1, <3>2
  <2> QED
    BY <2>1, <2>2, <2>3
<1>14. EntryCounts'
  <2> SUFFICES ASSUME NEW t \in Sessions, locks'[t] # NoOne
               PROVE  Users(t)' # {} /\ ref'[locks'[t]] = Cardinality(Users(t)')
    BY DEF EntryCounts
  <2>1. CASE t = s
    <3>1. Users(s)' # {} /\ locks'[s] = e
      BY <1>5, <1>7
    <3> QED
      BY <1>11, <2>1, <3>1
  <2>2. CASE t # s
    <3>1. /\ locks'[t] = locks[t] /\ Users(t)' = Users(t)
          /\ Users(t) # {} /\ ref[locks[t]] = Cardinality(Users(t))
      BY <1>6, <2>2 DEF LockInv, EntryCounts
    <3>2. locks[t] # e /\ locks[t] \in Requests
      BY <1>12, <2>2, <3>1 DEF TypeOK
    <3>3. ref'[locks[t]] = ref[locks[t]]
      BY <1>2, <1>3, <3>2 DEF TypeOK
    <3> QED
      BY <3>1, <3>3
  <2> QED
    BY <2>1, <2>2
<1>15. EntryNamed'
  <2> SUFFICES ASSUME NEW t \in Sessions, locks'[t] # NoOne
               PROVE  session[locks'[t]] = t /\ pc'[locks'[t]] # "new"
    BY <1>1 DEF EntryNamed
  <2>1. CASE t = s
    BY <1>5, <1>9, <2>1
  <2>2. CASE t # s
    <3>1. locks'[t] = locks[t] /\ session[locks[t]] = t /\ pc[locks[t]] # "new"
      BY <1>6, <2>2 DEF LockInv, EntryNamed
    <3>2. locks[t] \in Requests
      BY <3>1 DEF TypeOK
    <3> QED
      BY <1>4, <1>5, <3>1, <3>2
  <2> QED
    BY <2>1, <2>2
<1>16. InsideHolds'
  BY <1>1, <1>4, <1>5 DEF LockInv, InsideHolds, Serving
<1>17. NewIsFresh'
  <2> SUFFICES ASSUME NEW q \in Requests, pc'[q] = "new"
               PROVE  ref'[q] = 0 /\ held[q] = NoOne
    BY <1>1 DEF NewIsFresh
  <2>1. q # r /\ q # e /\ pc[q] = "new"
    BY <1>4, <1>5, <1>9
  <2>2. ref[q] = 0 /\ held[q] = NoOne
    BY <2>1 DEF LockInv, NewIsFresh
  <2> QED
    BY <1>2, <2>1, <2>2 DEF TypeOK
<1> QED
  BY <1>13, <1>14, <1>15, <1>16, <1>17 DEF LockInv

LEMMA LockMutexKeeps ==
  ASSUME TypeOK, LockInv, NEW r \in Requests, LockMutex(r)
  PROVE  LockInv'
<1>0. PICK e \in Requests : e = mine[r]
  BY DEF LockInv, UsersShare, LockMutex, Using, TypeOK
<1>1. /\ UNCHANGED <<session, locks, ref, mine>>
      /\ pc[r] = "waiting" /\ held[e] = NoOne
      /\ held' = [held EXCEPT ![e] = r]
      /\ pc' = [pc EXCEPT ![r] = "opening"]
  BY <1>0 DEF LockMutex, Goto
<1>2. \A q \in Requests : q # r => pc'[q] = pc[q]
  BY <1>1 DEF TypeOK
<1>3. pc'[r] = "opening" /\ held'[e] = r
  BY <1>1 DEF TypeOK
<1>4. \A q \in Requests : q # e => held'[q] = held[q]
  BY <1>1 DEF TypeOK
<1>5. \A s \in Sessions : Users(s)' = Users(s)
  BY <1>1, <1>2, <1>3 DEF Users, Using, Serving
<1>6. UsersShare'
  BY <1>1, <1>2, <1>3 DEF LockInv, UsersShare, Using
<1>7. EntryCounts'
  BY <1>1, <1>5 DEF LockInv, EntryCounts
<1>8. EntryNamed'
  BY <1>1, <1>2, <1>3 DEF LockInv, EntryNamed, TypeOK
<1>9. InsideHolds'
  <2> SUFFICES ASSUME NEW q \in Requests, pc'[q] \in Serving \cup {"unlocking"}
               PROVE  mine[q] # NoOne /\ held'[mine[q]] = q
    BY <1>1 DEF InsideHolds
  <2>1. CASE q = r
    BY <1>0, <1>3, <2>1, NoOneAssumption
  <2>2. CASE q # r
    <3>1. mine[q] # NoOne /\ held[mine[q]] = q
      BY <1>2, <2>2 DEF LockInv, InsideHolds
    <3>2. mine[q] # e /\ mine[q] \in Requests
      BY <1>1, <3>1, NoOneAssumption DEF TypeOK
    <3> QED
      BY <1>4, <3>1, <3>2
  <2> QED
    BY <2>1, <2>2
<1>10. NewIsFresh'
  <2>1. e = locks[session[r]] /\ locks[session[r]] # NoOne /\ session[r] \in Sessions
    BY <1>0, <1>1 DEF LockInv, UsersShare, Using, TypeOK
  <2>2. pc[e] # "new"
    BY <2>1 DEF LockInv, EntryNamed
  <2> QED
    BY <1>1, <1>2, <1>3, <1>4, <2>2 DEF LockInv, NewIsFresh
<1> QED
  BY <1>6, <1>7, <1>8, <1>9, <1>10 DEF LockInv

(* The entry unlockSession looks up is the one the request locked, and it  *)
(* goes exactly when nobody else waits for it.                             *)
LEMMA UnlockEntryKeeps ==
  ASSUME TypeOK, LockInv, NEW r \in Requests, UnlockEntry(r)
  PROVE  LockInv'
<1>0. PICK s \in Sessions : s = session[r]
  BY DEF TypeOK
<1>1. pc[r] = "leaving" /\ UNCHANGED <<session, held>>
  BY DEF UnlockEntry
<1>2. PICK e \in Requests : e = locks[s] /\ mine[r] = e /\ held[e] = r /\ session[e] = s
  <2>1. locks[s] # NoOne /\ mine[r] = locks[s] /\ held[locks[s]] = r
    BY <1>0, <1>1 DEF LockInv, UsersShare, InsideHolds, Using, Serving
  <2> QED
    BY <2>1 DEF LockInv, EntryNamed, TypeOK
<1>3. /\ ref' = [ref EXCEPT ![e] = @ - 1]
      /\ locks' = IF ref[e] <= 1 THEN [locks EXCEPT ![s] = NoOne] ELSE locks
      /\ mine' = [mine EXCEPT ![r] = e]
      /\ pc' = [pc EXCEPT ![r] = "unlocking"]
  BY <1>0, <1>2, NoOneAssumption DEF UnlockEntry, Dropped, Goto
<1>4. \A q \in Requests : q # r => pc'[q] = pc[q]
  BY <1>3 DEF TypeOK
<1>5. pc'[r] = "unlocking" /\ mine' = mine
  BY <1>2, <1>3 DEF TypeOK
<1>6. \A t \in Sessions : t # s => locks'[t] = locks[t] /\ Users(t)' = Users(t)
  <2>1. ASSUME NEW t \in Sessions, t # s PROVE Users(t)' = Users(t)
    BY <1>0, <1>1, <1>4, <2>1 DEF Users
  <2> QED
    BY <1>3, <2>1 DEF TypeOK
<1>7. Users(s)' = Users(s) \ {r} /\ r \in Users(s)
  BY <1>0, <1>1, <1>4, <1>5 DEF Users, Using, Serving
<1>8. ref[e] = Cardinality(Users(s)) /\ ref[e] \in Nat
  BY <1>2, NoOneAssumption DEF LockInv, EntryCounts, TypeOK
<1>9. Cardinality(Users(s) \ {r}) = ref[e] - 1
  <2>1. IsFiniteSet(Users(s)) /\ r \in Users(s)
    BY <1>7, UsersFinite
  <2>2. Cardinality(Users(s) \ {r}) = Cardinality(Users(s)) - 1
    BY <2>1, FS_RemoveElement
  <2> QED
    BY <1>8, <2>2
<1>10. ref'[e] = Cardinality(Users(s)')
  <2>1. ref'[e] = ref[e] - 1
    BY <1>3 DEF TypeOK
  <2> QED
    BY <1>7, <1>9, <2>1
<1>11. \/ Users(s)' = {} /\ locks'[s] = NoOne
       \/ Users(s)' # {} /\ locks'[s] = e
  <2>1. Users(s)' = {} <=> ref[e] - 1 = 0
    <3>1. IsFiniteSet(Users(s) \ {r})
      BY UsersFinite, FS_RemoveElement
    <3> QED
      BY <1>7, <1>9, <3>1, FS_EmptySet
  <2>2. ref[e] # 0
    BY <1>7, <1>8, UsersFinite
  <2>3. CASE ref[e] <= 1
    <3>1. locks' = [locks EXCEPT ![s] = NoOne] /\ ref[e] - 1 = 0
      BY <1>3, <1>8, <2>2, <2>3
    <3> QED
      BY <2>1, <3>1 DEF TypeOK
  <2>4. CASE ~(ref[e] <= 1)
    <3>1. locks' = locks /\ ref[e] - 1 # 0
      BY <1>3, <1>8, <2>4
    <3> QED
      BY <1>2, <2>1, <3>1
  <2> QED
    BY <2>3, <2>4
<1>12. UsersShare'
  <2> SUFFICES ASSUME NEW q \in Requests, pc'[q] \in Using
               PROVE  mine[q] = locks'[session[q]] /\ locks'[session[q]] # NoOne
    BY <1>1, <1>5 DEF UsersShare
  <2>1. q # r /\ pc[q] \in Using
    BY <1>4, <1>5 DEF Using, Serving
  <2>2. mine[q] = locks[session[q]] /\ locks[session[q]] # NoOne /\ session[q] \in Sessions
    BY <2>1 DEF LockInv, UsersShare, TypeOK
  <2>3. CASE session[q] = s
    <3>1. q \in Users(s)'
      BY <1>1, <2>3 DEF Users
    <3> QED
      BY <1>2, <1>11, <2>2, <2>3, <3>1, NoOneAssumption
  <2>4. CASE session[q] # s
    BY <1>6, <2>2, <2>4
  <2> QED
    BY <2>3, <2>4
<1>13. EntryCounts'
  <2> SUFFICES ASSUME NEW t \in Sessions, locks'[t] # NoOne
               PROVE  Users(t)' # {} /\ ref'[locks'[t]] = Cardinality(Users(t)')
    BY DEF EntryCounts
  <2>1. CASE t = s
    BY <1>10, <1>11, <2>1
  <2>2. CASE t # s
    <3>1. /\ locks'[t] = locks[t] /\ Users(t)' = Users(t)
          /\ Users(t) # {} /\ ref[locks[t]] = Cardinality(Users(t))
      BY <1>6, <2>2 DEF LockInv, EntryCounts
    <3>2. session[locks[t]] = t /\ locks[t] \in Requests
      BY <3>1 DEF LockInv, EntryNamed, TypeOK
    <3>3. ref'[locks[t]] = ref[locks[t]]
      BY <1>2, <1>3, <2>2, <3>2 DEF TypeOK
    <3> QED
      BY <3>1, <3>3
  <2> QED
    BY <2>1, <2>2
<1>14. EntryNamed'
  <2> SUFFICES ASSUME NEW t \in Sessions, locks'[t] # NoOne
               PROVE  session[locks'[t]] = t /\ pc'[locks'[t]] # "new"
    BY <1>1 DEF EntryNamed
  <2>1. locks'[t] = locks[t]
    BY <1>2, <1>6, <1>11
  <2>2. locks[t] \in Requests /\ session[locks[t]] = t /\ pc[locks[t]] # "new"
    BY <2>1 DEF LockInv, EntryNamed, TypeOK
  <2> QED
    BY <1>4, <1>5, <2>1, <2>2
<1>15. InsideHolds'
  BY <1>1, <1>4, <1>5 DEF LockInv, InsideHolds, Serving
<1>16. NewIsFresh'
  <2> SUFFICES ASSUME NEW q \in Requests, pc'[q] = "new"
               PROVE  ref'[q] = 0 /\ held[q] = NoOne
    BY <1>1 DEF NewIsFresh
  <2>1. pc[q] = "new" /\ pc[e] # "new"
    BY <1>2, <1>4, <1>5, NoOneAssumption DEF LockInv, EntryNamed
  <2> QED
    BY <1>3, <2>1 DEF LockInv, NewIsFresh, TypeOK
<1> QED
  BY <1>12, <1>13, <1>14, <1>15, <1>16 DEF LockInv

LEMMA UnlockMutexKeeps ==
  ASSUME TypeOK, LockInv, NEW r \in Requests, UnlockMutex(r)
  PROVE  LockInv'
<1>0. PICK e \in Requests : e = mine[r] /\ held[e] = r
  BY DEF LockInv, InsideHolds, UnlockMutex, TypeOK
<1>1. /\ UNCHANGED <<session, locks, ref>>
      /\ pc[r] = "unlocking"
      /\ held' = [held EXCEPT ![e] = NoOne]
      /\ mine' = [mine EXCEPT ![r] = NoOne]
      /\ pc' = [pc EXCEPT ![r] = "done"]
  BY <1>0, NoOneAssumption DEF UnlockMutex, Goto
<1>2. \A q \in Requests : q # r => pc'[q] = pc[q] /\ mine'[q] = mine[q]
  BY <1>1 DEF TypeOK
<1>3. pc'[r] = "done" /\ pc[r] \notin Using
  BY <1>1 DEF TypeOK, Using, Serving
<1>4. \A s \in Sessions : Users(s)' = Users(s)
  BY <1>1, <1>2, <1>3 DEF Users, Using, Serving
<1>5. UsersShare'
  BY <1>1, <1>2, <1>3 DEF LockInv, UsersShare, Using, Serving
<1>6. EntryCounts'
  BY <1>1, <1>4 DEF LockInv, EntryCounts
<1>7. EntryNamed'
  BY <1>1, <1>2, <1>3 DEF LockInv, EntryNamed, TypeOK
<1>8. InsideHolds'
  <2> SUFFICES ASSUME NEW q \in Requests, pc'[q] \in Serving \cup {"unlocking"}
               PROVE  mine'[q] # NoOne /\ held'[mine'[q]] = q
    BY DEF InsideHolds
  <2>1. q # r
    BY <1>3 DEF Serving
  <2>2. mine[q] # NoOne /\ held[mine[q]] = q /\ mine'[q] = mine[q]
    BY <1>2, <2>1 DEF LockInv, InsideHolds
  <2>3. mine[q] # e /\ mine[q] \in Requests
    BY <1>0, <2>1, <2>2 DEF TypeOK
  <2> QED
    BY <1>1, <2>2, <2>3 DEF TypeOK
<1>9. NewIsFresh'
  BY <1>1, <1>2, <1>3 DEF LockInv, NewIsFresh, TypeOK
<1> QED
  BY <1>5, <1>6, <1>7, <1>8, <1>9 DEF LockInv

LEMMA CrashUnlocks ==
  ASSUME TypeOK, LockInv, Crash
  PROVE  LockInv'
<1>1. /\ locks' = NoEntries /\ ref' = NoUsers /\ held' = Nobody
      /\ \A r \in Requests : pc'[r] \in {"new", "done", "lost"}
  BY DEF Crash, TypeOK
<1>2. \A r \in Requests : pc'[r] \notin Using /\ pc'[r] \notin Serving \cup {"unlocking"}
  BY <1>1 DEF Using, Serving
<1>3. UsersShare' /\ InsideHolds'
  BY <1>2 DEF UsersShare, InsideHolds
<1>4. EntryCounts' /\ EntryNamed'
  BY <1>1 DEF EntryCounts, EntryNamed, NoEntries
<1>5. NewIsFresh'
  BY <1>1 DEF NewIsFresh, NoUsers, Nobody
<1> QED
  BY <1>3, <1>4, <1>5 DEF LockInv

LEMMA OutsideLock ==
  ASSUME LockInv, UNCHANGED <<pc, session, lockVars>>
  PROVE  LockInv'
BY DEF LockInv, UsersShare, EntryCounts, EntryNamed, InsideHolds, NewIsFresh, Users,
       lockVars

-----------------------------------------------------------------------------
(* The inductive invariant *)

(* The types rest on the lock: a count that unlockSession decrements is    *)
(* not zero because the request that leaves is among the users it counts.  *)
Inv == TypeOK /\ ReplyKnown /\ LockInv

LEMMA LeaverCounted ==
  ASSUME TypeOK, LockInv, NEW r \in Requests, UnlockEntry(r)
  PROVE  ref[locks[session[r]]] # 0
<1>0. PICK s \in Sessions : s = session[r]
  BY DEF TypeOK
<1>1. pc[r] = "leaving"
  BY DEF UnlockEntry
<1>2. r \in Users(s) /\ locks[s] # NoOne
  BY <1>0, <1>1 DEF Users, LockInv, UsersShare, Using, Serving
<1>3. ref[locks[s]] = Cardinality(Users(s))
  BY <1>2 DEF LockInv, EntryCounts
<1> QED
  BY <1>0, <1>2, <1>3, UsersFinite

LEMMA ReplyKnownKeeps ==
  ASSUME TypeOK, ReplyKnown, Next
  PROVE  ReplyKnown'
<1> USE DEF ReplyKnown
<1>1. ASSUME NEW r \in Requests, NEW p \in Phase \ {"charging", "answering"},
             Goto(r, p), \A q \in Requests : q # r => reply'[q] = reply[q]
      PROVE  ReplyKnown'
  BY <1>1 DEF TypeOK, Goto
<1>2. ASSUME NEW r \in Requests, NEW w, Return(r, w) PROVE ReplyKnown'
  <2>1. "leaving" \in Phase \ {"charging", "answering"}
    BY DEF Phase, Serving
  <2> QED
    BY <1>1, <1>2, <2>1 DEF Return, TypeOK
<1>3. ASSUME NEW r \in Requests, ModelReturns(r) PROVE ReplyKnown'
  <2>1. PICK t \in Tokens :
          reply' = [reply EXCEPT ![r] = [role |-> "assistant", tokens |-> t]]
    BY <1>3 DEF ModelReturns
  <2>2. [role |-> "assistant", tokens |-> t].role # NoReply.role
    BY DEF NoReply
  <2>3. reply'[r] # NoReply
    BY <2>1, <2>2 DEF TypeOK
  <2> QED
    BY <1>3, <2>1, <2>3 DEF ModelReturns, Goto, TypeOK
<1>4. ASSUME NEW r \in Requests, Charge(r) PROVE ReplyKnown'
  BY <1>4 DEF Charge, Goto, TypeOK, callVars
<1>5. ASSUME NEW r \in Requests, LockEntry(r) \/ LockMutex(r) \/ UnlockEntry(r)
                                 \/ UnlockMutex(r) \/ Ask(r) \/ LoadHistory(r)
      PROVE  ReplyKnown'
  <2>1. /\ reply' = reply
        /\ \E p \in {"waiting", "opening", "unlocking", "done", "checking", "calling"} :
             Goto(r, p)
    BY <1>5 DEF LockEntry, LockMutex, UnlockEntry, UnlockMutex, Ask, LoadHistory, callVars
  <2> QED
    BY <1>1, <2>1 DEF Phase, Serving
<1>6. ASSUME NEW r \in Requests, OpenSession(r) \/ CheckBudget(r) PROVE ReplyKnown'
  <2>1. \/ \E w : Return(r, w)
        \/ reply' = reply /\ \E p \in {"asking", "loading"} : Goto(r, p)
    BY <1>6 DEF OpenSession, CheckBudget, callVars
  <2> QED
    BY <1>1, <1>2, <2>1 DEF Phase, Serving
<1>7. ASSUME NEW r \in Requests, PrepareFails(r) \/ StreamBreaks(r) \/ Answer(r)
      PROVE  ReplyKnown'
  <2>1. \E w : Return(r, w)
    BY <1>7 DEF PrepareFails, StreamBreaks, Answer
  <2> QED
    BY <1>2, <2>1
<1>8. ASSUME NEW s \in Sessions, ClearMessages(s) \/ DropRow(s) PROVE ReplyKnown'
  BY <1>8 DEF ClearMessages, DropRow, callVars
<1>9. CASE Crash
  BY <1>9 DEF Crash, TypeOK
<1>10. CASE UNCHANGED vars
  BY <1>10 DEF vars, callVars
<1> QED
  BY <1>3, <1>4, <1>5, <1>6, <1>7, <1>8, <1>9, <1>10 DEF Next, ServeStep

LEMMA AroundTypes ==
  ASSUME TypeOK,
         \/ Crash
         \/ \E s \in Sessions : ClearMessages(s) \/ DropRow(s)
  PROVE  TypeOK'
<1>1. CASE Crash
  <2>1. spent' \in Spent
    <3>1. spent \in Spent /\ spent.crash \in 0 .. MaxCrashes
      BY DEF TypeOK, Spent
    <3>2. spent.crash + 1 \in 0 .. MaxCrashes
      BY <1>1, <3>1 DEF Crash
    <3> QED
      BY <1>1, <3>1, <3>2 DEF Crash, Spent
  <2>2. pc' \in [Requests -> Phase] /\ row' \in [Sessions -> {"none", "live", "clearing", "emptied", "deleted"}]
    BY <1>1 DEF Crash, TypeOK, Phase
  <2>3. /\ locks' \in [Sessions -> Requests \cup {NoOne}] /\ ref' \in [Requests -> Nat]
        /\ held' \in [Requests -> Requests \cup {NoOne}]
        /\ mine' \in [Requests -> Requests \cup {NoOne}]
    BY <1>1 DEF Crash, NoEntries, NoUsers, Nobody
  <2>4. /\ history' \in [Requests -> Seq(Message)] /\ reply' \in [Requests -> Reply]
    BY <1>1 DEF Crash, Reply
  <2>5. UNCHANGED <<session, stream, result, msgs, charged, billed>>
    BY <1>1 DEF Crash, usageVars
  <2> QED
    BY <2>1, <2>2, <2>3, <2>4, <2>5 DEF TypeOK, Spent
<1>2. ASSUME NEW s \in Sessions, ClearMessages(s) PROVE TypeOK'
  <2>1. spent' \in Spent
    <3>1. spent \in Spent /\ spent.delete \in 0 .. MaxDeletes
      BY DEF TypeOK, Spent
    <3>2. spent.delete + 1 \in 0 .. MaxDeletes
      BY <1>2, <3>1 DEF ClearMessages
    <3> QED
      BY <1>2, <3>1, <3>2 DEF ClearMessages, Spent
  <2>2. /\ row' \in [Sessions -> {"none", "live", "clearing", "emptied", "deleted"}]
        /\ msgs' \in [Sessions -> Seq(Message)]
    BY <1>2 DEF ClearMessages, TypeOK
  <2>3. UNCHANGED <<pc, session, stream, result, locks, ref, held, mine, history, reply,
                    charged, billed>>
    BY <1>2 DEF ClearMessages, lockVars, callVars, usageVars
  <2> QED
    BY <2>1, <2>2, <2>3 DEF TypeOK, Spent
<1>3. ASSUME NEW s \in Sessions, DropRow(s) PROVE TypeOK'
  <2>1. spent' \in Spent
    BY <1>3, FaultType DEF DropRow
  <2>2. row' \in [Sessions -> {"none", "live", "clearing", "emptied", "deleted"}]
    BY <1>3 DEF DropRow, TypeOK
  <2>3. UNCHANGED <<pc, session, stream, result, locks, ref, held, mine, msgs, history,
                    reply, charged, billed>>
    BY <1>3 DEF DropRow, lockVars, callVars, usageVars
  <2> QED
    BY <2>1, <2>2, <2>3 DEF TypeOK, Spent
<1> QED
  BY <1>1, <1>2, <1>3

(* What a request does between the two ends of the lock. *)
InTurn(r) ==
  \/ OpenSession(r) \/ Ask(r) \/ CheckBudget(r) \/ LoadHistory(r)
  \/ PrepareFails(r) \/ ModelReturns(r) \/ StreamBreaks(r)
  \/ Charge(r) \/ Answer(r)

LEMMA TurnKeepsLock ==
  ASSUME TypeOK, LockInv, NEW r \in Requests, InTurn(r)
  PROVE  LockInv'
<1>1. pc[r] \in Serving /\ UNCHANGED <<session, lockVars>>
  BY DEF InTurn, OpenSession, Ask, CheckBudget, LoadHistory, PrepareFails, ModelReturns,
         StreamBreaks, Charge, Answer, Serving
<1>2. \E p \in Serving : Goto(r, p)
  BY DEF InTurn, OpenSession, Ask, CheckBudget, LoadHistory, PrepareFails, ModelReturns,
         StreamBreaks, Charge, Answer, Return, Serving
<1> QED
  BY <1>1, <1>2, MovesInside

LEMMA NextKeepsInv ==
  ASSUME Inv, Next
  PROVE  Inv'
<1> USE DEF Inv
<1>1. ReplyKnown'
  BY ReplyKnownKeeps
<1>2. ASSUME NEW r \in Requests, InTurn(r) PROVE Inv'
  <2>1. Answer(r) => reply[r] # NoReply
    BY DEF Answer, ReplyKnown
  <2>2. TypeOK'
    <3>1. CASE Answer(r)
      BY <2>1, <3>1, ServeTypes
    <3>2. CASE ~Answer(r)
      BY <1>2, <3>2, ServeTypes DEF InTurn
    <3> QED
      BY <3>1, <3>2
  <2> QED
    BY <1>1, <1>2, <2>2, TurnKeepsLock
<1>3. ASSUME NEW r \in Requests, LockEntry(r) PROVE Inv'
  BY <1>1, <1>3, LockTypes, LockEntryKeeps
<1>4. ASSUME NEW r \in Requests, LockMutex(r) PROVE Inv'
  BY <1>1, <1>4, LockTypes, LockMutexKeeps
<1>5. ASSUME NEW r \in Requests, UnlockEntry(r) PROVE Inv'
  BY <1>1, <1>5, LeaverCounted, LockTypes, UnlockEntryKeeps
<1>6. ASSUME NEW r \in Requests, UnlockMutex(r) PROVE Inv'
  BY <1>1, <1>6, LockTypes, UnlockMutexKeeps
<1>7. CASE Crash
  BY <1>1, <1>7, AroundTypes, CrashUnlocks
<1>8. ASSUME NEW s \in Sessions, ClearMessages(s) \/ DropRow(s) PROVE Inv'
  <2>1. UNCHANGED <<pc, session, lockVars>>
    BY <1>8 DEF ClearMessages, DropRow
  <2> QED
    BY <1>1, <1>8, <2>1, AroundTypes, OutsideLock
<1>9. CASE UNCHANGED vars
  <2>1. UNCHANGED <<pc, session, lockVars>> /\ TypeOK'
    BY <1>9 DEF vars, lockVars, callVars, usageVars, TypeOK
  <2> QED
    BY <1>1, <2>1, OutsideLock
<1> QED
  BY <1>2, <1>3, <1>4, <1>5, <1>6, <1>7, <1>8, <1>9 DEF Next, ServeStep, InTurn

LEMMA InvHolds == Spec => []Inv
<1>1. Init => Inv
  BY InitType, InitLock DEF Inv, ReplyKnown, Init
<1>2. Inv /\ [Next]_vars => Inv'
  <2>1. ASSUME Inv, UNCHANGED vars PROVE Inv'
    <3>1. UNCHANGED <<pc, session, lockVars>> /\ TypeOK'
      BY <2>1 DEF Inv, vars, lockVars, callVars, usageVars, TypeOK
    <3>2. ReplyKnown'
      BY <2>1 DEF Inv, ReplyKnown, vars, callVars
    <3> QED
      BY <2>1, <3>1, <3>2, OutsideLock DEF Inv
  <2> QED
    BY <2>1, NextKeepsInv
<1> QED
  BY <1>1, <1>2, PTL DEF Spec

-----------------------------------------------------------------------------
(* Theorems *)

(* Every variable of Gateway.Run, Gateway.Stream and their lock table has  *)
(* its type in every reachable state; a reference count never falls below  *)
(* zero.                                                                   *)
THEOREM GatewayTyped == Spec => []TypeOK
<1>1. Inv => TypeOK
  BY DEF Inv
<1> QED
  BY <1>1, InvHolds, PTL

(* The requests of one session are served one at a time, whatever channel  *)
(* they come from and wherever the process crashes.                        *)
THEOREM TurnsExclusive == Spec => []OneAtATime
<1>1. Inv => OneAtATime
  <2> SUFFICES ASSUME Inv, NEW q \in Requests, NEW r \in Requests,
                      pc[q] \in Serving, pc[r] \in Serving, session[q] = session[r]
               PROVE  q = r
    BY DEF OneAtATime
  <2>1. mine[q] = locks[session[q]] /\ mine[r] = locks[session[q]]
    BY DEF Inv, LockInv, UsersShare, Using
  <2>2. held[mine[q]] = q /\ held[mine[r]] = r
    BY DEF Inv, LockInv, InsideHolds
  <2> QED
    BY <2>1, <2>2
<1> QED
  BY <1>1, InvHolds, PTL

(* The lock table never leaks an entry, never loses one that is in use,    *)
(* counts its users exactly, and unlockSession always unlocks the mutex    *)
(* the request holds.                                                      *)
THEOREM LockTableCorrect == Spec => []LockTableExact
<1>1. Inv => LockTableExact
  <2> SUFFICES ASSUME Inv PROVE LockTableExact
    OBVIOUS
  <2>1. ASSUME NEW s \in Sessions, Users(s) = {} PROVE locks[s] = NoOne
    BY <2>1 DEF Inv, LockInv, EntryCounts
  <2>2. ASSUME NEW s \in Sessions, Users(s) # {}
        PROVE  locks[s] # NoOne /\ ref[locks[s]] = Cardinality(Users(s))
    <3>1. locks[s] # NoOne
      BY <2>2 DEF Inv, LockInv, UsersShare, Users
    <3> QED
      BY <3>1 DEF Inv, LockInv, EntryCounts
  <2>3. ASSUME NEW r \in Requests
        PROVE  /\ pc[r] \in Using => mine[r] = locks[session[r]]
               /\ pc[r] \in Serving \cup {"unlocking"} => mine[r] # NoOne /\ held[mine[r]] = r
    BY DEF Inv, LockInv, UsersShare, InsideHolds
  <2> QED
    BY <2>1, <2>2, <2>3 DEF LockTableExact
<1> QED
  BY <1>1, InvHolds, PTL

-----------------------------------------------------------------------------
(* The budget of a session *)

Spending == {"loading", "calling", "charging"}

(* Whoever passed the guard still has a budget to spend: the lock keeps    *)
(* the others of the session from recording anything meanwhile.            *)
BudgetInv ==
  /\ SessionBudget
  /\ \A r \in Requests : pc[r] \in Spending => charged[session[r]] < SessionMax

LEMMA ChargeKeepsBudget ==
  ASSUME TypeOK, ReplyKnown, OneAtATime, BudgetInv, NEW r \in Requests, Charge(r)
  PROVE  BudgetInv'
<1>0. PICK s \in Sessions : s = session[r]
  BY DEF TypeOK
<1>1. pc[r] = "charging" /\ pc' = [pc EXCEPT ![r] = "answering"] /\ UNCHANGED session
  BY DEF Charge, Goto
<1>2. PICK t \in Nat : t = reply[r].tokens /\ t <= MostTokens
  <2>1. reply[r] # NoReply
    BY <1>1 DEF ReplyKnown
  <2> QED
    BY <2>1 DEF TypeOK, Reply, Tokens
<1>3. /\ charged[s] < SessionMax
      /\ charged' = [charged EXCEPT ![s] = @ + t] \/ charged' = charged
  BY <1>0, <1>1, <1>2 DEF BudgetInv, Spending, Charge, usageVars
<1>4. PICK c \in Nat : c = charged[s] /\ SessionMax \in Nat /\ MostTokens \in Nat
  BY DEF TypeOK
<1>5. charged'[s] < SessionMax + MostTokens \/ charged'[s] = charged[s]
  <2>1. charged'[s] = c + t \/ charged'[s] = c
    BY <1>3, <1>4 DEF TypeOK
  <2>2. c + t < SessionMax + MostTokens
    BY <1>2, <1>3, <1>4
  <2> QED
    BY <1>4, <2>1, <2>2
<1>6. \A u \in Sessions : u # s => charged'[u] = charged[u]
  BY <1>3 DEF TypeOK
<1>7. SessionBudget'
  <2> SUFFICES ASSUME NEW u \in Sessions, charged'[u] > 0
               PROVE  charged'[u] < SessionMax + MostTokens
    BY DEF SessionBudget
  <2>1. CASE u = s
    <3>1. c < SessionMax + MostTokens
      BY <1>3, <1>4
    <3> QED
      BY <1>4, <1>5, <2>1, <3>1
  <2>2. CASE u # s
    BY <1>6, <2>2 DEF BudgetInv, SessionBudget
  <2> QED
    BY <2>1, <2>2
<1>8. ASSUME NEW q \in Requests, pc'[q] \in Spending
      PROVE  charged'[session[q]] < SessionMax
  <2>1. q # r /\ pc[q] \in Spending
    BY <1>1, <1>8 DEF TypeOK, Spending
  <2>2. session[q] # s /\ session[q] \in Sessions
    BY <1>0, <1>1, <2>1 DEF OneAtATime, Serving, Spending, TypeOK
  <2> QED
    BY <1>6, <2>1, <2>2 DEF BudgetInv
<1> QED
  BY <1>1, <1>7, <1>8 DEF BudgetInv

LEMMA NextKeepsBudget ==
  ASSUME Inv, OneAtATime, BudgetInv, Next
  PROVE  BudgetInv'
<1> USE DEF Inv
(* Steps that record nothing and send nobody past the guard. *)
<1>1. ASSUME UNCHANGED <<session, charged>>,
             \A q \in Requests : pc'[q] \in Spending => pc[q] \in Spending
      PROVE  BudgetInv'
  BY <1>1 DEF BudgetInv, SessionBudget
<1>2. ASSUME NEW r \in Requests, NEW p \in Phase, Goto(r, p),
             UNCHANGED <<session, charged>>, p \in Spending => pc[r] \in Spending
      PROVE  BudgetInv'
  <2>1. \A q \in Requests : pc'[q] \in Spending => pc[q] \in Spending
    BY <1>2 DEF Goto, TypeOK
  <2> QED
    BY <1>1, <1>2, <2>1
<1>3. ASSUME NEW r \in Requests, CheckBudget(r), pc'[r] = "loading" PROVE BudgetInv'
  <2>1. ~ Blocked(r) /\ UNCHANGED <<session, charged>> /\ Goto(r, "loading")
    BY <1>3 DEF CheckBudget, Return, Goto, TypeOK, usageVars
  <2>2. PICK c \in Nat : c = charged[session[r]]
    BY DEF TypeOK
  <2>3. charged[session[r]] < SessionMax
    BY <2>1, <2>2 DEF Blocked
  <2>4. \A q \in Requests : q # r => pc'[q] = pc[q]
    BY <2>1 DEF Goto, TypeOK
  <2> QED
    BY <2>1, <2>3, <2>4 DEF BudgetInv, SessionBudget
<1>4. ASSUME NEW r \in Requests, CheckBudget(r), pc'[r] # "loading" PROVE BudgetInv'
  <2>1. Goto(r, "leaving") /\ UNCHANGED <<session, charged>>
    BY <1>4 DEF CheckBudget, Return, Goto, TypeOK, usageVars
  <2> QED
    BY <1>2, <2>1 DEF Phase, Serving, Spending
<1>5. ASSUME NEW r \in Requests,
             \/ LockEntry(r) \/ LockMutex(r) \/ OpenSession(r) \/ Ask(r)
             \/ PrepareFails(r) \/ StreamBreaks(r) \/ Answer(r)
             \/ UnlockEntry(r) \/ UnlockMutex(r)
      PROVE  BudgetInv'
  <2>1. /\ UNCHANGED <<session, charged>>
        /\ \E p \in {"waiting", "opening", "asking", "checking", "leaving",
                     "unlocking", "done"} : Goto(r, p)
    BY <1>5 DEF LockEntry, LockMutex, OpenSession, Ask, PrepareFails, StreamBreaks, Answer,
                UnlockEntry, UnlockMutex, Return, usageVars
  <2> QED
    BY <1>2, <2>1 DEF Phase, Serving, Spending
<1>6. ASSUME NEW r \in Requests, LoadHistory(r) \/ ModelReturns(r) PROVE BudgetInv'
  <2>1. /\ UNCHANGED <<session, charged>> /\ pc[r] \in Spending
        /\ \E p \in {"calling", "charging"} : Goto(r, p)
    BY <1>6 DEF LoadHistory, ModelReturns, usageVars, Spending
  <2> QED
    BY <1>2, <2>1 DEF Phase, Serving
<1>7. CASE Crash
  <2>1. UNCHANGED <<session, charged>>
    BY <1>7 DEF Crash, usageVars
  <2>2. \A q \in Requests : pc'[q] \in Spending => pc[q] \in Spending
    BY <1>7 DEF Crash, TypeOK, Spending
  <2> QED
    BY <1>1, <2>1, <2>2
<1>8. ASSUME NEW s \in Sessions, ClearMessages(s) \/ DropRow(s) PROVE BudgetInv'
  BY <1>1, <1>8 DEF ClearMessages, DropRow, usageVars
<1>9. CASE UNCHANGED vars
  BY <1>1, <1>9 DEF vars, usageVars
<1> QED
  BY <1>3, <1>4, <1>5, <1>6, <1>7, <1>8, <1>9, ChargeKeepsBudget DEF Next, ServeStep

(* A session oversteps its token policy by less than one call of the       *)
(* model, although the guard reads the usage before the call and the call  *)
(* records it after: for any number of requests and channels, failed       *)
(* inserts and crashes included.                                           *)
THEOREM SessionBudgetKept == Spec => []SessionBudget
<1>1. Init => BudgetInv
  BY DEF Init, BudgetInv, SessionBudget, Spending
<1>2. Inv /\ OneAtATime /\ BudgetInv /\ [Next]_vars => BudgetInv'
  <2>1. ASSUME BudgetInv, UNCHANGED vars PROVE BudgetInv'
    BY <2>1 DEF vars, usageVars, BudgetInv, SessionBudget
  <2> QED
    BY <2>1, NextKeepsBudget
<1>3. BudgetInv => SessionBudget
  BY DEF BudgetInv
<1> QED
  BY <1>1, <1>2, <1>3, InvHolds, TurnsExclusive, PTL DEF Spec

-----------------------------------------------------------------------------
(* The budget of the user *)

(* The sessions in which a call of the model may still be recorded. *)
Spenders == {session[r] : r \in {q \in Requests : pc[q] \in Spending}}

(* What those calls may cost at most is already counted as spent. *)
UserInv ==
  billed > 0 \/ Spenders # {} =>
    billed + Cardinality(Spenders) * MostTokens
      < UserMax + Cardinality(Sessions) * MostTokens

LEMMA TimesMonotone ==
  ASSUME NEW m \in Nat, NEW n \in Nat, NEW k \in Nat, m <= n
  PROVE  m * k \in Nat /\ n * k \in Nat /\ m * k <= n * k
<1>1. PICK d \in Nat : n = m + d
  <2>1. n - m \in Nat /\ n = m + (n - m)
    OBVIOUS
  <2> QED
    BY <2>1
<1>2. d * k \in Nat /\ m * k \in Nat /\ n * k = m * k + d * k
  BY <1>1
<1> QED
  BY <1>2

LEMMA SpendersFinite ==
  ASSUME TypeOK, IsFiniteSet(Sessions)
  PROVE  /\ Spenders \in SUBSET Sessions /\ IsFiniteSet(Spenders)
         /\ Cardinality(Spenders) \in Nat /\ Cardinality(Sessions) \in Nat
         /\ Cardinality(Spenders) <= Cardinality(Sessions)
<1>1. Spenders \in SUBSET Sessions
  BY DEF Spenders, TypeOK
<1> QED
  BY <1>1, FS_Subset, FS_CardinalityType

(* No more calls under way, and nothing recorded. *)
LEMMA FewerSpenders ==
  ASSUME TypeOK, IsFiniteSet(Sessions), UserInv,
         UNCHANGED billed, Spenders' \subseteq Spenders
  PROVE  UserInv'
<1> DEFINE m == Cardinality(Spenders')
           n == Cardinality(Spenders)
<1>1. m \in Nat /\ n \in Nat /\ m <= n /\ Cardinality(Sessions) \in Nat
  BY SpendersFinite, FS_Subset, FS_CardinalityType
<1>2. m * MostTokens \in Nat /\ n * MostTokens \in Nat /\ m * MostTokens <= n * MostTokens
  BY <1>1, TimesMonotone
<1>3. Cardinality(Sessions) * MostTokens \in Nat /\ billed \in Nat /\ UserMax \in Nat
  BY <1>1, TimesMonotone DEF TypeOK
<1> SUFFICES ASSUME billed > 0 \/ Spenders' # {}
             PROVE  billed + m * MostTokens < UserMax + Cardinality(Sessions) * MostTokens
  BY DEF UserInv
<1>4. billed + n * MostTokens < UserMax + Cardinality(Sessions) * MostTokens
  BY DEF UserInv
<1> HIDE DEF m, n
<1> QED
  BY <1>2, <1>3, <1>4

(* Whoever passes the guard finds the user's budget not yet spent. *)
LEMMA GuardKeepsUser ==
  ASSUME TypeOK, TypeOK', IsFiniteSet(Sessions), NEW r \in Requests, CheckBudget(r),
         pc'[r] = "loading"
  PROVE  UserInv'
<1>1. ~ Blocked(r) /\ UNCHANGED billed
  BY DEF CheckBudget, Return, Goto, TypeOK, usageVars
<1>2. billed < UserMax
  BY <1>1 DEF Blocked, TypeOK
<1> DEFINE m == Cardinality(Spenders')
           n == Cardinality(Sessions)
<1>3. Spenders' \subseteq Sessions
  BY DEF Spenders, TypeOK
<1>4. m \in Nat /\ n \in Nat /\ m <= n
  BY <1>3, FS_Subset, FS_CardinalityType
<1>5. m * MostTokens \in Nat /\ n * MostTokens \in Nat /\ m * MostTokens <= n * MostTokens
  BY <1>4, TimesMonotone
<1>6. billed \in Nat /\ UserMax \in Nat
  BY DEF TypeOK
<1> HIDE DEF m, n
<1>7. billed + m * MostTokens < UserMax + n * MostTokens
  BY <1>2, <1>5, <1>6
<1> QED
  BY <1>1, <1>7 DEF UserInv, m, n

(* What a call costs was reserved for its session, which it now leaves. *)
LEMMA ChargeKeepsUser ==
  ASSUME TypeOK, IsFiniteSet(Sessions), ReplyKnown, OneAtATime, UserInv,
         NEW r \in Requests, Charge(r)
  PROVE  UserInv'
<1>1. pc[r] = "charging" /\ pc' = [pc EXCEPT ![r] = "answering"] /\ UNCHANGED session
  BY DEF Charge, Goto
<1>2. PICK t \in Nat : t = reply[r].tokens /\ t <= MostTokens
  <2>1. reply[r] # NoReply
    BY <1>1 DEF ReplyKnown
  <2> QED
    BY <2>1 DEF TypeOK, Reply, Tokens
<1>3. billed \in Nat /\ (billed' = billed + t \/ billed' = billed)
  BY <1>2 DEF Charge, usageVars, TypeOK
<1>4. session[r] \in Spenders
  BY <1>1 DEF Spenders, Spending
<1>5. Spenders' \subseteq Spenders \ {session[r]}
  <2> SUFFICES ASSUME NEW q \in Requests, pc'[q] \in Spending
               PROVE  session[q] \in Spenders /\ session[q] # session[r]
    BY <1>1 DEF Spenders
  <2>1. q # r /\ pc[q] \in Spending
    BY <1>1 DEF TypeOK, Spending
  <2> QED
    BY <1>1, <2>1 DEF Spenders, OneAtATime, Serving, Spending
<1> DEFINE m == Cardinality(Spenders')
           n == Cardinality(Spenders)
           k == Cardinality(Sessions)
<1>6. /\ IsFiniteSet(Spenders \ {session[r]}) /\ n \in Nat /\ k \in Nat
      /\ Cardinality(Spenders \ {session[r]}) = n - 1
  BY <1>4, SpendersFinite, FS_RemoveElement
<1>7. m \in Nat /\ m <= n - 1
  BY <1>5, <1>6, FS_Subset, FS_CardinalityType
<1>8. billed + n * MostTokens < UserMax + k * MostTokens
  BY <1>4 DEF UserInv
<1>9. (m + 1) * MostTokens <= n * MostTokens /\ n * MostTokens \in Nat /\ k * MostTokens \in Nat
  <2>1. m + 1 \in Nat /\ m + 1 <= n
    BY <1>6, <1>7
  <2> HIDE DEF m, n, k
  <2> QED
    BY <1>6, <2>1, TimesMonotone
<1> HIDE DEF m, n, k
<1>10. m * MostTokens \in Nat /\ (m + 1) * MostTokens = m * MostTokens + MostTokens
  BY <1>7
<1>11. billed' + m * MostTokens < UserMax + k * MostTokens
  BY <1>2, <1>3, <1>8, <1>9, <1>10
<1> QED
  BY <1>11 DEF UserInv, m, k

LEMMA NextKeepsUser ==
  ASSUME IsFiniteSet(Sessions), Inv, TypeOK', OneAtATime, UserInv, Next
  PROVE  UserInv'
<1> USE DEF Inv
<1>1. ASSUME UNCHANGED <<session, billed>>,
             \A q \in Requests : pc'[q] \in Spending => pc[q] \in Spending
      PROVE  UserInv'
  BY <1>1, FewerSpenders DEF Spenders
<1>2. ASSUME NEW r \in Requests, NEW p \in Phase, Goto(r, p),
             UNCHANGED <<session, billed>>, p \in Spending => pc[r] \in Spending
      PROVE  UserInv'
  <2>1. \A q \in Requests : pc'[q] \in Spending => pc[q] \in Spending
    BY <1>2 DEF Goto, TypeOK
  <2> QED
    BY <1>1, <1>2, <2>1
<1>3. ASSUME NEW r \in Requests, CheckBudget(r) PROVE UserInv'
  <2>1. CASE pc'[r] = "loading"
    BY <1>3, <2>1, GuardKeepsUser
  <2>2. CASE pc'[r] # "loading"
    <3>1. Goto(r, "leaving") /\ UNCHANGED <<session, billed>>
      BY <1>3, <2>2 DEF CheckBudget, Return, Goto, TypeOK, usageVars
    <3> QED
      BY <1>2, <3>1 DEF Phase, Serving, Spending
  <2> QED
    BY <2>1, <2>2
<1>4. ASSUME NEW r \in Requests,
             \/ LockEntry(r) \/ LockMutex(r) \/ OpenSession(r) \/ Ask(r)
             \/ PrepareFails(r) \/ StreamBreaks(r) \/ Answer(r)
             \/ UnlockEntry(r) \/ UnlockMutex(r)
      PROVE  UserInv'
  <2>1. /\ UNCHANGED <<session, billed>>
        /\ \E p \in {"waiting", "opening", "asking", "checking", "leaving",
                     "unlocking", "done"} : Goto(r, p)
    BY <1>4 DEF LockEntry, LockMutex, OpenSession, Ask, PrepareFails, StreamBreaks, Answer,
                UnlockEntry, UnlockMutex, Return, usageVars
  <2> QED
    BY <1>2, <2>1 DEF Phase, Serving, Spending
<1>5. ASSUME NEW r \in Requests, LoadHistory(r) \/ ModelReturns(r) PROVE UserInv'
  <2>1. /\ UNCHANGED <<session, billed>> /\ pc[r] \in Spending
        /\ \E p \in {"calling", "charging"} : Goto(r, p)
    BY <1>5 DEF LoadHistory, ModelReturns, usageVars, Spending
  <2> QED
    BY <1>2, <2>1 DEF Phase, Serving
<1>6. CASE Crash
  <2>1. UNCHANGED <<session, billed>>
    BY <1>6 DEF Crash, usageVars
  <2>2. \A q \in Requests : pc'[q] \in Spending => pc[q] \in Spending
    BY <1>6 DEF Crash, TypeOK, Spending
  <2> QED
    BY <1>1, <2>1, <2>2
<1>7. ASSUME NEW s \in Sessions, ClearMessages(s) \/ DropRow(s) PROVE UserInv'
  BY <1>1, <1>7 DEF ClearMessages, DropRow, usageVars
<1>8. CASE UNCHANGED vars
  BY <1>1, <1>8 DEF vars, usageVars
<1> QED
  BY <1>3, <1>4, <1>5, <1>6, <1>7, <1>8, ChargeKeepsUser DEF Next, ServeStep

(* The policy of a user is overstepped by less than one call of the model  *)
(* for each of the sessions, of which there are finitely many: sessions    *)
(* pass the guard together, but the lock lets each of them pass it once.   *)
THEOREM UserBudgetKept == ASSUME IsFiniteSet(Sessions) PROVE Spec => []UserBudget
<1>1. Init => UserInv
  BY DEF Init, UserInv, Spenders, Spending
<1>2. Inv /\ TypeOK' /\ OneAtATime /\ UserInv /\ [Next]_vars => UserInv'
  <2>1. ASSUME UserInv, UNCHANGED vars PROVE UserInv'
    BY <2>1 DEF vars, usageVars, UserInv, Spenders
  <2> QED
    BY <2>1, NextKeepsUser
<1>3. Inv /\ UserInv => UserBudget
  <2> SUFFICES ASSUME TypeOK, UserInv, billed > 0
               PROVE  billed < UserMax + Cardinality(Sessions) * MostTokens
    BY DEF Inv, UserBudget
  <2> DEFINE n == Cardinality(Spenders)
             k == Cardinality(Sessions)
  <2>1. n \in Nat /\ k \in Nat
    BY SpendersFinite
  <2>2. n * MostTokens \in Nat /\ k * MostTokens \in Nat /\ billed \in Nat /\ UserMax \in Nat
    BY <2>1, TimesMonotone DEF TypeOK
  <2>3. billed + n * MostTokens < UserMax + k * MostTokens
    BY DEF UserInv
  <2> HIDE DEF n, k
  <2>4. billed < UserMax + k * MostTokens
    BY <2>2, <2>3
  <2> QED
    BY <2>4 DEF k
<1> QED
  BY <1>1, <1>2, <1>3, InvHolds, GatewayTyped, TurnsExclusive, PTL DEF Spec

-----------------------------------------------------------------------------
(* The conversation *)

Asking == {"checking", "loading", "calling", "charging", "answering"}
Recalling == {"calling", "charging", "answering"}

Dialogue(log) ==
  \A i \in DOMAIN log : log[i].role # "user" =>
    i > 1 /\ log[i - 1] = Question(log[i].by)

AskedLast(log, r) == log # << >> /\ log[Len(log)] = Question(r)

(* From its question to its answer, the question of the request inside is  *)
(* the last message of its session: no other request stores one meanwhile. *)
(* A session without a row has no messages, and nobody talks there.        *)
DialogInv ==
  /\ AnswerFollowsQuestion
  /\ HistoryIsPast
  /\ \A s \in Sessions : row[s] = "none" => msgs[s] = << >>
  /\ \A r \in Requests : pc[r] \in Asking \cup {"asking"} => row[session[r]] # "none"
  /\ \A r \in Requests :
       pc[r] \in Asking /\ row[session[r]] = "live" => AskedLast(msgs[session[r]], r)

LEMMA QuestionType ==
  ASSUME NEW r \in Requests
  PROVE  Question(r) \in Message /\ Question(r).role = "user"
BY DEF Question, Message

LEMMA DialogueGrows ==
  ASSUME NEW log \in Seq(Message), NEW m \in Message, Dialogue(log),
         m.role = "user" \/ AskedLast(log, m.by)
  PROVE  Dialogue(Append(log, m))
<1> DEFINE ext == Append(log, m)
<1>1. /\ ext \in Seq(Message) /\ Len(ext) = Len(log) + 1
      /\ \A i \in 1 .. Len(log) : ext[i] = log[i]
      /\ ext[Len(log) + 1] = m
  BY AppendProperties
<1>2. Len(log) \in Nat /\ DOMAIN log = 1 .. Len(log) /\ DOMAIN ext = 1 .. Len(log) + 1
  BY <1>1, LenProperties
<1> HIDE DEF ext
<1> SUFFICES ASSUME NEW i \in 1 .. Len(log) + 1, ext[i].role # "user"
             PROVE  i > 1 /\ ext[i - 1] = Question(ext[i].by)
  BY <1>2 DEF Dialogue, ext
<1>3. CASE i \in 1 .. Len(log)
  <2>1. i > 1 /\ log[i - 1] = Question(log[i].by)
    BY <1>1, <1>2, <1>3 DEF Dialogue
  <2>2. i - 1 \in 1 .. Len(log)
    BY <1>2, <1>3, <2>1
  <2> QED
    BY <1>1, <1>3, <2>1, <2>2
<1>4. CASE i = Len(log) + 1
  <2>1. ext[i] = m /\ log # << >> /\ log[Len(log)] = Question(m.by)
    BY <1>1, <1>4 DEF AskedLast
  <2>2. Len(log) \in 1 .. Len(log) /\ i > 1 /\ i - 1 = Len(log)
    BY <1>2, <1>4, <2>1, EmptySeq
  <2> QED
    BY <1>1, <2>1, <2>2
<1> QED
  BY <1>2, <1>3, <1>4

LEMMA AskedNow ==
  ASSUME NEW log \in Seq(Message), NEW r \in Requests
  PROVE  AskedLast(Append(log, Question(r)), r)
BY AppendProperties, QuestionType DEF AskedLast

(* Dropping the last message leaves what was said before the question. *)
LEMMA PastAndQuestion ==
  ASSUME NEW log \in Seq(Message), NEW r \in Requests, AskedLast(log, r)
  PROVE  log = Append(BeforeLast(log), Question(r))
<1>1. PICK past \in Seq(Message), m \in Message : log = Append(past, m)
  BY SequenceEmptyOrAppend DEF AskedLast
<1>2. /\ Len(log) = Len(past) + 1 /\ log[Len(log)] = m
      /\ \A i \in 1 .. Len(past) : log[i] = past[i]
      /\ Len(past) \in Nat
  BY <1>1, AppendProperties, LenProperties
<1>3. BeforeLast(log) = SubSeq(log, 1, Len(past))
  BY <1>2 DEF BeforeLast, AskedLast
<1>4. /\ SubSeq(log, 1, Len(past)) \in Seq(Message)
      /\ Len(SubSeq(log, 1, Len(past))) = Len(past)
      /\ \A i \in 1 .. Len(past) : SubSeq(log, 1, Len(past))[i] = past[i]
  <2>1. \A i \in 1 .. Len(past) : log[i] \in Message
    BY <1>2, ElementOfSeq
  <2> QED
    BY <1>2, <2>1, SubSeqProperties
<1>5. BeforeLast(log) = past
  BY <1>3, <1>4, SeqEqual
<1> QED
  BY <1>1, <1>2, <1>5 DEF AskedLast

(* Nothing is said, no session comes or goes, and nobody gets further. *)
LEMMA Quiet ==
  ASSUME DialogInv, UNCHANGED <<session, row, msgs>>,
         spent.fault > 0 => spent'.fault > 0,
         \A q \in Requests :
           /\ pc'[q] \in Asking => pc[q] \in Asking
           /\ pc'[q] \in Asking \cup {"asking"} => pc[q] \in Asking \cup {"asking"}
           /\ pc'[q] \in Recalling => pc[q] \in Recalling /\ history'[q] = history[q]
  PROVE  DialogInv'
BY DEF DialogInv, AnswerFollowsQuestion, HistoryIsPast, Recalling

LEMMA FaultsAdd ==
  ASSUME TypeOK, Fault
  PROVE  spent'.fault > 0
<1>1. spent \in Spent /\ spent.fault \in Nat
  BY DEF TypeOK, Spent
<1>2. spent'.fault = spent.fault + 1
  BY <1>1 DEF Fault, Spent
<1> QED
  BY <1>1, <1>2

(* A request that moves on without a word. *)
LEMMA QuietMove ==
  ASSUME TypeOK, DialogInv, UNCHANGED <<session, row, msgs>>, Fault \/ UNCHANGED spent,
         NEW r \in Requests, NEW p, pc' = [pc EXCEPT ![r] = p],
         \/ p \notin Asking \cup {"asking"}
         \/ p = "loading" /\ pc[r] = "checking"
         \/ p \in Recalling /\ pc[r] \in Recalling /\ history' = history,
         \A q \in Requests \ {r} : history'[q] = history[q]
  PROVE  DialogInv'
<1>1. spent.fault > 0 => spent'.fault > 0
  BY FaultsAdd
<1>2. ASSUME NEW q \in Requests
      PROVE  /\ pc'[q] \in Asking => pc[q] \in Asking
             /\ pc'[q] \in Asking \cup {"asking"} => pc[q] \in Asking \cup {"asking"}
             /\ pc'[q] \in Recalling => pc[q] \in Recalling /\ history'[q] = history[q]
  <2>1. CASE q = r
    BY <2>1 DEF TypeOK, Asking, Recalling
  <2>2. CASE q # r
    BY <2>2 DEF TypeOK
  <2> QED
    BY <2>1, <2>2
<1> QED
  BY <1>1, <1>2, Quiet

LEMMA OpenKeepsDialog ==
  ASSUME TypeOK, DialogInv, NEW r \in Requests, OpenSession(r)
  PROVE  DialogInv'
<1>1. session[r] \in Sessions /\ pc[r] = "opening" /\ UNCHANGED <<session, msgs, spent>>
  BY DEF OpenSession, TypeOK
<1>2. CASE row[session[r]] = "deleted"
  <2>1. /\ UNCHANGED row
        /\ pc' = [pc EXCEPT ![r] = "leaving"] /\ history' = [history EXCEPT ![r] = << >>]
    BY <1>2 DEF OpenSession, Return, Goto
  <2> QED
    BY <1>1, <2>1, QuietMove DEF Asking, TypeOK
<1>3. CASE row[session[r]] \notin {"deleted", "none"}
  <2>1. /\ row' = row /\ history' = history
        /\ pc' = [pc EXCEPT ![r] = "asking"]
    BY <1>1, <1>3 DEF OpenSession, Goto, callVars, TypeOK
  <2>2. \A q \in Requests : q # r => pc'[q] = pc[q]
    BY <2>1 DEF TypeOK
  <2>3. pc'[r] = "asking"
    BY <2>1 DEF TypeOK
  <2> QED
    BY <1>1, <1>3, <2>1, <2>2, <2>3
       DEF DialogInv, AnswerFollowsQuestion, HistoryIsPast, Asking
<1>4. CASE row[session[r]] = "none"
  <2> DEFINE s == session[r]
  <2>1. /\ row' = [row EXCEPT ![s] = "live"] /\ history' = history
        /\ pc' = [pc EXCEPT ![r] = "asking"]
    BY <1>1, <1>4 DEF OpenSession, Goto, callVars
  <2>2. /\ \A q \in Requests : q # r => pc'[q] = pc[q]
        /\ pc'[r] = "asking"
        /\ row'[s] = "live" /\ \A t \in Sessions : t # s => row'[t] = row[t]
    BY <1>1, <2>1 DEF TypeOK
  <2>3. \A q \in Requests : pc'[q] \in Asking => session[q] # s /\ session[q] \in Sessions
    BY <1>1, <1>4, <2>2 DEF DialogInv, TypeOK, Asking
  <2>4. msgs[s] = << >>
    BY <1>1, <1>4 DEF DialogInv
  <2>5. AnswerFollowsQuestion'
    <3> SUFFICES ASSUME NEW t \in Sessions, row'[t] = "live"
                 PROVE  Dialogue(msgs[t])
      BY <1>1 DEF AnswerFollowsQuestion, Dialogue
    <3>1. CASE t = s
      BY <2>4, <3>1, EmptySeq DEF Dialogue
    <3>2. CASE t # s
      BY <2>2, <3>2 DEF DialogInv, AnswerFollowsQuestion, Dialogue
    <3> QED
      BY <3>1, <3>2
  <2>6. HistoryIsPast'
    BY <1>1, <2>1, <2>2, <2>3 DEF DialogInv, HistoryIsPast, Asking
  <2>7. \A t \in Sessions : row'[t] = "none" => msgs'[t] = << >>
    BY <1>1, <2>2 DEF DialogInv
  <2>8. \A q \in Requests : pc'[q] \in Asking \cup {"asking"} => row'[session'[q]] # "none"
    BY <1>1, <2>2 DEF DialogInv, TypeOK
  <2>9. \A q \in Requests :
          pc'[q] \in Asking /\ row'[session'[q]] = "live" => AskedLast(msgs'[session'[q]], q)
    BY <1>1, <2>2, <2>3 DEF DialogInv, Asking
  <2> QED
    BY <2>5, <2>6, <2>7, <2>8, <2>9 DEF DialogInv
<1> QED
  BY <1>2, <1>3, <1>4

(* The request inside is the only one that talks. *)
LEMMA OthersSilent ==
  ASSUME OneAtATime, NEW r \in Requests, NEW q \in Requests, pc[r] \in Serving,
         pc[q] \in Asking, q # r
  PROVE  session[q] # session[r]
BY DEF OneAtATime, Serving, Asking

LEMMA AskKeepsDialog ==
  ASSUME TypeOK, OneAtATime, DialogInv, NEW r \in Requests, Ask(r)
  PROVE  DialogInv'
<1> DEFINE s == session[r]
           m == Question(r)
<1>1. /\ s \in Sessions /\ msgs[s] \in Seq(Message) /\ pc[r] = "asking"
      /\ msgs' = [msgs EXCEPT ![s] = Append(msgs[s], m)]
      /\ pc' = [pc EXCEPT ![r] = "checking"]
      /\ UNCHANGED <<session, row, history, spent>>
  BY DEF Ask, Store, Goto, TypeOK
<1>2. /\ pc'[r] = "checking" /\ \A q \in Requests : q # r => pc'[q] = pc[q]
      /\ msgs'[s] = Append(msgs[s], m)
      /\ \A t \in Sessions : t # s => msgs'[t] = msgs[t]
  BY <1>1 DEF TypeOK
<1>3. \A q \in Requests : q # r /\ pc'[q] \in Asking => session[q] # s
  BY <1>1, <1>2, OthersSilent DEF Serving
<1>4. \A q \in Requests : session[q] \in Sessions
  BY DEF TypeOK
<1>5. AnswerFollowsQuestion'
  <2> SUFFICES ASSUME NEW t \in Sessions, row[t] = "live"
               PROVE  Dialogue(msgs'[t])
    BY <1>1 DEF AnswerFollowsQuestion, Dialogue
  <2>1. Dialogue(msgs[t])
    BY DEF DialogInv, AnswerFollowsQuestion, Dialogue
  <2>2. CASE t = s
    BY <1>1, <1>2, <2>1, <2>2, DialogueGrows, QuestionType
  <2>3. CASE t # s
    BY <1>2, <2>1, <2>3
  <2> QED
    BY <2>2, <2>3
<1>6. HistoryIsPast'
  BY <1>1, <1>2, <1>3, <1>4 DEF DialogInv, HistoryIsPast, Asking
<1>7. \A t \in Sessions : row'[t] = "none" => msgs'[t] = << >>
  BY <1>1, <1>2 DEF DialogInv
<1>8. \A q \in Requests : pc'[q] \in Asking \cup {"asking"} => row'[session'[q]] # "none"
  BY <1>1, <1>2 DEF DialogInv, TypeOK
<1>9. \A q \in Requests :
        pc'[q] \in Asking /\ row'[session'[q]] = "live" => AskedLast(msgs'[session'[q]], q)
  BY <1>1, <1>2, <1>3, <1>4, AskedNow DEF DialogInv
<1> QED
  BY <1>5, <1>6, <1>7, <1>8, <1>9 DEF DialogInv

LEMMA LoadKeepsDialog ==
  ASSUME TypeOK, DialogInv, NEW r \in Requests, LoadHistory(r)
  PROVE  DialogInv'
<1> DEFINE s == session[r]
<1>1. /\ s \in Sessions /\ msgs[s] \in Seq(Message) /\ pc[r] = "loading"
      /\ pc' = [pc EXCEPT ![r] = "calling"]
      /\ UNCHANGED <<session, row, msgs>>
  BY DEF LoadHistory, Goto, TypeOK
<1>2. /\ pc'[r] = "calling" /\ \A q \in Requests : q # r => pc'[q] = pc[q]
      /\ \A q \in Requests : q # r => history'[q] = history[q]
  BY <1>1 DEF LoadHistory, TypeOK
<1>3. spent.fault > 0 => spent'.fault > 0
  BY FaultsAdd DEF LoadHistory
<1>4. row[s] = "live" =>
        \/ msgs[s] = Append(history'[r], Question(r))
        \/ history'[r] = << >> /\ spent'.fault > 0
  <2>1. \/ history'[r] = BeforeLast(msgs[s])
        \/ history'[r] = << >> /\ Fault
    BY DEF LoadHistory, TypeOK
  <2>2. row[s] = "live" => AskedLast(msgs[s], r)
    BY <1>1 DEF DialogInv, Asking
  <2> QED
    BY <1>1, <2>1, <2>2, PastAndQuestion, FaultsAdd
<1>5. HistoryIsPast'
  BY <1>1, <1>2, <1>3, <1>4 DEF DialogInv, HistoryIsPast
<1> QED
  BY <1>1, <1>2, <1>5 DEF DialogInv, AnswerFollowsQuestion, Asking

LEMMA AnswerKeepsDialog ==
  ASSUME TypeOK, ReplyKnown, OneAtATime, DialogInv, NEW r \in Requests, Answer(r)
  PROVE  DialogInv'
<1> DEFINE s == session[r]
           m == [role |-> reply[r].role, by |-> r]
<1>1. /\ s \in Sessions /\ msgs[s] \in Seq(Message) /\ pc[r] = "answering"
      /\ pc' = [pc EXCEPT ![r] = "leaving"]
      /\ UNCHANGED <<session, row>>
      /\ history' = [history EXCEPT ![r] = << >>]
  BY DEF Answer, Return, Goto, TypeOK
<1>2. CASE UNCHANGED msgs
  BY <1>1, <1>2, QuietMove DEF Answer, Asking, TypeOK
<1>3. CASE msgs' = [msgs EXCEPT ![s] = Append(msgs[s], m)] /\ UNCHANGED spent
  <2>1. /\ pc'[r] = "leaving" /\ \A q \in Requests : q # r => pc'[q] = pc[q]
        /\ msgs'[s] = Append(msgs[s], m)
        /\ \A t \in Sessions : t # s => msgs'[t] = msgs[t]
        /\ \A q \in Requests : q # r => history'[q] = history[q]
    BY <1>1, <1>3 DEF TypeOK
  <2>2. \A q \in Requests : pc'[q] \in Asking => pc[q] \in Asking /\ q # r /\ session[q] # s
    <3>1. \A q \in Requests : pc'[q] \in Asking => pc[q] \in Asking /\ q # r
      BY <2>1 DEF Asking
    <3> QED
      BY <1>1, <3>1, OthersSilent DEF Serving
  <2>3. \A q \in Requests : session[q] \in Sessions
    BY DEF TypeOK
  <2>4. m \in Message /\ m.by = r
    <3>1. reply[r] # NoReply
      BY <1>1 DEF ReplyKnown
    <3> QED
      BY <3>1 DEF TypeOK, Reply, Message
  <2>5. AnswerFollowsQuestion'
    <3> SUFFICES ASSUME NEW t \in Sessions, row[t] = "live"
                 PROVE  Dialogue(msgs'[t])
      BY <1>1 DEF AnswerFollowsQuestion, Dialogue
    <3>1. Dialogue(msgs[t])
      BY DEF DialogInv, AnswerFollowsQuestion, Dialogue
    <3>2. CASE t = s
      <4>1. AskedLast(msgs[s], r)
        BY <1>1, <3>2 DEF DialogInv, Asking
      <4> QED
        BY <1>1, <2>1, <2>4, <3>1, <3>2, <4>1, DialogueGrows
    <3>3. CASE t # s
      BY <2>1, <3>1, <3>3
    <3> QED
      BY <3>2, <3>3
  <2>6. HistoryIsPast'
    BY <1>1, <1>3, <2>1, <2>2, <2>3 DEF DialogInv, HistoryIsPast, Asking
  <2>7. \A t \in Sessions : row'[t] = "none" => msgs'[t] = << >>
    <3>1. row[s] # "none"
      BY <1>1 DEF DialogInv, Asking
    <3> QED
      BY <1>1, <2>1, <3>1 DEF DialogInv
  <2>8. \A q \in Requests : pc'[q] \in Asking \cup {"asking"} => row'[session'[q]] # "none"
    BY <1>1, <2>1 DEF DialogInv, Asking
  <2>9. \A q \in Requests :
          pc'[q] \in Asking /\ row'[session'[q]] = "live" => AskedLast(msgs'[session'[q]], q)
    BY <1>1, <2>1, <2>2, <2>3 DEF DialogInv
  <2> QED
    BY <2>5, <2>6, <2>7, <2>8, <2>9 DEF DialogInv
<1> QED
  BY <1>2, <1>3 DEF Answer, Store

LEMMA DeleteKeepsDialog ==
  ASSUME TypeOK, DialogInv, NEW s \in Sessions, ClearMessages(s) \/ DropRow(s)
  PROVE  DialogInv'
<1>1. /\ UNCHANGED <<pc, session, history>>
      /\ row[s] # "none" /\ row'[s] \in {"clearing", "emptied", "deleted"}
      /\ \A t \in Sessions : t # s => row'[t] = row[t] /\ msgs'[t] = msgs[t]
  BY DEF ClearMessages, DropRow, TypeOK, callVars
<1>2. \A q \in Requests : session[q] \in Sessions
  BY DEF TypeOK
<1>3. spent.fault > 0 => spent'.fault > 0
  BY FaultsAdd DEF ClearMessages, DropRow, TypeOK
<1>4. AnswerFollowsQuestion'
  BY <1>1 DEF DialogInv, AnswerFollowsQuestion
<1>5. HistoryIsPast'
  BY <1>1, <1>2, <1>3 DEF DialogInv, HistoryIsPast
<1> QED
  BY <1>1, <1>2, <1>4, <1>5 DEF DialogInv

LEMMA CrashKeepsDialog ==
  ASSUME TypeOK, DialogInv, Crash
  PROVE  DialogInv'
<1>1. \A q \in Requests : pc'[q] \notin Asking \cup {"asking"}
  BY DEF Crash, Asking
<1>2. /\ UNCHANGED <<session, msgs>>
      /\ \A s \in Sessions :
           row'[s] = row[s] \/ (row[s] = "clearing" /\ row'[s] = "emptied")
  BY DEF Crash
<1>3. AnswerFollowsQuestion'
  BY <1>2 DEF DialogInv, AnswerFollowsQuestion
<1>4. HistoryIsPast'
  BY <1>1 DEF HistoryIsPast, Asking
<1> QED
  BY <1>1, <1>2, <1>3, <1>4 DEF DialogInv

LEMMA NextKeepsDialog ==
  ASSUME Inv, OneAtATime, DialogInv, Next
  PROVE  DialogInv'
<1>0. TypeOK /\ ReplyKnown
  BY DEF Inv
<1>1. ASSUME NEW r \in Requests,
             LockEntry(r) \/ LockMutex(r) \/ UnlockEntry(r) \/ UnlockMutex(r)
      PROVE  DialogInv'
  <2>1. /\ UNCHANGED <<session, row, msgs, history, spent>>
        /\ \E p \in {"waiting", "opening", "unlocking", "done"} : pc' = [pc EXCEPT ![r] = p]
    BY <1>1 DEF LockEntry, LockMutex, UnlockEntry, UnlockMutex, Goto, callVars
  <2> QED
    BY <1>0, <2>1, QuietMove DEF Asking
<1>2. ASSUME NEW r \in Requests, PrepareFails(r) \/ StreamBreaks(r)
      PROVE  DialogInv'
  <2>1. /\ UNCHANGED <<session, row, msgs>> /\ (Fault \/ UNCHANGED spent)
        /\ pc' = [pc EXCEPT ![r] = "leaving"]
        /\ history' = [history EXCEPT ![r] = << >>]
    BY <1>2 DEF PrepareFails, StreamBreaks, Return, Goto
  <2> QED
    BY <1>0, <2>1, QuietMove DEF Asking, TypeOK
<1>3. ASSUME NEW r \in Requests, CheckBudget(r)
      PROVE  DialogInv'
  <2>1. UNCHANGED <<session, row, msgs, spent>> /\ pc[r] = "checking"
    BY <1>3 DEF CheckBudget
  <2>2. CASE Return(r, "blocked")
    BY <1>0, <2>1, <2>2, QuietMove DEF Return, Goto, Asking, TypeOK
  <2>3. CASE Goto(r, "loading") /\ UNCHANGED <<result, callVars>>
    BY <1>0, <2>1, <2>3, QuietMove DEF Goto, callVars
  <2> QED
    BY <1>3, <2>2, <2>3 DEF CheckBudget
<1>4. ASSUME NEW r \in Requests, ModelReturns(r) \/ Charge(r)
      PROVE  DialogInv'
  <2>1. /\ UNCHANGED <<session, row, msgs, history>> /\ (Fault \/ UNCHANGED spent)
        /\ pc[r] \in Recalling
        /\ \E p \in Recalling : pc' = [pc EXCEPT ![r] = p]
    BY <1>4 DEF ModelReturns, Charge, Goto, Recalling, callVars
  <2> QED
    BY <1>0, <2>1, QuietMove
<1>5. CASE UNCHANGED vars
  BY <1>5, Quiet DEF vars, callVars
<1> QED
  BY <1>0, <1>1, <1>2, <1>3, <1>4, <1>5, OpenKeepsDialog, AskKeepsDialog, LoadKeepsDialog,
     AnswerKeepsDialog, DeleteKeepsDialog, CrashKeepsDialog
     DEF Next, ServeStep

LEMMA DialogHolds == Spec => []DialogInv
<1>1. Init => DialogInv
  BY EmptySeq DEF Init, DialogInv, AnswerFollowsQuestion, HistoryIsPast, Asking
<1>2. Inv /\ OneAtATime /\ DialogInv /\ [Next]_vars => DialogInv'
  <2>1. ASSUME DialogInv, UNCHANGED vars PROVE DialogInv'
    BY <2>1, Quiet DEF vars, callVars
  <2> QED
    BY <2>1, NextKeepsDialog
<1> QED
  BY <1>1, <1>2, InvHolds, TurnsExclusive, PTL DEF Spec

(* An answer is stored right after its question, whatever other channels,  *)
(* crashes and failing statements come between the two: in a session whose *)
(* messages were never deleted.                                            *)
THEOREM AnswersFollow == Spec => []AnswerFollowsQuestion
<1>1. DialogInv => AnswerFollowsQuestion
  BY DEF DialogInv
<1> QED
  BY <1>1, DialogHolds, PTL

(* The model is given exactly what was said before the question, or, after *)
(* a failed read, nothing: the last message that loadChatHistory drops is  *)
(* the question.                                                           *)
THEOREM HistoryKnown == Spec => []HistoryIsPast
<1>1. DialogInv => HistoryIsPast
  BY DEF DialogInv
<1> QED
  BY <1>1, DialogHolds, PTL
-----------------------------------------------------------------------------
(* The refinement: each step of the gateway is a step of SessionTurns, or  *)
(* none for it                                                             *)

LEMMA TheTalker ==
  ASSUME NEW r
  PROVE  Talker({r}) = r /\ Talker({}) = NoOne
BY DEF Talker

(* The turns after the step of one request. *)
LEMMA TurnsMove ==
  ASSUME TypeOK, NEW r \in Requests, NEW p \in Phase, Goto(r, p), UNCHANGED session
  PROVE  /\ [q \in Requests |-> Seen(pc'[q])]
              = [[q \in Requests |-> Seen(pc[q])] EXCEPT ![r] = Seen(p)]
         /\ \A s \in Sessions \ {session[r]} : Inside(s)' = Inside(s)
         /\ (p \in Serving <=> pc[r] \in Serving) => Inside(session[r])' = Inside(session[r])
         /\ p \in Serving => Inside(session[r])' = Inside(session[r]) \cup {r}
         /\ p \notin Serving => Inside(session[r])' = Inside(session[r]) \ {r}
<1>1. pc'[r] = p /\ \A q \in Requests \ {r} : pc'[q] = pc[q]
  BY DEF Goto, TypeOK
<1> QED
  BY <1>1 DEF Inside

(* The turns as sets of those inside. *)
LEMMA StutterMaps ==
  ASSUME [q \in Requests |-> Seen(pc'[q])] = [q \in Requests |-> Seen(pc[q])],
         UNCHANGED session, \A s \in Sessions : Inside(s)' = Inside(s)
  PROVE  UNCHANGED Turns!turnVars
BY DEF Turns!turnVars

LEMMA ComeInMaps ==
  ASSUME TypeOK, NEW r \in Requests, LockEntry(r)
  PROVE  Turns!ComeIn(r)
<1>1. /\ "waiting" \in Phase /\ Goto(r, "waiting") /\ UNCHANGED session /\ pc[r] = "new"
      /\ "waiting" \notin Serving /\ "new" \notin Serving
      /\ session[r] \in Sessions
  BY DEF LockEntry, Phase, Serving, TypeOK
<1>2. \A s \in Sessions : Inside(s)' = Inside(s)
  BY <1>1, TurnsMove
<1>3. Seen("new") = "new" /\ Seen("waiting") = "queued"
  BY DEF Seen, Serving
<1>4. [q \in Requests |-> Seen(pc'[q])]
        = [[q \in Requests |-> Seen(pc[q])] EXCEPT ![r] = "queued"]
  BY <1>1, <1>3, TurnsMove
<1> QED
  BY <1>1, <1>2, <1>3, <1>4 DEF Turns!ComeIn

(* The mutex was free, so nobody was inside. *)
LEMMA BeginMaps ==
  ASSUME Inv, NEW r \in Requests, LockMutex(r)
  PROVE  Turns!Begin(r)
<1>1. /\ "opening" \in Phase /\ Goto(r, "opening") /\ UNCHANGED session /\ pc[r] = "waiting"
      /\ "opening" \in Serving /\ session[r] \in Sessions /\ held[mine[r]] = NoOne
  BY DEF LockMutex, Phase, Serving, Inv, TypeOK
<1>2. Inside(session[r]) = {}
  <2> SUFFICES ASSUME NEW q \in Requests, session[q] = session[r], pc[q] \in Serving
               PROVE  FALSE
    BY DEF Inside
  <2>1. mine[q] = mine[r]
    BY <1>1 DEF Inv, LockInv, UsersShare, Using
  <2> QED
    BY <1>1, <2>1, NoOneAssumption DEF Inv, LockInv, InsideHolds
<1>3. Inside(session[r])' = {r} /\ \A s \in Sessions \ {session[r]} : Inside(s)' = Inside(s)
  BY <1>1, <1>2, TurnsMove DEF Inv
<1>4. Seen("waiting") = "queued" /\ Seen("opening") = "talking"
  BY DEF Seen, Serving
<1>5. [q \in Requests |-> Seen(pc'[q])]
        = [[q \in Requests |-> Seen(pc[q])] EXCEPT ![r] = "talking"]
  BY <1>1, <1>4, TurnsMove DEF Inv
<1>6. [s \in Sessions |-> Talker(Inside(s)')]
        = [[s \in Sessions |-> Talker(Inside(s))] EXCEPT ![session[r]] = r]
  BY <1>1, <1>3, TheTalker
<1> QED
  BY <1>1, <1>2, <1>4, <1>5, <1>6, TheTalker DEF Turns!Begin

LEMMA EndMaps ==
  ASSUME Inv, OneAtATime, NEW r \in Requests, UnlockEntry(r)
  PROVE  Turns!End(r)
<1>1. /\ "unlocking" \in Phase /\ Goto(r, "unlocking") /\ UNCHANGED session
      /\ pc[r] = "leaving" /\ "leaving" \in Serving
      /\ "unlocking" \notin Serving /\ session[r] \in Sessions
  BY DEF UnlockEntry, Phase, Serving, Inv, TypeOK
<1>2. Inside(session[r]) = {r}
  BY <1>1 DEF Inside, OneAtATime
<1>3. Inside(session[r])' = {} /\ \A s \in Sessions \ {session[r]} : Inside(s)' = Inside(s)
  BY <1>1, <1>2, TurnsMove DEF Inv
<1>4. Seen("leaving") = "talking" /\ Seen("unlocking") = "leaving"
  BY DEF Seen, Serving
<1>5. [q \in Requests |-> Seen(pc'[q])]
        = [[q \in Requests |-> Seen(pc[q])] EXCEPT ![r] = "leaving"]
  BY <1>1, <1>4, TurnsMove DEF Inv
<1>6. [s \in Sessions |-> Talker(Inside(s)')]
        = [[s \in Sessions |-> Talker(Inside(s))] EXCEPT ![session[r]] = NoOne]
  BY <1>1, <1>3, TheTalker
<1> QED
  BY <1>1, <1>4, <1>5, <1>6 DEF Turns!End

LEMMA LeaveMaps ==
  ASSUME TypeOK, NEW r \in Requests, UnlockMutex(r)
  PROVE  Turns!Leave(r)
<1>1. /\ "done" \in Phase /\ Goto(r, "done") /\ UNCHANGED session /\ pc[r] = "unlocking"
      /\ "done" \notin Serving /\ "unlocking" \notin Serving
      /\ session[r] \in Sessions
  BY DEF UnlockMutex, Phase, Serving, TypeOK
<1>2. \A s \in Sessions : Inside(s)' = Inside(s)
  BY <1>1, TurnsMove
<1>3. Seen("done") = "done" /\ Seen("unlocking") = "leaving"
  BY DEF Seen, Serving
<1>4. [q \in Requests |-> Seen(pc'[q])]
        = [[q \in Requests |-> Seen(pc[q])] EXCEPT ![r] = "done"]
  BY <1>1, <1>3, TurnsMove
<1> QED
  BY <1>1, <1>2, <1>3, <1>4 DEF Turns!Leave

LEMMA InTurnMaps ==
  ASSUME TypeOK, NEW r \in Requests, InTurn(r)
  PROVE  UNCHANGED Turns!turnVars
<1>1. pc[r] \in Serving /\ UNCHANGED session /\ session[r] \in Sessions
  BY DEF InTurn, OpenSession, Ask, CheckBudget, LoadHistory, PrepareFails, ModelReturns,
         StreamBreaks, Charge, Answer, Serving, TypeOK
<1>2. PICK p \in Serving : Goto(r, p)
  BY DEF InTurn, OpenSession, Ask, CheckBudget, LoadHistory, PrepareFails, ModelReturns,
         StreamBreaks, Charge, Answer, Return, Serving
<1>3. p \in Phase
  BY DEF Phase
<1>4. Seen(p) = "talking" /\ Seen(pc[r]) = "talking"
  BY <1>1 DEF Seen, Serving
<1>5. [q \in Requests |-> Seen(pc'[q])]
        = [[q \in Requests |-> Seen(pc[q])] EXCEPT ![r] = Seen(p)]
  BY <1>1, <1>2, <1>3, TurnsMove
<1>6. \A s \in Sessions : Inside(s)' = Inside(s)
  BY <1>1, <1>2, <1>3, TurnsMove
<1> QED
  BY <1>1, <1>4, <1>5, <1>6, StutterMaps

LEMMA CrashMaps ==
  ASSUME TypeOK, Crash
  PROVE  Turns!Lose
<1>1. UNCHANGED session /\ \A q \in Requests :
        pc'[q] = IF pc[q] \in {"new", "done"} THEN pc[q] ELSE "lost"
  BY DEF Crash
<1>2. \A s \in Sessions : Inside(s)' = {}
  BY <1>1 DEF Inside, Serving
<1>3. Seen("new") = "new" /\ Seen("done") = "done" /\ Seen("lost") = "lost"
  BY DEF Seen, Serving
<1>4. \A q \in Requests : pc[q] \notin {"new", "done"} => Seen(pc[q]) \notin {"new", "done"}
  BY DEF TypeOK, Phase, Seen
<1>5. \A q \in Requests :
        Seen(pc'[q]) = IF Seen(pc[q]) \in {"new", "done"} THEN Seen(pc[q]) ELSE "lost"
  BY <1>1, <1>3, <1>4
<1> QED
  BY <1>1, <1>2, <1>5, TheTalker DEF Turns!Lose, Turns!NoTurn

(* The gateway implements SessionTurns, fairness aside: a request is inside*)
(* only in its turn, and no step of a session, of a deletion or of another *)
(* channel takes the turn away; a restart loses who was under way.         *)
THEOREM TurnsImplemented == Spec => Turns!TurnSteps
<1>1. Init => Turns!TurnInit
  <2> SUFFICES ASSUME Init PROVE Turns!TurnInit
    OBVIOUS
  <2>1. Seen("new") = "new" /\ "new" \notin Serving
    BY DEF Seen, Serving
  <2>2. \A s \in Sessions : Inside(s) = {}
    BY <2>1 DEF Init, Inside
  <2> QED
    BY <2>1, <2>2, TheTalker DEF Init, Turns!TurnInit, Turns!NoTurn
<1>2. Inv /\ OneAtATime /\ [Next]_vars => [Turns!TurnNext]_(Turns!turnVars)
  <2> SUFFICES ASSUME Inv, OneAtATime, [Next]_vars
               PROVE  Turns!TurnNext \/ UNCHANGED Turns!turnVars
    OBVIOUS
  <2>0. TypeOK
    BY DEF Inv
  <2>1. ASSUME UNCHANGED <<pc, session>> PROVE UNCHANGED Turns!turnVars
    BY <2>1, StutterMaps DEF Inside
  <2>2. (UNCHANGED vars \/ \E s \in Sessions : ClearMessages(s) \/ DropRow(s))
          => UNCHANGED <<pc, session>>
    BY DEF vars, ClearMessages, DropRow
  <2> QED
    BY <2>0, <2>1, <2>2, ComeInMaps, BeginMaps, EndMaps, LeaveMaps, InTurnMaps, CrashMaps
       DEF Next, ServeStep, InTurn, Turns!TurnNext
<1> QED
  BY <1>1, <1>2, InvHolds, TurnsExclusive, PTL DEF Spec, Turns!TurnSteps
==============================================================================
