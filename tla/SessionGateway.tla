---------------------------- MODULE SessionGateway ----------------------------
(***************************************************************************)
(* Gateway.Run and Gateway.Stream (api/gateway.go): every channel - web,   *)
(* SSE, cron, webhook, recovery, IM - enters a conversation here.  A       *)
(* request takes the lock of its session, stores the user's message,       *)
(* passes the budget guard, loads the history, calls the model, records    *)
(* the tokens and stores the answer, then gives the lock back.             *)
(*                                                                         *)
(* Locks are reference counted: Gateway.mu protects the table, each entry  *)
(* has a mutex of its own, and whoever brings the count to zero drops the  *)
(* entry.  An entry is named here by the request that created it.          *)
(* Deleting a session (api/session.go) takes no lock.  The requests are    *)
(* those of one user; a budget policy limits the user and each session.    *)
(***************************************************************************)
EXTENDS Integers, Sequences, FiniteSets

CONSTANTS
  Requests,      \* calls of Run or Stream; each is made once
  Sessions,      \* session keys
  NoOne,
  MostTokens,    \* what one call of the model costs at most
  UserMax, SessionMax,              \* BudgetPolicy.MaxTokens by scope
  MaxFaults, MaxDeletes, MaxCrashes \* bounds on the environment

ASSUME NoOneAssumption == NoOne \notin Requests
ASSUME LimitsAssumption ==
  {MostTokens, UserMax, SessionMax, MaxFaults, MaxDeletes, MaxCrashes} \subseteq Nat
ASSUME FiniteAssumption == IsFiniteSet(Requests)

VARIABLES
  pc,       \* where a request is in Run or Stream
  session,  \* Request.SessionKey
  stream,   \* the requests that came in through Stream
  result,   \* what the caller gets
  locks,    \* Gateway.locks: session -> entry
  ref,      \* sessionLock.ref
  held,     \* sessionLock.mu: the request inside
  mine,     \* the entry a request waits for or holds
  row,      \* the sessions table
  msgs,     \* the messages table, by session, in created_at order
  history,  \* preparedRun.history
  reply,    \* the text the model returned, and what it cost
  charged,  \* usage_records of a session, summed
  billed,   \* usage_records of the user, summed
  spent     \* what the environment has used of its bounds

lockVars == <<locks, ref, held, mine>>
callVars == <<history, reply>>
usageVars == <<charged, billed>>
vars == <<pc, session, stream, result, lockVars, row, msgs, callVars, usageVars, spent>>

(* Between lockSession and the end of unlockSession.                       *)
Serving == {"opening", "asking", "checking", "loading", "calling",
            "charging", "answering", "leaving"}

Using == Serving \cup {"waiting"}     \* counted in sessionLock.ref

Phase == {"new", "waiting", "unlocking", "done", "lost"} \cup Serving

(* A stored message and the request it belongs to.  How much of an answer  *)
(* the model got to is left out.                                           *)
Message == [role : {"user", "assistant"}, by : Requests]
Question(r) == [role |-> "user", by |-> r]

Tokens == 0 .. MostTokens

NoReply == [role |-> "none", tokens |-> 0]
Reply == {NoReply} \cup [role : {"assistant"}, tokens : Tokens]

TypeOK ==
  /\ pc \in [Requests -> Phase]
  /\ session \in [Requests -> Sessions]
  /\ stream \subseteq Requests
  /\ result \in [Requests -> {"none", "answered", "blocked", "failed", "unopened"}]
  /\ locks \in [Sessions -> Requests \cup {NoOne}]
  /\ ref \in [Requests -> Nat]
  /\ held \in [Requests -> Requests \cup {NoOne}]
  /\ mine \in [Requests -> Requests \cup {NoOne}]
  /\ row \in [Sessions -> {"none", "live", "clearing", "emptied", "deleted"}]
  /\ msgs \in [Sessions -> Seq(Message)]
  /\ history \in [Requests -> Seq(Message)]
  /\ reply \in [Requests -> Reply]
  /\ charged \in [Sessions -> Nat]
  /\ billed \in Nat
  /\ spent \in [fault : 0 .. MaxFaults, delete : 0 .. MaxDeletes, crash : 0 .. MaxCrashes]

NoEntries == [s \in Sessions |-> NoOne]
NoUsers == [r \in Requests |-> 0]
Nobody == [r \in Requests |-> NoOne]

Init ==
  /\ pc = [r \in Requests |-> "new"]
  /\ session \in [Requests -> Sessions]
  /\ stream \in SUBSET Requests
  /\ result = [r \in Requests |-> "none"]
  /\ locks = NoEntries /\ ref = NoUsers /\ held = Nobody /\ mine = Nobody
  /\ row = [s \in Sessions |-> "none"]
  /\ msgs = [s \in Sessions |-> << >>]
  /\ history = [r \in Requests |-> << >>]
  /\ reply = [r \in Requests |-> NoReply]
  /\ charged = [s \in Sessions |-> 0]
  /\ billed = 0
  /\ spent = [fault |-> 0, delete |-> 0, crash |-> 0]

-----------------------------------------------------------------------------
(* Helpers *)

Goto(r, p) == pc' = [pc EXCEPT ![r] = p]

(* Run and Stream return, their variables gone; unlockSession is next. *)
Return(r, what) == /\ Goto(r, "leaving")
                   /\ result' = [result EXCEPT ![r] = what]
                   /\ history' = [history EXCEPT ![r] = << >>]
                   /\ reply' = [reply EXCEPT ![r] = NoReply]

Fault == /\ spent.fault < MaxFaults
         /\ spent' = [spent EXCEPT !.fault = @ + 1]

(* AppendMessage inserts whether or not the session row is still there. *)
Store(r, m) == msgs' = [msgs EXCEPT ![session[r]] = Append(@, m)]

-----------------------------------------------------------------------------
(* The lock of a session *)

(* Fault variant: every request makes an entry of its own. *)
EntryOfOwn(r) == r

(* The entry lockSession finds in the table, or puts there. *)
Entry(r) == IF locks[session[r]] = NoOne THEN r ELSE locks[session[r]]

(* lockSession under Gateway.mu: take or make the entry and count oneself. *)
LockEntry(r) ==
  /\ pc[r] = "new"
  /\ locks' = [locks EXCEPT ![session[r]] = Entry(r)]
  /\ ref' = [ref EXCEPT ![Entry(r)] = @ + 1]
  /\ mine' = [mine EXCEPT ![r] = Entry(r)]
  /\ Goto(r, "waiting")
  /\ UNCHANGED <<session, stream, result, held, row, msgs, callVars, usageVars, spent>>

(* lockSession: sl.mu.Lock returns. *)
LockMutex(r) ==
  /\ pc[r] = "waiting"
  /\ held[mine[r]] = NoOne
  /\ held' = [held EXCEPT ![mine[r]] = r]
  /\ Goto(r, "opening")
  /\ UNCHANGED <<session, stream, result, locks, ref, mine, row, msgs, callVars, usageVars, spent>>

(* Fault variants: the entry goes with its first user, or never. *)
DropsEarly(s) == [locks EXCEPT ![s] = NoOne]
NeverDrops(s) == locks

(* The table once a user of the entry of s has left. *)
Dropped(s) == IF ref[locks[s]] <= 1 THEN [locks EXCEPT ![s] = NoOne] ELSE locks

(* unlockSession under Gateway.mu: the entry is looked up by the key, not  *)
(* remembered since lockSession, and goes with its last user.              *)
UnlockEntry(r) ==
  /\ pc[r] = "leaving"
  /\ LET s == session[r]  sl == locks[s] IN
       /\ mine' = [mine EXCEPT ![r] = sl]
       /\ ref' = IF sl = NoOne THEN ref ELSE [ref EXCEPT ![sl] = @ - 1]
       /\ locks' = IF sl = NoOne THEN locks ELSE Dropped(s)
  /\ Goto(r, "unlocking")
  /\ UNCHANGED <<session, stream, result, held, row, msgs, callVars, usageVars, spent>>

(* unlockSession: sl.mu.Unlock, unless the lookup found nothing. *)
UnlockMutex(r) ==
  /\ pc[r] = "unlocking"
  /\ held' = IF mine[r] = NoOne THEN held ELSE [held EXCEPT ![mine[r]] = NoOne]
  /\ mine' = [mine EXCEPT ![r] = NoOne]
  /\ Goto(r, "done")
  /\ UNCHANGED <<session, stream, result, locks, ref, row, msgs, callVars, usageVars, spent>>

-----------------------------------------------------------------------------
(* prepareRun *)

(* GetOrCreateSession takes the row it finds, or makes one.  A deleted row *)
(* is not found, but its key is still taken (soft delete under a unique    *)
(* index): all three attempts to insert conflict.                          *)
OpenSession(r) ==
  /\ pc[r] = "opening"
  /\ LET s == session[r] IN
       IF row[s] = "deleted"
         THEN Return(r, "unopened") /\ UNCHANGED row
         ELSE /\ Goto(r, "asking")
              /\ row' = [row EXCEPT ![s] = IF @ = "none" THEN "live" ELSE @]
              /\ UNCHANGED <<result, callVars>>
  /\ UNCHANGED <<session, stream, lockVars, msgs, usageVars, spent>>

Ask(r) ==
  /\ pc[r] = "asking"
  /\ Store(r, Question(r))
  /\ Goto(r, "checking")
  /\ UNCHANGED <<session, stream, result, lockVars, row, history, reply, usageVars, spent>>

(* Fault variant: a spent budget still allows one more call. *)
BlockedLate(r) == charged[session[r]] > SessionMax \/ billed > UserMax

(* EvaluateBudgets: a policy blocks once its tokens are used up. *)
Blocked(r) == charged[session[r]] >= SessionMax \/ billed >= UserMax

CheckBudget(r) ==
  /\ pc[r] = "checking"
  /\ IF Blocked(r) THEN Return(r, "blocked")
                   ELSE Goto(r, "loading") /\ UNCHANGED <<result, callVars>>
  /\ UNCHANGED <<session, stream, lockVars, row, msgs, usageVars, spent>>

(* Fault variant: the question is not taken out of the history. *)
HistoryWithQuestion(log) == log

BeforeLast(log) == IF log = << >> THEN << >> ELSE SubSeq(log, 1, Len(log) - 1)

(* loadChatHistory with excludeLast = 1; if it fails the call goes on with *)
(* no history.                                                             *)
LoadHistory(r) ==
  /\ pc[r] = "loading"
  /\ \/ /\ history' = [history EXCEPT ![r] = BeforeLast(msgs[session[r]])]
        /\ UNCHANGED spent
     \/ /\ history' = [history EXCEPT ![r] = << >>]
        /\ Fault
  /\ Goto(r, "calling")
  /\ UNCHANGED <<session, stream, result, lockVars, row, msgs, reply, usageVars>>

(* A statement of the database, the workspace, the model's configuration   *)
(* or the start of the stream fails: the caller gets the error.            *)
PrepareFails(r) ==
  /\ pc[r] \in {"opening", "asking", "checking", "loading", "calling"}
  /\ Fault
  /\ Return(r, "failed")
  /\ UNCHANGED <<session, stream, lockVars, row, msgs, usageVars>>

-----------------------------------------------------------------------------
(* The call of the model and finalize *)

(* The event stream ends.  Whatever ended it, Run goes on to finalize:     *)
(* Engine.Chat skips error events, and a context that is done closes the   *)
(* channel.  Stream does so too when the channel just closes, or the       *)
(* guardrail broke the circuit.                                            *)
ModelReturns(r) ==
  /\ pc[r] = "calling"
  /\ \E t \in Tokens :
       reply' = [reply EXCEPT ![r] = [role |-> "assistant", tokens |-> t]]
  /\ Goto(r, "charging")
  /\ UNCHANGED <<session, stream, result, lockVars, row, msgs, history, usageVars, spent>>

(* Stream: Convert meets an error event; nothing is recorded. *)
StreamBreaks(r) ==
  /\ pc[r] = "calling"
  /\ r \in stream
  /\ Return(r, "failed")
  /\ UNCHANGED <<session, stream, lockVars, row, msgs, usageVars, spent>>

(* recordEngineUsage; a failed insert is ignored. *)
Charge(r) ==
  /\ pc[r] = "charging"
  /\ \/ /\ charged' = [charged EXCEPT ![session[r]] = @ + reply[r].tokens]
        /\ billed' = billed + reply[r].tokens
        /\ UNCHANGED spent
     \/ Fault /\ UNCHANGED usageVars
  /\ Goto(r, "answering")
  /\ UNCHANGED <<session, stream, result, lockVars, row, msgs, callVars>>

(* AppendMessage of the answer; a failure is only logged. *)
Answer(r) ==
  /\ pc[r] = "answering"
  /\ \/ Store(r, [role |-> reply[r].role, by |-> r]) /\ UNCHANGED spent
     \/ Fault /\ UNCHANGED msgs
  /\ Return(r, "answered")
  /\ UNCHANGED <<session, stream, lockVars, row, usageVars>>

-----------------------------------------------------------------------------
(* Around the requests *)

(* DeleteSession finds the row and deletes its messages ... *)
ClearMessages(s) ==
  /\ row[s] \in {"live", "emptied"}
  /\ spent.delete < MaxDeletes
  /\ spent' = [spent EXCEPT !.delete = @ + 1]
  /\ row' = [row EXCEPT ![s] = "clearing"]
  /\ msgs' = [msgs EXCEPT ![s] = << >>]
  /\ UNCHANGED <<pc, session, stream, result, lockVars, callVars, usageVars>>

(* ... then the row itself, or fails between the two. *)
DropRow(s) ==
  /\ row[s] = "clearing"
  /\ \/ row' = [row EXCEPT ![s] = "deleted"] /\ UNCHANGED spent
     \/ Fault /\ row' = [row EXCEPT ![s] = "emptied"]
  /\ UNCHANGED <<pc, session, stream, result, lockVars, msgs, callVars, usageVars>>

(* The process dies and starts again: the tables stay, the locks do not,   *)
(* and the callers of the requests under way get nothing.                  *)
Crash ==
  /\ spent.crash < MaxCrashes
  /\ spent' = [spent EXCEPT !.crash = @ + 1]
  /\ pc' = [r \in Requests |-> IF pc[r] \in {"new", "done"} THEN pc[r] ELSE "lost"]
  /\ locks' = NoEntries /\ ref' = NoUsers /\ held' = Nobody /\ mine' = Nobody
  /\ row' = [s \in Sessions |-> IF row[s] = "clearing" THEN "emptied" ELSE row[s]]
  /\ history' = [r \in Requests |-> << >>]
  /\ reply' = [r \in Requests |-> NoReply]
  /\ UNCHANGED <<session, stream, result, msgs, usageVars>>

ServeStep(r) ==
  \/ OpenSession(r) \/ Ask(r) \/ CheckBudget(r) \/ LoadHistory(r)
  \/ PrepareFails(r) \/ ModelReturns(r) \/ StreamBreaks(r)
  \/ Charge(r) \/ Answer(r) \/ UnlockEntry(r) \/ UnlockMutex(r)

Next ==
  \/ \E r \in Requests : LockEntry(r) \/ LockMutex(r) \/ ServeStep(r)
  \/ \E s \in Sessions : ClearMessages(s) \/ DropRow(s)
  \/ Crash
  \/ (\A r \in Requests : pc[r] \in {"done", "lost"}) /\ UNCHANGED vars

Spec == Init /\ [][Next]_vars

(* Calls end, by ENGINE_TIMEOUT_SECONDS at the latest, and the code after  *)
(* them runs; a Go mutex hands itself to a waiter that has starved.        *)
FairSpec ==
  /\ Spec
  /\ \A r \in Requests : WF_vars(ServeStep(r)) /\ SF_vars(LockMutex(r))
-----------------------------------------------------------------------------
(* Properties *)

Users(s) == {r \in Requests : session[r] = s /\ pc[r] \in Using}

(* At most one request of a session is served at a time, across channels   *)
(* (Gateway.lockSession; "每会话串行锁").                                       *)
OneAtATime ==
  \A q, r \in Requests :
    pc[q] \in Serving /\ pc[r] \in Serving /\ session[q] = session[r] => q = r

(* The table has an entry for exactly the sessions in use, counts exactly  *)
(* its users, and the lookup by key in unlockSession finds the entry that  *)
(* was locked: no entry leaks, none is unlocked by a stranger.             *)
LockTableExact ==
  /\ \A s \in Sessions :
       IF Users(s) = {} THEN locks[s] = NoOne
                        ELSE /\ locks[s] # NoOne
                             /\ ref[locks[s]] = Cardinality(Users(s))
  /\ \A r \in Requests :
       /\ pc[r] \in Using => mine[r] = locks[session[r]]
       /\ pc[r] \in Serving \cup {"unlocking"} => mine[r] # NoOne /\ held[mine[r]] = r

(* In a session whose messages were never deleted, an answer is stored     *)
(* right after the question it answers: no other request of the session,   *)
(* from whatever channel, comes between the two.                           *)
AnswerFollowsQuestion ==
  \A s \in Sessions : row[s] = "live" =>
    \A i \in DOMAIN msgs[s] : msgs[s][i].role # "user" =>
      i > 1 /\ msgs[s][i - 1] = Question(msgs[s][i].by)

(* The model is given the whole conversation up to the question, and not   *)
(* the question twice (loadChatHistory drops the last message, trusting it *)
(* to be the question).  If the history cannot be read it is given none.   *)
HistoryIsPast ==
  \A r \in Requests :
    pc[r] \in {"calling", "charging", "answering"} /\ row[session[r]] = "live" =>
      \/ msgs[session[r]] = Append(history[r], Question(r))
      \/ history[r] = << >> /\ spent.fault > 0

(* The guard reads the usage before the call, the call adds to it after.   *)
(* The lock makes that safe for a session, which oversteps its policy by   *)
(* less than one call ...                                                  *)
SessionBudget ==
  \A s \in Sessions : charged[s] > 0 => charged[s] < SessionMax + MostTokens

(* ... but sessions of one user pass the guard together: the policy of the *)
(* user is overstepped by less than one call for each of them.             *)
UserBudget == billed > 0 => billed < UserMax + Cardinality(Sessions) * MostTokens

(* A request talks from the mutex of its session to unlockSession. *)
Seen(p) ==
  CASE p = "waiting" -> "queued"
    [] p = "unlocking" -> "leaving"
    [] p \in Serving -> "talking"
    [] OTHER -> p

Inside(s) == {r \in Requests : session[r] = s /\ pc[r] \in Serving}

Talker(S) == IF S = {} THEN NoOne ELSE CHOOSE r \in S : TRUE

Turns == INSTANCE SessionTurns WITH
  phase <- [r \in Requests |-> Seen(pc[r])],
  turn <- [s \in Sessions |-> Talker(Inside(s))]

(* The gateway implements SessionTurns, its fairness included, so every    *)
(* request is served in the end.                                           *)
ImplementsTurns == Turns!TurnSpec
==============================================================================
