----------------------------- MODULE CheckQueue -----------------------------
(***************************************************************************)
(* CCheckQueue and CCheckQueueControl (checkqueue.h): a master hands       *)
(* script checks to worker threads and joins them in Wait() until all are  *)
(* done.                                                                   *)
(*                                                                         *)
(* An action is one critical section of the mutex, from the lock to the    *)
(* next unlock: the end of a batch, or the call of cond.wait(lock), which  *)
(* lets go of the mutex.  A check is a model value with a fixed outcome;   *)
(* the queue is a stack, but as its comment says the order does not        *)
(* matter, so a batch is any part of it of the right size.                 *)
(***************************************************************************)
EXTENDS Integers, FiniteSets

CONSTANTS
  Worker,     \* threads in Thread()
  Master,     \* threads that connect blocks
  NoThread,
  Check,      \* jobs; a finished one can be added again
  Free, Queue,\* where a check is when no thread has it
  BatchSize   \* nBatchSize

Thread == Worker \cup Master

ASSUME ThreadAssumption ==
  /\ IsFiniteSet(Worker) /\ IsFiniteSet(Master) /\ IsFiniteSet(Check)
  /\ Worker \cap Master = {}
  /\ NoThread \notin Thread
  /\ Free \notin Thread /\ Queue \notin Thread /\ Free # Queue
  /\ BatchSize \in Nat \ {0}

VARIABLES
  good,       \* what a check evaluates to
  place,      \* Free, Queue, or the thread with the check in vChecks
  nIdle, nTotal, nTodo, fAllOk,
  pc,         \* where a thread is in Loop
  fOk,        \* its local result
  control,    \* the owner of ControlMutex
  verdict,    \* history: the conjunction of the checks of this session
  result      \* what the last Wait() returned

queue == <<place, nIdle, nTotal, nTodo, fAllOk>>
session == <<control, verdict, result>>
vars == <<good, queue, pc, fOk, session>>

Queued == {c \in Check : place[c] = Queue}
vChecks(t) == {c \in Check : place[c] = t}

(* "outside" and "adding" are the master's, "new" is the first iteration   *)
(* of Loop, "asleep" is cond.wait, "awake" is its return before the mutex  *)
(* is taken again, "done" is the end of a batch.                           *)
Stage == {"outside", "adding", "new", "asleep", "awake", "working", "done", "back"}

TypeOK ==
  /\ good \in [Check -> BOOLEAN]
  /\ place \in [Check -> {Free, Queue} \cup Thread]
  /\ nIdle \in Nat /\ nTotal \in Nat /\ nTodo \in Nat
  /\ fAllOk \in BOOLEAN
  /\ pc \in [Thread -> Stage]
  /\ fOk \in [Thread -> BOOLEAN]
  /\ control \in Master \cup {NoThread}
  /\ verdict \in BOOLEAN /\ result \in BOOLEAN

Init ==
  /\ good \in [Check -> BOOLEAN]
  /\ place = [c \in Check |-> Free]
  /\ nIdle = 0 /\ nTotal = 0 /\ nTodo = 0
  /\ fAllOk = TRUE
  /\ pc = [t \in Thread |-> IF t \in Master THEN "outside" ELSE "new"]
  /\ fOk = [t \in Thread |-> TRUE]
  /\ control = NoThread
  /\ verdict = TRUE /\ result = TRUE

-----------------------------------------------------------------------------
(* CCheckQueueControl: the constructor takes ControlMutex.                 *)
EnterControl(m) ==
  /\ control = NoThread /\ pc[m] = "outside"
  /\ control' = m
  /\ pc' = [pc EXCEPT ![m] = "adding"]
  /\ verdict' = TRUE
  /\ UNCHANGED <<good, queue, fOk, result>>

AsleepWorkers == {w \in Worker : pc[w] = "asleep"}

(* Add: notify_one for one check, notify_all for more.                     *)
NotifyWorkers(S) ==
  \/ /\ Cardinality(S) = 1 /\ AsleepWorkers # {}
     /\ \E w \in AsleepWorkers : pc' = [pc EXCEPT ![w] = "awake"]
  \/ /\ Cardinality(S) = 1 /\ AsleepWorkers = {}
     /\ pc' = pc
  \/ /\ Cardinality(S) > 1
     /\ pc' = [t \in Thread |-> IF t \in AsleepWorkers THEN "awake" ELSE pc[t]]

Add(m, S) ==
  /\ pc[m] = "adding"
  /\ S # {} /\ \A c \in S : place[c] = Free
  /\ place' = [c \in Check |-> IF c \in S THEN Queue ELSE place[c]]
  /\ nTodo' = nTodo + Cardinality(S)
  /\ verdict' = (verdict /\ \A c \in S : good[c])
  /\ NotifyWorkers(S)
  /\ UNCHANGED <<good, nIdle, nTotal, fAllOk, fOk, control, result>>

(* Wait(), called by ConnectBlock or by the destructor.                    *)
Wait(m) ==
  /\ pc[m] = "adding"
  /\ pc' = [pc EXCEPT ![m] = "new"]
  /\ UNCHANGED <<good, queue, fOk, session>>

-----------------------------------------------------------------------------
(* Loop.  The head of a critical section cleans up after what the thread   *)
(* did before it: counts itself in, wakes up, or accounts for its batch.   *)

Total(t) == IF pc[t] = "new" THEN nTotal + 1 ELSE nTotal
IdleKept(t) == nIdle
Idle(t) == IF pc[t] = "awake" THEN nIdle - 1 ELSE nIdle
Todo(t) == IF pc[t] = "done" THEN nTodo - Cardinality(vChecks(t)) ELSE nTodo
AllOkLast(t) == IF pc[t] = "done" THEN fOk[t] ELSE fAllOk
AllOk(t) == IF pc[t] = "done" THEN fAllOk /\ fOk[t] ELSE fAllOk
Locked(t) == pc[t] \in {"new", "awake", "done"}

(* A master is done when the queue is empty and no batch is left.          *)
QueueEmpty(t) == t \in Master
WorkDone(t) == t \in Master /\ Todo(t) = 0

(* The last batch wakes up a master that sleeps.                           *)
NeverInformMaster(t) == FALSE
InformMaster(t) == pc[t] = "done" /\ Todo(t) = 0 /\ t \in Worker

After(t, stage) ==
  pc' = [u \in Thread |->
           IF u = t THEN stage
           ELSE IF InformMaster(t) /\ u \in Master /\ pc[u] = "asleep" THEN "awake"
           ELSE pc[u]]

(* std::max(1U, std::min(nBatchSize, queue.size() / (nTotal + nIdle + 1))) *)
Share(t) == Cardinality(Queued) \div (Total(t) + Idle(t) + 1)
nNow(t) == IF Share(t) < 1 THEN 1 ELSE IF Share(t) < BatchSize THEN Share(t) ELSE BatchSize

TakeBatch(t) ==
  /\ Locked(t)
  /\ Queued # {}
  /\ \E B \in SUBSET Queued :
       /\ Cardinality(B) = nNow(t)
       /\ place' = [c \in Check |-> IF c \in B THEN t
                                    ELSE IF place[c] = t THEN Free ELSE place[c]]
  /\ nTotal' = Total(t) /\ nIdle' = Idle(t) /\ nTodo' = Todo(t)
  /\ fAllOk' = AllOk(t)
  /\ fOk' = [fOk EXCEPT ![t] = AllOk(t)]
  /\ After(t, "working")
  /\ UNCHANGED <<good, session>>

Released(t) == [c \in Check |-> IF place[c] = t THEN Free ELSE place[c]]

Sleep(t) ==
  /\ Locked(t)
  /\ Queued = {}
  /\ ~WorkDone(t)
  /\ place' = Released(t)
  /\ nTotal' = Total(t) /\ nIdle' = Idle(t) + 1 /\ nTodo' = Todo(t)
  /\ fAllOk' = AllOk(t)
  /\ After(t, "asleep")
  /\ UNCHANGED <<good, fOk, session>>

Return(t) ==
  /\ Locked(t)
  /\ Queued = {}
  /\ WorkDone(t)
  /\ place' = Released(t)
  /\ nTotal' = Total(t) - 1 /\ nIdle' = Idle(t) /\ nTodo' = Todo(t)
  /\ result' = AllOk(t)
  /\ fAllOk' = TRUE
  /\ After(t, "back")
  /\ UNCHANGED <<good, fOk, control, verdict>>

(* The batch, outside of the mutex; it stops at the first check that fails. *)
Execute(t) ==
  /\ pc[t] = "working"
  /\ fOk' = [fOk EXCEPT ![t] = fOk[t] /\ \A c \in vChecks(t) : good[c]]
  /\ pc' = [pc EXCEPT ![t] = "done"]
  /\ UNCHANGED <<good, queue, session>>

(* A condition variable may return without a notification.                 *)
SpuriousWakeup(t) ==
  /\ pc[t] = "asleep"
  /\ pc' = [pc EXCEPT ![t] = "awake"]
  /\ UNCHANGED <<good, queue, fOk, session>>

(* The destructor lets go of ControlMutex.                                 *)
LeaveControl(m) ==
  /\ pc[m] = "back"
  /\ control' = NoThread
  /\ pc' = [pc EXCEPT ![m] = "outside"]
  /\ UNCHANGED <<good, queue, fOk, verdict, result>>

Loop(t) == TakeBatch(t) \/ Sleep(t) \/ Return(t) \/ Execute(t)

Control(m) == Wait(m) \/ LeaveControl(m)

Next ==
  \/ \E m \in Master : EnterControl(m) \/ Control(m) \/ \E S \in SUBSET Check : Add(m, S)
  \/ \E t \in Thread : Loop(t) \/ SpuriousWakeup(t)

Spec == Init /\ [][Next]_vars

(* A thread that can take the mutex takes it, checks end, and the code     *)
(* that owns a control goes on to Wait() and to the end of its scope.      *)
FairSpec ==
  /\ Spec
  /\ \A t \in Thread : WF_vars(Loop(t))
  /\ \A m \in Master : WF_vars(Control(m))

-----------------------------------------------------------------------------
Outstanding == {c \in Check : place[c] # Free}
Sleepers == {t \in Thread : pc[t] \in {"asleep", "awake"}}
InLoop == {t \in Thread : pc[t] \in {"asleep", "awake", "working", "done"}}

(* nTodo, nIdle and nTotal count what they say: the checks that are queued *)
(* or in a batch, the threads in cond.wait, the threads in Loop.  Batch    *)
(* sizes and the end of Wait() are computed from them without a check for  *)
(* underflow.                                                              *)
CountersExact ==
  /\ nTodo = Cardinality(Outstanding)
  /\ nIdle = Cardinality(Sleepers)
  /\ nTotal = Cardinality(InLoop)

(* Wait() returns when the last check of the session is done, with the     *)
(* conjunction of all of them: none is left to a later session, and no     *)
(* failure of an earlier one is seen.                                      *)
WaitExact ==
  \A m \in Master : pc[m] = "back" =>
    result = verdict /\ fAllOk /\ \A c \in Check : place[c] = Free

(* The queue implements CheckSession.                                      *)
StageOf(m) == IF pc[m] \in {"outside", "adding", "back"} THEN pc[m] ELSE "waiting"
Abstract == INSTANCE CheckSession WITH stage <- [m \in Master |-> StageOf(m)]
ImplementsSession == Abstract!Spec

(* No wake-up is lost: a master that waits returns.                        *)
SessionEnds == \A m \in Master : pc[m] = "new" ~> pc[m] = "outside"
=============================================================================
