-------------------------- MODULE SignalQueueProofs --------------------------
(***************************************************************************)
(* What is proved of SignalQueue for any threads and any number of         *)
(* callbacks, also when threads of the group wait for the queue: no        *)
(* callback is forgotten, EmptyQueue is alone and leaves nothing, and the  *)
(* queue implements SerialQueue.                                           *)
(***************************************************************************)
EXTENDS SignalQueue, TLAPS

(* Zenon is the prover of every step that does not name another.           *)
USE Zenon

InCallback(t) == pc[t] \in {"callback", "finish"}

(* The calls each kind of thread makes.                                    *)
Roles ==
  /\ \A s \in Service : /\ pc[s] \in {"asleep", "check", "process", "callback", "finish",
                                      "maybe", "schedule", "gone"}
                        /\ ret[s] = "check"
  /\ \A c \in Client : /\ pc[c] \in {"idle", "sync", "maybe", "schedule", "gone"}
                       /\ ret[c] \in {"idle", "sync"}
  /\ pc[Main] \in {"up", "stop", "join", "flush", "maybe", "schedule", "empty", "process",
                   "callback", "finish", "again", "gone"}
  /\ pc[Main] \in {"maybe", "schedule"} => ret[Main] \in {"empty", "again"}

(* m_are_callbacks_running is a lock held by the thread that runs one.     *)
Exclusive ==
  /\ m_are_callbacks_running <=> \E t \in Thread : InCallback(t)
  /\ \A t, u \in Thread : InCallback(t) /\ InCallback(u) => t = u
  /\ \A t \in Thread : pc[t] = "callback" => callback[t] \in Callback

(* From the last flush on, only the main thread is left.                   *)
OnlyMain ==
  /\ pc[Main] \notin {"up", "stop", "join"} => \A t \in Service \cup Client : pc[t] = "gone"
  /\ pc[Main] \notin {"up", "stop"} => \A c \in Client \ Group : pc[c] = "gone"
  /\ pc[Main] \in {"up", "stop", "join", "flush"} => added <= MaxCallback
  /\ pc[Main] = "gone" => m_callbacks_pending = <<>>

Counted ==
  /\ (\A t \in Thread : pc[t] # "callback") =>
        Len(finished) + Len(m_callbacks_pending) = added
  /\ (\E t \in Thread : pc[t] = "callback") =>
        Len(finished) + Len(m_callbacks_pending) + 1 = added

Inv == TypeOK /\ Roles /\ Exclusive /\ OnlyMain /\ Counted /\ CallbackScheduled

-----------------------------------------------------------------------------
LEMMA InitInv == Init => Inv
<1> SUFFICES ASSUME Init PROVE Inv
  OBVIOUS
<1> USE ThreadAssumption DEF Init
<1>1. TypeOK
  <2>1. pc \in [Thread -> Stage] /\ ret \in [Thread -> Stage]
    BY DEF Stage
  <2>2. m_callbacks_pending \in Seq(Callback) /\ finished \in Seq(Callback)
    BY SMT
  <2>3. added \in 0..(MaxCallback + 1)
    BY SMT
  <2> QED BY <2>1, <2>2, <2>3 DEF TypeOK
<1>2. Roles /\ OnlyMain
  BY SMT DEF Roles, OnlyMain, Thread
<1>3. \A t \in Thread : pc[t] \notin {"callback", "finish"}
  OBVIOUS
<1>4. Exclusive /\ Counted /\ CallbackScheduled
  BY <1>3, SMT DEF Exclusive, InCallback, Counted, CallbackScheduled
<1> QED BY <1>1, <1>2, <1>4 DEF Inv

(* A step of one thread.                                                   *)
LEMMA OneMoves ==
  ASSUME TypeOK, NEW t \in Thread, NEW v \in Stage, pc' = [pc EXCEPT ![t] = v]
  PROVE  /\ pc' \in [Thread -> Stage]
         /\ pc'[t] = v /\ \A u \in Thread : u # t => pc'[u] = pc[u]
BY DEF TypeOK

(* A step that neither adds a callback nor starts or ends one.             *)
Quiet ==
  /\ UNCHANGED <<m_callbacks_pending, m_are_callbacks_running, ret, added, finished>>
  /\ callback' \in [Thread -> Callback \cup {NoCallback}]
  /\ taskQueue' \in Nat /\ interrupted' \in BOOLEAN
  /\ pc' \in [Thread -> Stage]
  /\ \A u \in Thread : InCallback(u) => pc'[u] = pc[u] /\ callback'[u] = callback[u]
  /\ \A u \in Thread : InCallback(u)' => InCallback(u)

LEMMA QuietInv == ASSUME Inv, Quiet PROVE TypeOK' /\ Exclusive' /\ Counted'
<1>1. TypeOK'
  BY DEF Inv, TypeOK, Quiet
<1>2. \A u \in Thread : InCallback(u)' <=> InCallback(u)
  BY DEF Quiet, InCallback
<1>3. \A u \in Thread : pc'[u] = "callback" <=> pc[u] = "callback"
  BY DEF Quiet, InCallback
<1>4. Exclusive'
  <2>1. m_are_callbacks_running' <=> \E t \in Thread : InCallback(t)'
    BY <1>2 DEF Quiet, Inv, Exclusive
  <2>2. \A t, u \in Thread : InCallback(t)' /\ InCallback(u)' => t = u
    BY <1>2 DEF Inv, Exclusive
  <2>3. \A t \in Thread : pc'[t] = "callback" => callback'[t] \in Callback
    BY <1>3 DEF Quiet, InCallback, Inv, Exclusive
  <2> QED BY <2>1, <2>2, <2>3 DEF Exclusive, Callback
<1>5. Counted'
  BY <1>3 DEF Counted, Quiet, Inv
<1> QED BY <1>1, <1>4, <1>5

-----------------------------------------------------------------------------
(* What a call leaves true, the threads being those of Roles.              *)
LEMMA AddInv ==
  ASSUME Inv, NEW t \in Thread, NEW next \in {"idle", "sync", "empty"},
         AddToProcessQueue(t, next), added <= MaxCallback,
         ~InCallback(t), pc[t] # "gone",
         t \in Client => next \in {"idle", "sync"} /\ added < MaxCallback,
         t = Main => pc[t] = "flush" /\ next = "empty", t \notin Service
  PROVE  Inv'
<1>1. /\ pc' \in [Thread -> Stage]
      /\ pc'[t] = "maybe" /\ \A u \in Thread : u # t => pc'[u] = pc[u]
  BY OneMoves DEF AddToProcessQueue, Inv, Stage
<1>2. /\ added' = added + 1 /\ added + 1 \in Callback
      /\ m_callbacks_pending' = Append(m_callbacks_pending, added + 1)
      /\ Len(m_callbacks_pending') = Len(m_callbacks_pending) + 1
  BY ThreadAssumption, SMT DEF AddToProcessQueue, Inv, TypeOK, Callback
<1>3. /\ ret' \in [Thread -> Stage]
      /\ ret'[t] = next /\ \A u \in Thread : u # t => ret'[u] = ret[u]
  BY DEF AddToProcessQueue, Inv, TypeOK, Stage
<1>4. /\ callback' \in [Thread -> Callback \cup {NoCallback}]
      /\ \A u \in Thread : u # t => callback'[u] = callback[u]
  BY <1>2 DEF AddToProcessQueue, Inv, TypeOK
<1>5. UNCHANGED <<m_are_callbacks_running, taskQueue, interrupted, finished>>
  BY DEF AddToProcessQueue
<1>6. TypeOK'
  <2>1. m_callbacks_pending' \in Seq(Callback)
    BY <1>2, SMT DEF Inv, TypeOK
  <2>2. added' \in 0..(MaxCallback + 1)
    BY <1>2, ThreadAssumption, SMT DEF Callback
  <2> QED BY <2>1, <2>2, <1>1, <1>3, <1>4, <1>5 DEF Inv, TypeOK
<1>7. Roles'
  BY <1>1, <1>3, ThreadAssumption DEF Inv, Roles, Thread
<1>8. \A u \in Thread : InCallback(u)' <=> InCallback(u)
  BY <1>1 DEF InCallback
<1>9. \A u \in Thread : pc'[u] = "callback" <=> pc[u] = "callback"
  BY <1>1 DEF InCallback
<1>10. Exclusive'
  <2>1. m_are_callbacks_running' <=> \E u \in Thread : InCallback(u)'
    BY <1>5, <1>8 DEF Inv, Exclusive
  <2>2. \A u, v \in Thread : InCallback(u)' /\ InCallback(v)' => u = v
    BY <1>8 DEF Inv, Exclusive
  <2>3. \A u \in Thread : pc'[u] = "callback" => callback'[u] \in Callback
    BY <1>1, <1>4, <1>9 DEF Inv, Exclusive
  <2> QED BY <2>1, <2>2, <2>3 DEF Exclusive, Callback
<1>11. OnlyMain'
  BY <1>1, <1>2, ThreadAssumption, SMT DEF Inv, OnlyMain, Thread, TypeOK
<1>12. Counted'
  <2>1. Len(m_callbacks_pending) \in Nat /\ Len(finished) \in Nat /\ added \in Nat
    BY SMT DEF Inv, TypeOK
  <2> QED BY <2>1, <1>2, <1>5, <1>9, SMT DEF Inv, Counted
<1>13. CallbackScheduled'
  BY <1>1 DEF CallbackScheduled
<1> QED BY <1>6, <1>7, <1>10, <1>11, <1>12, <1>13 DEF Inv

LEMMA MaybeScheduleInv == ASSUME Inv, NEW t \in Thread, MaybeScheduleProcessQueue(t) PROVE Inv'
<1> DEFINE v == IF NeedsRun THEN "schedule" ELSE ret[t]
<1>0. ret[t] \in Stage
  BY DEF Inv, TypeOK
<1>1. /\ pc' = [pc EXCEPT ![t] = v] /\ v \in Stage
      /\ v = "schedule" \/ (v = ret[t] /\ ~NeedsRun)
  BY <1>0 DEF MaybeScheduleProcessQueue, Stage
<1> HIDE DEF v
<1>2. /\ pc' \in [Thread -> Stage]
      /\ pc'[t] = v /\ \A u \in Thread : u # t => pc'[u] = pc[u]
  BY <1>1, OneMoves DEF Inv
<1>3. /\ pc[t] = "maybe"
      /\ UNCHANGED <<m_callbacks_pending, m_are_callbacks_running, taskQueue, ret,
                     callback, interrupted, added, finished>>
  BY DEF MaybeScheduleProcessQueue
<1>4. ret[t] \in {"idle", "sync", "check", "empty", "again"}
  BY <1>3 DEF Inv, Roles, Thread
<1>5. Quiet
  BY <1>1, <1>2, <1>3, <1>4 DEF Quiet, Inv, TypeOK, InCallback
<1>6. Roles'
  BY <1>1, <1>2, <1>3, ThreadAssumption DEF Inv, Roles, Thread
<1>7. OnlyMain'
  BY <1>1, <1>2, <1>3, <1>4, ThreadAssumption DEF Inv, OnlyMain, Roles, Thread
<1>8. CallbackScheduled'
  <2>1. CASE v = "schedule"
    BY <2>1, <1>2 DEF CallbackScheduled
  <2>2. CASE ~NeedsRun
    BY <2>2, <1>3 DEF CallbackScheduled, NeedsRun
  <2> QED BY <1>1, <2>1, <2>2
<1> QED BY <1>5, <1>6, <1>7, <1>8, QuietInv DEF Inv

LEMMA ScheduleInv == ASSUME Inv, NEW t \in Thread, Schedule(t) PROVE Inv'
<1> DEFINE Woken(u) == u \in Service /\ pc[u] = "asleep" /\ pc'[u] = "check"
           Moves == /\ pc' \in [Thread -> Stage] /\ pc'[t] = ret[t]
                    /\ \A u \in Thread : u # t => pc'[u] = pc[u] \/ Woken(u)
<1>1. Moves
  <2>1. CASE pc' = [pc EXCEPT ![t] = ret[t]]
    BY <2>1, OneMoves DEF Inv, TypeOK
  <2>2. ASSUME NEW s \in NotifyOne, pc' = [pc EXCEPT ![t] = ret[t], ![s] = "check"]
        PROVE  Moves
    <3>1. s \in Service /\ pc[s] = "asleep" /\ s # t /\ s \in Thread
      BY <2>2 DEF NotifyOne, Asleep, Schedule, Thread
    <3>2. pc'[t] = ret[t] /\ pc'[s] = "check" /\ pc' \in [Thread -> Stage]
      BY <2>2, <3>1 DEF Inv, TypeOK, Stage
    <3>3. \A u \in Thread : u # t /\ u # s => pc'[u] = pc[u]
      BY <2>2, <3>1 DEF Inv, TypeOK
    <3> QED BY <3>1, <3>2, <3>3
  <2> QED BY <2>1, <2>2 DEF Schedule
<1>2. /\ pc[t] = "schedule" /\ taskQueue' = taskQueue + 1
      /\ UNCHANGED <<m_callbacks_pending, m_are_callbacks_running, ret,
                     callback, interrupted, added, finished>>
  BY DEF Schedule
<1>3. taskQueue' \in Nat /\ taskQueue' > 0
  BY <1>2, SMT DEF Inv, TypeOK
<1>4. ret[t] \in {"idle", "sync", "check", "empty", "again"}
  BY <1>2 DEF Inv, Roles, Thread
<1>5. Quiet
  BY <1>1, <1>2, <1>3, <1>4 DEF Quiet, Inv, TypeOK, InCallback
<1>6. Roles'
  BY <1>1, <1>2, ThreadAssumption DEF Inv, Roles, Thread
<1>7. OnlyMain'
  BY <1>1, <1>2, <1>4, ThreadAssumption DEF Inv, OnlyMain, Roles, Thread
<1>8. CallbackScheduled'
  BY <1>3 DEF CallbackScheduled
<1> QED BY <1>5, <1>6, <1>7, <1>8, QuietInv DEF Inv

(* The steps in which one thread t goes on to v and nothing else happens   *)
(* but to taskQueue, interrupted and what t waits for.                     *)
LEMMA GoesOnInv ==
  ASSUME Inv, NEW t \in Thread, NEW v \in Stage, pc' = [pc EXCEPT ![t] = v],
         ~InCallback(t), v \notin {"callback", "finish", "maybe", "schedule"},
         UNCHANGED <<m_callbacks_pending, m_are_callbacks_running, ret, added, finished>>,
         callback' = callback \/ (t \in Client /\ callback' = [callback EXCEPT ![t] = NoCallback]),
         taskQueue' \in Nat, interrupted' \in BOOLEAN,
         t \in Service => v \in {"asleep", "check", "process", "gone"},
         t \in Client => v \in {"idle", "gone"},
         t = Main => v \notin {"idle", "sync", "asleep", "check"},
         pc[t] # "gone", CallbackScheduled',
         t = Main /\ v \in {"up", "stop", "join", "flush"} => pc[t] \in {"up", "stop", "join"},
         t = Main /\ v \notin {"up", "stop"} => \A c \in Client \ Group : pc[c] = "gone",
         t = Main /\ v \notin {"up", "stop", "join"} => \A u \in Service \cup Client : pc[u] = "gone",
         t = Main /\ v = "gone" => m_callbacks_pending = <<>>
  PROVE  Inv'
<1>1. /\ pc' \in [Thread -> Stage]
      /\ pc'[t] = v /\ \A u \in Thread : u # t => pc'[u] = pc[u]
  BY OneMoves DEF Inv
<1>2. /\ callback' \in [Thread -> Callback \cup {NoCallback}]
      /\ \A u \in Thread : InCallback(u) => callback'[u] = callback[u]
  BY DEF Inv, TypeOK
<1>3. Quiet
  BY <1>1, <1>2 DEF Quiet, InCallback
<1>4. Roles'
  BY <1>1, ThreadAssumption DEF Inv, Roles, Thread, Stage
<1>5. OnlyMain'
  BY <1>1, ThreadAssumption DEF Inv, OnlyMain, Roles, Thread
<1> QED BY <1>3, <1>4, <1>5, QuietInv DEF Inv

(* Where a thread stops looking after the queue, somebody else does.       *)
LEMMA StillScheduled ==
  ASSUME Inv, NEW t \in Thread, NEW v \in Stage, pc' = [pc EXCEPT ![t] = v],
         UNCHANGED <<m_callbacks_pending, m_are_callbacks_running>>, taskQueue' = taskQueue,
         pc[t] \notin {"maybe", "schedule", "process", "empty", "again"}
         \/ v \in {"maybe", "schedule", "process", "empty", "again"}
         \/ m_are_callbacks_running \/ m_callbacks_pending = <<>>
  PROVE  CallbackScheduled'
<1>1. pc'[t] = v /\ \A u \in Thread : u # t => pc'[u] = pc[u]
  BY OneMoves DEF Inv
<1> QED BY <1>1 DEF Inv, CallbackScheduled

LEMMA ServeInv == ASSUME Inv, NEW s \in Service, Serve(s) \/ SpuriousWakeup(s) PROVE Inv'
<1>0. s \in Thread /\ s \notin Client /\ s # Main
  BY ThreadAssumption DEF Thread
<1>1. CASE TakeTask(s)
  <2>1. taskQueue' \in Nat
    BY <1>1, SMT DEF TakeTask, HasTask, Inv, TypeOK
  <2>2. pc' = [pc EXCEPT ![s] = "process"] /\ pc[s] = "check"
    BY <1>1 DEF TakeTask
  <2>3. CallbackScheduled'
    BY <2>2, <1>0 DEF CallbackScheduled, Inv, TypeOK
  <2> QED BY <1>0, <1>1, <2>1, <2>2, <2>3, GoesOnInv DEF TakeTask, InCallback, Stage, Inv, TypeOK
<1>2. CASE WaitForTask(s)
  <2>1. CallbackScheduled'
    BY <1>0, <1>2, StillScheduled DEF WaitForTask, Stage
  <2> QED BY <1>0, <1>2, <2>1, GoesOnInv DEF WaitForTask, InCallback, Stage, Inv, TypeOK
<1>3. CASE SpuriousWakeup(s)
  <2>1. CallbackScheduled'
    BY <1>0, <1>3, StillScheduled DEF SpuriousWakeup, Stage
  <2> QED BY <1>0, <1>3, <2>1, GoesOnInv DEF SpuriousWakeup, InCallback, Stage, Inv, TypeOK
<1>4. CASE ThreadInterrupted(s)
  <2>1. CallbackScheduled'
    BY <1>0, <1>4, StillScheduled DEF ThreadInterrupted, Interruptible, Stage
  <2> QED BY <1>0, <1>4, <2>1, GoesOnInv
          DEF ThreadInterrupted, Interruptible, InCallback, Stage, Inv, TypeOK
<1> QED BY <1>1, <1>2, <1>3, <1>4 DEF Serve

LEMMA ProcessNothingInv == ASSUME Inv, NEW t \in Thread, ProcessNothing(t) PROVE Inv'
<1>1. /\ pc[t] = "process" /\ pc' = [pc EXCEPT ![t] = AfterProcess(t)]
      /\ m_are_callbacks_running \/ m_callbacks_pending = <<>>
      /\ UNCHANGED <<m_callbacks_pending, m_are_callbacks_running, taskQueue, ret,
                     callback, interrupted, added, finished>>
  BY DEF ProcessNothing, Busy
<1>2. AfterProcess(t) \in Stage /\ AfterProcess(t) \in {"again", "check"}
  BY DEF AfterProcess, Stage
<1>3. CallbackScheduled'
  BY <1>1, <1>2, StillScheduled
<1>4. t \in Service \/ t = Main
  BY <1>1 DEF Inv, Roles, Thread
<1>5. t = Main => AfterProcess(t) = "again"
  BY DEF AfterProcess
<1>6. t \in Service => AfterProcess(t) = "check"
  BY ThreadAssumption DEF AfterProcess
<1>7. t = Main => \A u \in Service \cup Client : pc[u] = "gone"
  BY <1>1 DEF Inv, OnlyMain
<1>8. ~InCallback(t) /\ t \notin Client
  BY <1>1, <1>4, ThreadAssumption DEF InCallback
<1>9. taskQueue' \in Nat /\ interrupted' \in BOOLEAN
  BY <1>1 DEF Inv, TypeOK
<1> QED BY <1>1, <1>2, <1>3, <1>5, <1>6, <1>7, <1>8, <1>9, GoesOnInv

-----------------------------------------------------------------------------
(* The steps that take, run and end a callback.                            *)
LEMMA InCallbackRole ==
  ASSUME Inv, NEW t \in Thread, pc[t] \in {"process", "callback", "finish"}
  PROVE  /\ t \in Service \/ t = Main
         /\ t = Main => \A u \in Service \cup Client : pc[u] = "gone"
         /\ pc[Main] # "gone"
<1>1. t \in Service \/ t = Main
  BY DEF Inv, Roles, Thread
<1>2. t = Main => \A u \in Service \cup Client : pc[u] = "gone"
  BY DEF Inv, OnlyMain
<1>3. pc[Main] # "gone"
  BY <1>1 DEF Inv, OnlyMain
<1> QED BY <1>1, <1>2, <1>3

(* Nothing but pc of t changes of what Roles and OnlyMain say, and t stays *)
(* inside of ProcessQueue or goes on to MaybeScheduleProcessQueue.         *)
LEMMA ProcessRoles ==
  ASSUME Inv, NEW t \in Thread, pc[t] \in {"process", "callback", "finish"},
         NEW v \in {"callback", "finish", "maybe"}, pc' = [pc EXCEPT ![t] = v],
         ret' = ret \/ (v = "maybe" /\ ret' = [ret EXCEPT ![t] = AfterProcess(t)]),
         v = "maybe" => ret' = [ret EXCEPT ![t] = AfterProcess(t)],
         added' = added
  PROVE  Roles' /\ OnlyMain' /\ ret' \in [Thread -> Stage]
<1>1. /\ pc'[t] = v /\ \A u \in Thread : u # t => pc'[u] = pc[u]
  BY OneMoves DEF Inv, Stage
<1>2. /\ \A u \in Thread : u # t => ret'[u] = ret[u]
      /\ v # "maybe" => ret'[t] = ret[t]
      /\ v = "maybe" => ret'[t] = AfterProcess(t)
      /\ ret' \in [Thread -> Stage]
  BY DEF Inv, TypeOK, AfterProcess, Stage
<1>3. /\ t = Main => AfterProcess(t) = "again"
      /\ t \in Service => AfterProcess(t) = "check"
  BY ThreadAssumption DEF AfterProcess
<1>4. Roles'
  BY <1>1, <1>2, <1>3, InCallbackRole, ThreadAssumption DEF Inv, Roles, Thread
<1>5. OnlyMain'
  BY <1>1, InCallbackRole, ThreadAssumption DEF Inv, OnlyMain, Thread
<1> QED BY <1>2, <1>4, <1>5

LEMMA ProcessQueueInv == ASSUME Inv, NEW t \in Thread, ProcessQueue(t) PROVE Inv'
<1>1. /\ pc[t] = "process" /\ ~m_are_callbacks_running /\ m_callbacks_pending # <<>>
      /\ m_are_callbacks_running' = TRUE
      /\ callback' = [callback EXCEPT ![t] = Head(m_callbacks_pending)]
      /\ m_callbacks_pending' = Tail(m_callbacks_pending)
      /\ pc' = [pc EXCEPT ![t] = "callback"]
      /\ UNCHANGED <<taskQueue, ret, interrupted, added, finished>>
  BY DEF ProcessQueue, Busy
<1>2. /\ pc' \in [Thread -> Stage]
      /\ pc'[t] = "callback" /\ \A u \in Thread : u # t => pc'[u] = pc[u]
  BY <1>1, OneMoves DEF Inv, Stage
<1>3. /\ Head(m_callbacks_pending) \in Callback
      /\ m_callbacks_pending' \in Seq(Callback)
      /\ Len(m_callbacks_pending') = Len(m_callbacks_pending) - 1
      /\ Len(m_callbacks_pending) \in Nat /\ Len(finished) \in Nat /\ added \in Nat
  BY <1>1, SMT DEF Inv, TypeOK
<1>4. callback' \in [Thread -> Callback \cup {NoCallback}] /\ callback'[t] \in Callback
  BY <1>1, <1>3 DEF Inv, TypeOK
<1>5. TypeOK'
  BY <1>1, <1>2, <1>3, <1>4 DEF Inv, TypeOK
<1>6. \A u \in Thread : ~InCallback(u)
  BY <1>1 DEF Inv, Exclusive
<1>7. Exclusive'
  BY <1>1, <1>2, <1>4, <1>6 DEF Exclusive, InCallback, Callback
<1>8. Roles' /\ OnlyMain'
  BY <1>1, ProcessRoles
<1>9. Counted'
  <2>1. \A u \in Thread : pc[u] # "callback"
    BY <1>6 DEF InCallback
  <2> QED BY <2>1, <1>1, <1>2, <1>3, SMT DEF Inv, Counted
<1>10. CallbackScheduled'
  BY <1>1 DEF CallbackScheduled
<1> QED BY <1>5, <1>7, <1>8, <1>9, <1>10 DEF Inv

LEMMA RunCallbackInv == ASSUME Inv, NEW t \in Thread, RunCallback(t) PROVE Inv'
<1>1. /\ pc[t] = "callback" /\ finished' = Append(finished, callback[t])
      /\ callback' = [callback EXCEPT ![t] = NoCallback]
      /\ pc' = [pc EXCEPT ![t] = "finish"]
      /\ UNCHANGED <<m_callbacks_pending, m_are_callbacks_running, taskQueue, ret,
                     interrupted, added>>
  BY DEF RunCallback
<1>2. /\ pc' \in [Thread -> Stage]
      /\ pc'[t] = "finish" /\ \A u \in Thread : u # t => pc'[u] = pc[u]
  BY <1>1, OneMoves DEF Inv, Stage
<1>3. /\ finished' \in Seq(Callback) /\ Len(finished') = Len(finished) + 1
      /\ Len(m_callbacks_pending) \in Nat /\ Len(finished) \in Nat /\ added \in Nat
  BY <1>1, SMT DEF Inv, TypeOK, Exclusive
<1>4. callback' \in [Thread -> Callback \cup {NoCallback}]
  BY <1>1 DEF Inv, TypeOK
<1>5. TypeOK'
  BY <1>1, <1>2, <1>3, <1>4 DEF Inv, TypeOK
<1>6. /\ \A u \in Thread : InCallback(u)' <=> InCallback(u)
      /\ \A u \in Thread : InCallback(u) => u = t
  BY <1>1, <1>2 DEF Inv, Exclusive, InCallback
<1>7. \A u \in Thread : pc'[u] # "callback"
  BY <1>2, <1>6 DEF InCallback
<1>8. Exclusive'
  <2>1. m_are_callbacks_running' <=> \E u \in Thread : InCallback(u)'
    BY <1>1, <1>6 DEF Inv, Exclusive
  <2> QED BY <2>1, <1>6, <1>7 DEF Exclusive
<1>9. Roles' /\ OnlyMain'
  BY <1>1, ProcessRoles
<1>10. Counted'
  BY <1>1, <1>3, <1>7, SMT DEF Inv, Counted
<1>11. CallbackScheduled'
  BY <1>1 DEF CallbackScheduled, Inv, Exclusive, InCallback
<1> QED BY <1>5, <1>8, <1>9, <1>10, <1>11 DEF Inv

LEMMA CallbacksRunningInv == ASSUME Inv, NEW t \in Thread, CallbacksRunning(t) PROVE Inv'
<1>1. /\ pc[t] = "finish" /\ m_are_callbacks_running' = FALSE
      /\ pc' = [pc EXCEPT ![t] = "maybe"]
      /\ ret' = [ret EXCEPT ![t] = AfterProcess(t)]
      /\ UNCHANGED <<m_callbacks_pending, taskQueue, callback, interrupted, added, finished>>
  BY DEF CallbacksRunning, Reschedule
<1>2. /\ pc' \in [Thread -> Stage]
      /\ pc'[t] = "maybe" /\ \A u \in Thread : u # t => pc'[u] = pc[u]
  BY <1>1, OneMoves DEF Inv, Stage
<1>3. Roles' /\ OnlyMain' /\ ret' \in [Thread -> Stage]
  BY <1>1, ProcessRoles
<1>4. TypeOK'
  BY <1>1, <1>2, <1>3 DEF Inv, TypeOK
<1>5. \A u \in Thread : ~InCallback(u)' /\ pc[u] # "callback" /\ pc'[u] # "callback"
  BY <1>1, <1>2 DEF Inv, Exclusive, InCallback
<1>6. Exclusive' /\ Counted'
  BY <1>1, <1>5 DEF Inv, Exclusive, Counted
<1>7. CallbackScheduled'
  BY <1>2 DEF CallbackScheduled
<1> QED BY <1>3, <1>4, <1>6, <1>7 DEF Inv

-----------------------------------------------------------------------------
LEMMA ClientInv ==
  ASSUME Inv, NEW c \in Client, Signal(c) \/ Sync(c) \/ ClientStep(c)
  PROVE  Inv'
<1>0. c \in Thread /\ c \notin Service /\ c # Main
  BY ThreadAssumption DEF Thread
<1>1. CASE Signal(c)
  <2>1. pc[c] = "idle" /\ added < MaxCallback /\ AddToProcessQueue(c, "idle")
    BY <1>1 DEF Signal
  <2>2. added <= MaxCallback
    BY <2>1, ThreadAssumption, SMT DEF Inv, TypeOK
  <2> QED BY <1>0, <2>1, <2>2, AddInv DEF InCallback
<1>2. CASE Sync(c)
  <2>1. pc[c] = "idle" /\ added < MaxCallback /\ AddToProcessQueue(c, "sync")
    BY <1>2 DEF Sync
  <2>2. added <= MaxCallback
    BY <2>1, ThreadAssumption, SMT DEF Inv, TypeOK
  <2> QED BY <1>0, <2>1, <2>2, AddInv DEF InCallback
<1>3. CASE Synced(c)
  <2>1. CallbackScheduled'
    BY <1>0, <1>3, StillScheduled DEF Synced, Stage
  <2> QED BY <1>0, <1>3, <2>1, GoesOnInv DEF Synced, InCallback, Stage, Inv, TypeOK
<1>4. CASE ClientStops(c)
  <2>1. CallbackScheduled'
    BY <1>0, <1>4, StillScheduled DEF ClientStops, Stage
  <2> QED BY <1>0, <1>4, <2>1, GoesOnInv DEF ClientStops, InCallback, Stage, Inv, TypeOK
<1> QED BY <1>1, <1>2, <1>3, <1>4 DEF ClientStep

LEMMA MainInv == ASSUME Inv, Shutdown \/ MainStep PROVE Inv'
<1>0. Main \in Thread /\ Main \notin Service /\ Main \notin Client
  BY ThreadAssumption DEF Thread
<1>1. CASE Shutdown
  <2>1. CallbackScheduled'
    BY <1>0, <1>1, StillScheduled DEF Shutdown, Stage
  <2> QED BY <1>0, <1>1, <2>1, GoesOnInv DEF Shutdown, InCallback, Stage, Inv, TypeOK
<1>2. CASE InterruptAll
  <2>1. CallbackScheduled'
    BY <1>0, <1>2, StillScheduled DEF InterruptAll, Stage
  <2> QED BY <1>0, <1>2, <2>1, GoesOnInv DEF InterruptAll, InCallback, Stage, Inv, TypeOK
<1>3. CASE JoinAll
  <2>1. CallbackScheduled'
    BY <1>0, <1>3, StillScheduled DEF JoinAll, Stage
  <2>2. \A u \in Service \cup Client : pc[u] = "gone"
    BY <1>3, ThreadAssumption DEF JoinAll, Joined, Inv, OnlyMain
  <2> QED BY <1>0, <1>3, <2>1, <2>2, GoesOnInv DEF JoinAll, InCallback, Stage, Inv, TypeOK
<1>4. CASE ForceFlushStateToDisk
  BY <1>0, <1>4, AddInv DEF ForceFlushStateToDisk, InCallback, Inv, OnlyMain
<1>5. CASE EmptyQueue
  <2>1. PICK v \in {"process", "gone"} :
          /\ pc' = [pc EXCEPT ![Main] = v] /\ pc[Main] \in {"empty", "again"}
          /\ v = "gone" => m_callbacks_pending = <<>>
    BY <1>5 DEF EmptyQueue
  <2>2. UNCHANGED <<m_callbacks_pending, m_are_callbacks_running, taskQueue, ret,
                    callback, interrupted, added, finished>>
    BY <1>5 DEF EmptyQueue
  <2>3. CallbackScheduled'
    BY <1>0, <2>1, <2>2, StillScheduled DEF Stage
  <2>4. \A u \in Service \cup Client : pc[u] = "gone"
    BY <2>1 DEF Inv, OnlyMain
  <2> QED BY <1>0, <2>1, <2>2, <2>3, <2>4, GoesOnInv DEF InCallback, Stage, Inv, TypeOK
<1> QED BY <1>1, <1>2, <1>3, <1>4, <1>5 DEF MainStep

LEMMA NextInv == Inv /\ [Next]_vars => Inv'
<1> SUFFICES ASSUME Inv, [Next]_vars PROVE Inv'
  OBVIOUS
<1>1. ASSUME NEW t \in Thread, Calls(t) PROVE Inv'
  BY <1>1, MaybeScheduleInv, ScheduleInv, ProcessNothingInv, ProcessQueueInv,
     RunCallbackInv, CallbacksRunningInv DEF Calls
<1>2. ASSUME NEW s \in Service, Serve(s) \/ SpuriousWakeup(s) PROVE Inv'
  BY <1>2, ServeInv
<1>3. ASSUME NEW c \in Client, Signal(c) \/ Sync(c) \/ ClientStep(c) PROVE Inv'
  BY <1>3, ClientInv
<1>4. CASE Shutdown \/ MainStep
  BY <1>4, MainInv
<1>5. CASE UNCHANGED vars
  BY <1>5, SMT DEF vars, Inv, TypeOK, Roles, Exclusive, InCallback, OnlyMain, Counted, CallbackScheduled
<1> QED BY <1>1, <1>2, <1>3, <1>4, <1>5 DEF Next

LEMMA SpecInv == Spec => []Inv
<1> QED BY InitInv, NextInv, PTL DEF Spec

(* A callback that waits always has somebody who will look after it, for   *)
(* any number of threads that serve the scheduler or add callbacks.        *)
THEOREM ScheduledTheorem == Spec => []CallbackScheduled
<1>1. Inv => CallbackScheduled
  BY DEF Inv
<1> QED BY <1>1, SpecInv, PTL

(* When Shutdown empties the queue no thread serves the scheduler, as      *)
(* EmptyQueue asserts, and all callbacks have run when it is done.         *)
THEOREM EmptyQueueTheorem == Spec => []EmptyQueueAlone
<1>1. ASSUME Inv PROVE EmptyQueueAlone
  <2>1. pc[Main] \in {"empty", "process", "callback", "again"} => \A s \in Service : pc[s] = "gone"
    BY <1>1 DEF Inv, OnlyMain
  <2>2. ASSUME pc[Main] = "gone" PROVE m_callbacks_pending = <<>> /\ Len(finished) = added
    <3>1. m_callbacks_pending = <<>> /\ \A t \in Thread : pc[t] # "callback"
      BY <1>1, <2>2 DEF Inv, OnlyMain, Thread
    <3>2. Len(m_callbacks_pending) = 0 /\ Len(finished) \in Nat
      BY <1>1, <3>1, SMT DEF Inv, TypeOK
    <3> QED BY <1>1, <3>1, <3>2, SMT DEF Inv, Counted
  <2> QED BY <2>1, <2>2 DEF EmptyQueueAlone
<1> QED BY <1>1, SpecInv, PTL

-----------------------------------------------------------------------------
(* The callback that runs, as SerialQueue sees it.                         *)
LEMMA CurrentIs ==
  /\ Exclusive => \A t \in Thread : pc[t] = "callback" => Current = callback[t]
  /\ (\A t \in Thread : pc[t] # "callback") => Current = NoCallback
BY DEF Current, Exclusive, InCallback

LEMMA CurrentIsPrimed ==
  /\ Exclusive' => \A t \in Thread : pc'[t] = "callback" => Current' = callback'[t]
  /\ (\A t \in Thread : pc'[t] # "callback") => Current' = NoCallback
BY DEF Current, Exclusive, InCallback

LEMMA SameCurrent ==
  ASSUME Inv, Inv', \A u \in Thread : pc'[u] = "callback" <=> pc[u] = "callback",
         \A u \in Thread : pc[u] = "callback" => callback'[u] = callback[u]
  PROVE  Current' = Current
<1>1. Exclusive /\ Exclusive'
  BY DEF Inv
<1>2. CASE \A u \in Thread : pc[u] # "callback"
  BY <1>2, CurrentIs, CurrentIsPrimed
<1>3. ASSUME NEW u \in Thread, pc[u] = "callback" PROVE Current' = Current
  BY <1>1, <1>3, CurrentIs, CurrentIsPrimed, SMT
<1> QED BY <1>2, <1>3

(* A step that neither adds, starts nor ends a callback is invisible.      *)
LEMMA Invisible ==
  ASSUME Inv, Inv', NEW t \in Thread, pc[t] # "callback", pc'[t] # "callback",
         \A u \in Thread : u # t => pc'[u] = pc[u] \/ (pc[u] = "asleep" /\ pc'[u] = "check"),
         \A u \in Thread : u # t => callback'[u] = callback[u],
         UNCHANGED <<m_callbacks_pending, finished>>
  PROVE  UNCHANGED <<m_callbacks_pending, Current, finished>>
<1>1. Current' = Current
  BY SameCurrent
<1> QED BY <1>1

(* Whatever number of threads serves the scheduler, the callbacks run as   *)
(* if they were executed in order by a single thread.                      *)
THEOREM SerialTheorem == Spec => ImplementsSerial
<1> USE DEF Abstract!Next, Abstract!vars
<1>1. Init => Abstract!Init
  <2> SUFFICES ASSUME Init PROVE Abstract!Init
    OBVIOUS
  <2>1. \A t \in Thread : pc[t] # "callback"
    BY DEF Init
  <2> QED BY <2>1, CurrentIs DEF Init, Abstract!Init
<1>2. Inv /\ Inv' /\ [Next]_vars => [Abstract!Next]_(Abstract!vars)
  <2> SUFFICES ASSUME Inv, Inv', [Next]_vars PROVE [Abstract!Next]_(Abstract!vars)
    OBVIOUS
  <2>0. TypeOK /\ Exclusive /\ Exclusive'
    BY DEF Inv
  <2>1. ASSUME NEW t \in Thread, NEW next, AddToProcessQueue(t, next), pc[t] # "callback"
        PROVE  \E c \in Callback : Abstract!Enqueue(c)
    <3>1. \A u \in Thread : pc'[u] = "callback" <=> pc[u] = "callback"
      BY <2>0, <2>1 DEF AddToProcessQueue, TypeOK
    <3>2. \A u \in Thread : pc[u] = "callback" => callback'[u] = callback[u]
      BY <2>0, <2>1 DEF AddToProcessQueue, TypeOK
    <3>3. Current' = Current
      BY <3>1, <3>2, SameCurrent
    <3>4. added + 1 \in Callback
      BY <2>1, ThreadAssumption, SMT DEF AddToProcessQueue, Inv, TypeOK, Callback
    <3> QED BY <2>1, <3>3, <3>4 DEF AddToProcessQueue, Abstract!Enqueue
  <2>2. ASSUME NEW t \in Thread, ProcessQueue(t) PROVE Abstract!Start
    <3>1. Current = NoCallback
      <4>1. \A u \in Thread : pc[u] # "callback"
        BY <2>0, <2>2 DEF ProcessQueue, Busy, Exclusive, InCallback
      <4> QED BY <4>1, CurrentIs
    <3>2. Current' = Head(m_callbacks_pending)
      <4>1. pc'[t] = "callback" /\ callback'[t] = Head(m_callbacks_pending)
        BY <2>0, <2>2 DEF ProcessQueue, TypeOK
      <4> QED BY <2>0, <4>1, CurrentIsPrimed
    <3> QED BY <2>2, <3>1, <3>2 DEF ProcessQueue, Busy, Abstract!Start
  <2>3. ASSUME NEW t \in Thread, RunCallback(t) PROVE Abstract!Finish
    <3>1. Current = callback[t] /\ callback[t] \in Callback
      BY <2>0, <2>3, CurrentIs DEF RunCallback, Exclusive
    <3>2. \A u \in Thread : pc'[u] # "callback"
      BY <2>0, <2>3 DEF RunCallback, TypeOK, Exclusive, InCallback
    <3>3. Current' = NoCallback
      BY <3>2, CurrentIsPrimed
    <3>4. callback[t] # NoCallback
      BY <3>1, SMT DEF Callback, NoCallback
    <3> QED BY <2>3, <3>1, <3>3, <3>4 DEF RunCallback, Abstract!Finish
  <2>4. ASSUME NEW t \in Thread, MaybeScheduleProcessQueue(t) \/ Schedule(t) \/ ProcessNothing(t)
                                   \/ CallbacksRunning(t)
        PROVE  UNCHANGED Abstract!vars
    <3>1. pc[t] # "callback"
      BY <2>4 DEF MaybeScheduleProcessQueue, Schedule, ProcessNothing, CallbacksRunning
    <3>2. UNCHANGED <<m_callbacks_pending, callback, finished>>
      BY <2>4 DEF MaybeScheduleProcessQueue, Schedule, ProcessNothing, CallbacksRunning
    <3> DEFINE Others == \A u \in Thread : u # t => pc'[u] = pc[u] \/ (pc[u] = "asleep" /\ pc'[u] = "check")
    <3>3. pc'[t] # "callback" /\ Others
      <4>1. CASE MaybeScheduleProcessQueue(t)
        <5>1. ret[t] # "callback"
          BY <4>1 DEF MaybeScheduleProcessQueue, Inv, Roles, Thread
        <5> QED BY <2>0, <4>1, <5>1 DEF MaybeScheduleProcessQueue, TypeOK
      <4>2. CASE Schedule(t)
        <5>1. ret[t] # "callback"
          BY <4>2 DEF Schedule, Inv, Roles, Thread
        <5>2. CASE pc' = [pc EXCEPT ![t] = ret[t]]
          BY <2>0, <5>1, <5>2 DEF TypeOK
        <5>3. ASSUME NEW s \in NotifyOne, pc' = [pc EXCEPT ![t] = ret[t], ![s] = "check"]
              PROVE  pc'[t] # "callback" /\ Others
          <6>1. pc[s] = "asleep" /\ s # t /\ s \in Thread
            BY <4>2 DEF NotifyOne, Asleep, Schedule, Thread
          <6>2. pc'[t] = ret[t] /\ pc'[s] = "check"
            BY <2>0, <5>3, <6>1 DEF TypeOK
          <6>3. \A u \in Thread : u # t /\ u # s => pc'[u] = pc[u]
            BY <2>0, <5>3, <6>1 DEF TypeOK
          <6> QED BY <5>1, <6>1, <6>2, <6>3
        <5> QED BY <4>2, <5>2, <5>3 DEF Schedule
      <4>3. CASE ProcessNothing(t)
        BY <2>0, <4>3 DEF ProcessNothing, AfterProcess, TypeOK
      <4>4. CASE CallbacksRunning(t)
        BY <2>0, <4>4 DEF CallbacksRunning, Reschedule, TypeOK
      <4> QED BY <2>4, <4>1, <4>2, <4>3, <4>4
    <3> QED BY <3>1, <3>2, <3>3, Invisible
  <2>5. ASSUME NEW t \in Thread, Calls(t) PROVE [Abstract!Next]_(Abstract!vars)
    BY <2>2, <2>3, <2>4, <2>5 DEF Calls
  <2>6. ASSUME NEW s \in Service, Serve(s) \/ SpuriousWakeup(s) PROVE UNCHANGED Abstract!vars
    <3>1. s \in Thread /\ UNCHANGED <<m_callbacks_pending, callback, finished>>
      BY <2>6 DEF Serve, SpuriousWakeup, TakeTask, WaitForTask, ThreadInterrupted, Thread
    <3>2. PICK v \in {"process", "asleep", "check", "gone"} : pc' = [pc EXCEPT ![s] = v]
      BY <2>6 DEF Serve, SpuriousWakeup, TakeTask, WaitForTask, ThreadInterrupted
    <3>3. pc[s] \in {"check", "asleep"}
      BY <2>6 DEF Serve, SpuriousWakeup, TakeTask, WaitForTask, ThreadInterrupted, Interruptible
    <3>4. pc'[s] = v /\ \A u \in Thread : u # s => pc'[u] = pc[u]
      BY <2>0, <3>1, <3>2 DEF TypeOK
    <3> QED BY <3>1, <3>3, <3>4, Invisible
  <2>7. ASSUME NEW c \in Client, Signal(c) \/ Sync(c) \/ ClientStep(c)
        PROVE  [Abstract!Next]_(Abstract!vars)
    <3>0. c \in Thread
      BY DEF Thread
    <3>1. CASE Signal(c) \/ Sync(c)
      BY <2>1, <3>0, <3>1 DEF Signal, Sync
    <3>2. CASE ClientStep(c)
      <4>1. UNCHANGED <<m_callbacks_pending, finished>>
        BY <3>2 DEF ClientStep, Synced, ClientStops
      <4>2. pc[c] \in {"idle", "sync"} /\ pc'[c] \in {"idle", "gone"}
        BY <2>0, <3>0, <3>2 DEF ClientStep, Synced, ClientStops, TypeOK
      <4>3. \A u \in Thread : u # c => pc'[u] = pc[u] /\ callback'[u] = callback[u]
        BY <2>0, <3>0, <3>2 DEF ClientStep, Synced, ClientStops, TypeOK
      <4> QED BY <3>0, <4>1, <4>2, <4>3, Invisible
    <3> QED BY <2>7, <3>1, <3>2
  <2>8. ASSUME Shutdown \/ MainStep PROVE [Abstract!Next]_(Abstract!vars)
    <3>0. Main \in Thread
      BY DEF Thread
    <3>1. CASE ForceFlushStateToDisk
      BY <2>1, <3>0, <3>1 DEF ForceFlushStateToDisk
    <3>2. CASE Shutdown \/ InterruptAll \/ JoinAll \/ EmptyQueue
      <4>1. UNCHANGED <<m_callbacks_pending, callback, finished>>
        BY <3>2 DEF Shutdown, InterruptAll, JoinAll, EmptyQueue
      <4>2. /\ pc[Main] \in {"up", "stop", "join", "empty", "again"}
            /\ \E v \in {"stop", "join", "flush", "process", "gone"} : pc' = [pc EXCEPT ![Main] = v]
        BY <3>2 DEF Shutdown, InterruptAll, JoinAll, EmptyQueue
      <4>3. pc'[Main] # "callback" /\ \A u \in Thread : u # Main => pc'[u] = pc[u]
        BY <2>0, <3>0, <4>2 DEF TypeOK
      <4> QED BY <3>0, <4>1, <4>2, <4>3, Invisible
    <3> QED BY <2>8, <3>1, <3>2 DEF MainStep
  <2>9. CASE UNCHANGED vars
    BY <2>9, SameCurrent DEF vars
  <2> QED BY <2>5, <2>6, <2>7, <2>8, <2>9 DEF Next
<1> QED BY <1>1, <1>2, SpecInv, PTL DEF Spec, ImplementsSerial, Abstract!Spec
=============================================================================
