---------------------------- MODULE SignalQueue ----------------------------
(***************************************************************************)
(* Validation signals: threads add callbacks to a                          *)
(* SingleThreadedSchedulerClient, which schedules runs of ProcessQueue on  *)
(* a CScheduler served by any number of threads (scheduler.cpp,            *)
(* validationinterface.cpp), until Shutdown (init.cpp) interrupts the      *)
(* thread group and empties the queue itself.                              *)
(*                                                                         *)
(* An action is one critical section of newTaskMutex or of                 *)
(* m_cs_callbacks_pending, or the body of a callback.  All tasks of the    *)
(* scheduler are runs of ProcessQueue, due at once, so the task queue is a *)
(* number; a callback is the number under which it was added.              *)
(***************************************************************************)
EXTENDS Integers, Sequences

CONSTANTS
  Service,      \* threads in serviceQueue
  Client,       \* threads that add callbacks
  Group,        \* the clients in threadGroup: ThreadImport, CleanBlockIndex
  Syncing,      \* the clients that call SyncWithValidationInterfaceQueue
  Main,         \* the thread that runs Shutdown
  MaxCallback   \* bound on the callbacks added by the clients

Thread == Service \cup Client \cup {Main}

NoCallback == 0
Callback == 1..(MaxCallback + 1)   \* Shutdown adds the last one

ASSUME ThreadAssumption ==
  /\ Service \cap Client = {} /\ Main \notin Service \cup Client
  /\ Group \subseteq Client /\ Syncing \subseteq Client
  /\ MaxCallback \in Nat

VARIABLES
  m_callbacks_pending,
  m_are_callbacks_running,
  taskQueue,    \* number of scheduled runs of ProcessQueue
  pc,           \* where a thread is
  ret,          \* where it goes on after MaybeScheduleProcessQueue
  callback,     \* what it runs, or what SyncWith... waits for
  interrupted,  \* threadGroup.interrupt_all() was called
  added,        \* number of callbacks added
  finished      \* history: the callbacks that ran, in order

vars == <<m_callbacks_pending, m_are_callbacks_running, taskQueue, pc, ret,
          callback, interrupted, added, finished>>

Stage == {"idle", "sync", "asleep", "check", "process", "callback", "finish", "maybe",
          "schedule", "up", "stop", "join", "flush", "empty", "again", "gone"}

TypeOK ==
  /\ m_callbacks_pending \in Seq(Callback)
  /\ m_are_callbacks_running \in BOOLEAN
  /\ taskQueue \in Nat
  /\ pc \in [Thread -> Stage]
  /\ ret \in [Thread -> Stage]
  /\ callback \in [Thread -> Callback \cup {NoCallback}]
  /\ interrupted \in BOOLEAN
  /\ added \in 0..(MaxCallback + 1)
  /\ finished \in Seq(Callback)

Init ==
  /\ m_callbacks_pending = <<>>
  /\ m_are_callbacks_running = FALSE
  /\ taskQueue = 0
  /\ pc = [t \in Thread |-> IF t \in Service THEN "check"
                            ELSE IF t = Main THEN "up" ELSE "idle"]
  /\ ret = [t \in Thread |-> IF t \in Service THEN "check" ELSE "idle"]
  /\ callback = [t \in Thread |-> NoCallback]
  /\ interrupted = FALSE
  /\ added = 0
  /\ finished = <<>>

-----------------------------------------------------------------------------
(* AddToProcessQueue, by a caller that goes on at next.                    *)
AddToProcessQueue(t, next) ==
  /\ added' = added + 1
  /\ m_callbacks_pending' = Append(m_callbacks_pending, added + 1)
  /\ pc' = [pc EXCEPT ![t] = "maybe"]
  /\ ret' = [ret EXCEPT ![t] = next]
  /\ callback' = [callback EXCEPT ![t] = IF next = "sync" THEN added + 1 ELSE NoCallback]
  /\ UNCHANGED <<m_are_callbacks_running, taskQueue, interrupted, finished>>

(* CMainSignals: a notification, or SyncWithValidationInterfaceQueue.      *)
Signal(c) ==
  /\ pc[c] = "idle" /\ added < MaxCallback
  /\ AddToProcessQueue(c, "idle")

Sync(c) ==
  /\ pc[c] = "idle" /\ added < MaxCallback /\ c \in Syncing
  /\ AddToProcessQueue(c, "sync")

(* The promise of SyncWithValidationInterfaceQueue is set.                 *)
Synced(c) ==
  /\ pc[c] = "sync"
  /\ \E i \in DOMAIN finished : finished[i] = callback[c]
  /\ pc' = [pc EXCEPT ![c] = "idle"]
  /\ callback' = [callback EXCEPT ![c] = NoCallback]
  /\ UNCHANGED <<m_callbacks_pending, m_are_callbacks_running, taskQueue, ret,
                 interrupted, added, finished>>

NeedsRun == ~m_are_callbacks_running /\ m_callbacks_pending # <<>>

(* MaybeScheduleProcessQueue: the test, and outside of its lock the call   *)
(* of schedule.                                                            *)
MaybeScheduleProcessQueue(t) ==
  /\ pc[t] = "maybe"
  /\ pc' = [pc EXCEPT ![t] = IF NeedsRun THEN "schedule" ELSE ret[t]]
  /\ UNCHANGED <<m_callbacks_pending, m_are_callbacks_running, taskQueue, ret,
                 callback, interrupted, added, finished>>

Asleep == {s \in Service : pc[s] = "asleep"}

NotifyNone == {}
NotifyOne == Asleep

(* schedule: insert and notify_one.                                        *)
Schedule(t) ==
  /\ pc[t] = "schedule"
  /\ taskQueue' = taskQueue + 1
  /\ \/ NotifyOne = {} /\ pc' = [pc EXCEPT ![t] = ret[t]]
     \/ \E s \in NotifyOne : pc' = [pc EXCEPT ![t] = ret[t], ![s] = "check"]
  /\ UNCHANGED <<m_callbacks_pending, m_are_callbacks_running, ret, callback,
                 interrupted, added, finished>>

-----------------------------------------------------------------------------
(* serviceQueue.  The waits are interruption points, also the one for the  *)
(* time of a task that is due; after it the queue is looked at again,      *)
(* another thread may have taken the task.                                 *)
HasTask == taskQueue > 0

TakeTask(s) ==
  /\ pc[s] = "check" /\ ~interrupted
  /\ HasTask
  /\ taskQueue' = taskQueue - 1
  /\ pc' = [pc EXCEPT ![s] = "process"]
  /\ UNCHANGED <<m_callbacks_pending, m_are_callbacks_running, ret, callback,
                 interrupted, added, finished>>

MustWait == taskQueue = 0

WaitForTask(s) ==
  /\ pc[s] = "check" /\ ~interrupted
  /\ MustWait
  /\ pc' = [pc EXCEPT ![s] = "asleep"]
  /\ UNCHANGED <<m_callbacks_pending, m_are_callbacks_running, taskQueue, ret,
                 callback, interrupted, added, finished>>

SpuriousWakeup(s) ==
  /\ pc[s] = "asleep"
  /\ pc' = [pc EXCEPT ![s] = "check"]
  /\ UNCHANGED <<m_callbacks_pending, m_are_callbacks_running, taskQueue, ret,
                 callback, interrupted, added, finished>>

(* boost::thread_interrupted ends serviceQueue.                            *)
InterruptibleAwake(s) == pc[s] = "check"
Interruptible(s) == pc[s] \in {"check", "asleep"}

ThreadInterrupted(s) ==
  /\ Interruptible(s) /\ interrupted
  /\ pc' = [pc EXCEPT ![s] = "gone"]
  /\ UNCHANGED <<m_callbacks_pending, m_are_callbacks_running, taskQueue, ret,
                 callback, interrupted, added, finished>>

-----------------------------------------------------------------------------
(* ProcessQueue, in a service thread or in EmptyQueue.                     *)
BusyNever == m_callbacks_pending = <<>>
Busy == m_are_callbacks_running \/ m_callbacks_pending = <<>>

AfterProcess(t) == IF t = Main THEN "again" ELSE "check"

ProcessNothing(t) ==
  /\ pc[t] = "process"
  /\ Busy
  /\ pc' = [pc EXCEPT ![t] = AfterProcess(t)]
  /\ UNCHANGED <<m_callbacks_pending, m_are_callbacks_running, taskQueue, ret,
                 callback, interrupted, added, finished>>

ProcessQueue(t) ==
  /\ pc[t] = "process"
  /\ ~Busy
  /\ m_are_callbacks_running' = TRUE
  /\ callback' = [callback EXCEPT ![t] = Head(m_callbacks_pending)]
  /\ m_callbacks_pending' = Tail(m_callbacks_pending)
  /\ pc' = [pc EXCEPT ![t] = "callback"]
  /\ UNCHANGED <<taskQueue, ret, interrupted, added, finished>>

RunCallback(t) ==
  /\ pc[t] = "callback"
  /\ finished' = Append(finished, callback[t])
  /\ callback' = [callback EXCEPT ![t] = NoCallback]
  /\ pc' = [pc EXCEPT ![t] = "finish"]
  /\ UNCHANGED <<m_callbacks_pending, m_are_callbacks_running, taskQueue, ret,
                 interrupted, added>>

(* ~RAIICallbacksRunning; it ends in MaybeScheduleProcessQueue.            *)
NoReschedule(t) == AfterProcess(t)
Reschedule(t) == "maybe"

CallbacksRunning(t) ==
  /\ pc[t] = "finish"
  /\ m_are_callbacks_running' = FALSE
  /\ pc' = [pc EXCEPT ![t] = Reschedule(t)]
  /\ ret' = [ret EXCEPT ![t] = AfterProcess(t)]
  /\ UNCHANGED <<m_callbacks_pending, taskQueue, callback, interrupted, added, finished>>

-----------------------------------------------------------------------------
(* Shutdown: every client ends when it is done with what it does, those    *)
(* outside of the group are joined, the group is interrupted and joined, a *)
(* last flush adds its notification, and the queue is emptied.  What is    *)
(* added later is dropped, so the model ends there.                        *)
Shutdown ==
  /\ pc[Main] = "up"
  /\ pc' = [pc EXCEPT ![Main] = "stop"]
  /\ UNCHANGED <<m_callbacks_pending, m_are_callbacks_running, taskQueue, ret,
                 callback, interrupted, added, finished>>

ClientStops(c) ==
  /\ pc[c] = "idle" /\ pc[Main] # "up"
  /\ pc' = [pc EXCEPT ![c] = "gone"]
  /\ UNCHANGED <<m_callbacks_pending, m_are_callbacks_running, taskQueue, ret,
                 callback, interrupted, added, finished>>

InterruptAll ==
  /\ pc[Main] = "stop"
  /\ \A c \in Client \ Group : pc[c] = "gone"
  /\ interrupted' = TRUE
  /\ pc' = [pc EXCEPT ![Main] = "join"]
  /\ UNCHANGED <<m_callbacks_pending, m_are_callbacks_running, taskQueue, ret,
                 callback, added, finished>>

Joined == \A t \in Service \cup Group : pc[t] = "gone"

JoinAll ==
  /\ pc[Main] = "join"
  /\ Joined
  /\ pc' = [pc EXCEPT ![Main] = "flush"]
  /\ UNCHANGED <<m_callbacks_pending, m_are_callbacks_running, taskQueue, ret,
                 callback, interrupted, added, finished>>

(* ForceFlushStateToDisk signals ChainStateFlushed.                        *)
ForceFlushStateToDisk ==
  /\ pc[Main] = "flush"
  /\ AddToProcessQueue(Main, "empty")

(* EmptyQueue *)
EmptyQueue ==
  /\ \/ pc[Main] = "empty" /\ pc' = [pc EXCEPT ![Main] = "process"]
     \/ pc[Main] = "again" /\ pc' = [pc EXCEPT ![Main] = IF m_callbacks_pending # <<>> THEN "process" ELSE "gone"]
  /\ UNCHANGED <<m_callbacks_pending, m_are_callbacks_running, taskQueue, ret,
                 callback, interrupted, added, finished>>

-----------------------------------------------------------------------------
Calls(t) ==
  MaybeScheduleProcessQueue(t) \/ Schedule(t) \/ ProcessNothing(t) \/ ProcessQueue(t)
    \/ RunCallback(t) \/ CallbacksRunning(t)

Serve(s) == TakeTask(s) \/ WaitForTask(s) \/ ThreadInterrupted(s)

ClientStep(c) == Synced(c) \/ ClientStops(c)

MainStep == InterruptAll \/ JoinAll \/ ForceFlushStateToDisk \/ EmptyQueue

Next ==
  \/ \E t \in Thread : Calls(t)
  \/ \E s \in Service : Serve(s) \/ SpuriousWakeup(s)
  \/ \E c \in Client : Signal(c) \/ Sync(c) \/ ClientStep(c)
  \/ Shutdown \/ MainStep

Spec == Init /\ [][Next]_vars

(* Every thread that can go on does; clients need not add callbacks, and   *)
(* nobody has to ask for a shutdown.                                       *)
FairSpec ==
  /\ Spec
  /\ \A t \in Thread : WF_vars(Calls(t))
  /\ \A s \in Service : WF_vars(Serve(s))
  /\ \A c \in Client : WF_vars(ClientStep(c))
  /\ WF_vars(MainStep)

-----------------------------------------------------------------------------
(* A callback that waits is not forgotten: one is running, or a run of     *)
(* ProcessQueue is scheduled, about to be scheduled or about to look at    *)
(* the queue.  MaybeScheduleProcessQueue tests before it schedules, and    *)
(* relies on the end of the running callback to test again.                *)
CallbackScheduled ==
  m_callbacks_pending # <<>> =>
    \/ m_are_callbacks_running \/ taskQueue > 0
    \/ \E t \in Thread : pc[t] \in {"maybe", "schedule", "process", "empty", "again"}

(* The assertion of EmptyQueue: no thread serves the scheduler any more.   *)
(* When it returns, everything that was added has run.                     *)
EmptyQueueAlone ==
  /\ pc[Main] \in {"empty", "process", "callback", "again"} => \A s \in Service : pc[s] = "gone"
  /\ pc[Main] = "gone" => m_callbacks_pending = <<>> /\ Len(finished) = added

(* "Callbacks are executed serially ... as if they are executed in order   *)
(* by a single thread", whatever number of threads serves the scheduler.   *)
Current ==
  IF \E t \in Thread : pc[t] = "callback"
  THEN callback[CHOOSE t \in Thread : pc[t] = "callback"] ELSE NoCallback
Abstract == INSTANCE SerialQueue WITH pending <- m_callbacks_pending, current <- Current
ImplementsSerial == Abstract!Spec

(* Every callback runs, also when a shutdown comes in between.             *)
CallbackRuns == \A n \in Callback : added >= n ~> Len(finished) >= n

(* The comment on thread management in init.cpp: the main thread "makes    *)
(* all other on-going threads in the thread group join the main thread",   *)
(* and Shutdown comes to its end.                                          *)
ShutdownEnds == pc[Main] = "stop" ~> pc[Main] = "gone"
=============================================================================
