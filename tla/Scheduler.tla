----------------------------- MODULE Scheduler ------------------------------
(***************************************************************************)
(* CScheduler and SingleThreadedSchedulerClient (scheduler.cpp) as the     *)
(* validation interface uses them (validationinterface.cpp): threads that  *)
(* activate blocks add callbacks, service threads run them through         *)
(* ProcessQueue tasks, ActivateBestChain waits for the queue to drain when *)
(* it has grown too long, and Shutdown (init.cpp) ends the service threads *)
(* and runs what is left itself.                                           *)
(*                                                                         *)
(* A critical section under newTaskMutex or m_cs_callbacks_pending is one  *)
(* step.  The tasks of the scheduler are the ProcessQueue tasks, due when  *)
(* they are scheduled, and at most one task of scheduleEvery.              *)
(***************************************************************************)
EXTENDS Naturals, Sequences, FiniteSets

CONSTANTS Services,      \* threads that run serviceQueue (the node has one)
          Producers,     \* threads that call ActivateBestChain
          Importers,     \* producers in threadGroup: ThreadImport
          Main,          \* the thread that runs Shutdown
          NoThread,      \* nobody holds cs_main
          MaxPending,    \* callbacks pending before ActivateBestChain waits (10)
          MaxBlocks      \* bound: blocks connected in all

ASSUME SchedulerAssumption ==
  /\ IsFiniteSet(Services) /\ Importers \subseteq Producers
  /\ Services \cap Producers = {} /\ Main \notin Services \cup Producers
  /\ NoThread \notin Producers
  /\ MaxPending \in Nat /\ MaxBlocks \in Nat

Threads == Services \cup Producers \cup {Main}

VARIABLES pc,            \* where each thread is, see Places
          item,          \* the callback a thread is adding or calling
          due,           \* the tasks in taskQueue whose time has come, in the
                         \* order of their times
          periodic,      \* the scheduleEvery task: "none", "waiting" (in taskQueue
                         \* with a later time), "due", "running"
          servicing,     \* nThreadsServicingQueue
          stopRequested, stopWhenEmpty,
          pending,       \* m_callbacks_pending
          running,       \* m_are_callbacks_running
          csMain,        \* the holder of cs_main
          tip,           \* number of blocks connected
          promised,      \* threads whose promise has been fulfilled
          interrupted    \* threadGroup.interrupt_all has been called

vars == <<pc, item, due, periodic, servicing, stopRequested, stopWhenEmpty,
          pending, running, csMain, tip, promised, interrupted>>

\* Callbacks: BlockConnected and UpdatedBlockTip of the n-th block, the promise
\* of a thread in SyncWithValidationInterfaceQueue, and the SetBestChain of the last flush.
Callbacks == ({"block", "tip"} \X (1 .. MaxBlocks)) \cup ({"promise"} \X Producers)
             \cup {<<"best", 0>>}
NoItem == <<"none", 0>>

\* Producers: "idle", "lock" (about to take cs_main), "push", "maybe", "sched"
\* (the three steps of AddToProcessQueue), "unlock", "await" (waiting for its
\* promise).  Service threads: "loop" (head of the loop), "wait", "timed" (in
\* wait_until), "late" (the time has passed, newTaskMutex not yet locked
\* again), "pq" (entering ProcessQueue), "call" (in the callback), "raii",
\* "maybe", "sched" (leaving ProcessQueue), "repeat" (in the scheduleEvery
\* task).  "gone": ended.  Main: "up", "stopping", "join", then as a producer
\* and as a service thread, "more" (end of an iteration of EmptyQueue), "end".
Places == {"idle", "lock", "push", "maybe", "sched", "unlock", "await",
           "loop", "wait", "timed", "late", "pq", "call", "raii",
           "repeat", "gone", "up", "stopping", "join", "more", "end"}

TypeOK == /\ pc \in [Threads -> Places]
          /\ item \in [Threads -> Callbacks \cup {NoItem}]
          /\ due \in Seq({"ProcessQueue", "Repeat"}) /\ servicing \in Nat
          /\ periodic \in {"none", "waiting", "due", "running"}
          /\ {stopRequested, stopWhenEmpty, running, interrupted} \subseteq BOOLEAN
          /\ pending \in Seq(Callbacks)
          /\ csMain \in Producers \cup {NoThread}
          /\ tip \in 0 .. MaxBlocks
          /\ promised \subseteq Producers

\* Bound: beside a scheduleEvery task the node connects fewer blocks.
Init == /\ pc = [t \in Threads |-> IF t \in Services THEN "loop"
                                   ELSE IF t \in Producers THEN "idle" ELSE "up"]
        /\ item = [t \in Threads |-> NoItem]
        /\ due = <<>> /\ servicing = Cardinality(Services)
        /\ periodic \in {"none", "waiting"}
        /\ stopRequested = FALSE /\ stopWhenEmpty = FALSE
        /\ pending = <<>> /\ running = FALSE
        /\ tip \in 0 .. MaxBlocks /\ (periodic = "none" <=> tip = 0)
        /\ csMain = NoThread /\ promised = {} /\ interrupted = FALSE

Goto(t, place) == pc' = [pc EXCEPT ![t] = place]

-----------------------------------------------------------------------------
(* CScheduler.                                                             *)

queueVars == <<due, periodic>>
stopVars == <<stopRequested, stopWhenEmpty>>
clientVars == <<pending, running>>
otherVars == <<csMain, tip, promised, interrupted>>

Empty == due = <<>> /\ periodic # "waiting"
shouldStop == stopRequested \/ (stopWhenEmpty /\ Empty)
OnCondition == {s \in Services : pc[s] \in {"wait", "timed", "late"}}

\* newTaskScheduled.notify_one: one waiting thread, if there is one, goes back
\* to the head of the loop (the inner loops test the same conditions).  A late
\* thread may have left the condition variable already.
NotifyOne(pcs) == {[pcs EXCEPT ![s] = "loop"] : s \in OnCondition}
                  \cup (IF \A s \in OnCondition : pcs[s] = "late" THEN {pcs} ELSE {})

\* The head of the loop up to where newTaskMutex is released: leave, wait for
\* a task, or wait for the time of the first one.
LoopHead(s) == /\ pc[s] = "loop" /\ ~interrupted
               /\ IF shouldStop
                    THEN /\ servicing' = servicing - 1
                         /\ \E pcs \in NotifyOne(pc) : pc' = [pcs EXCEPT ![s] = "gone"]
                    ELSE /\ Goto(s, IF Empty THEN "wait"
                                    ELSE IF due # <<>> THEN "late"
                                    ELSE "timed")
                         /\ UNCHANGED servicing
               /\ UNCHANGED <<item, queueVars, stopVars, clientVars, otherVars>>

\* The time of the task a thread waits for passes.
Tick == /\ periodic = "waiting"
        /\ periodic' = "due"
        /\ due' = Append(due, "Repeat")
        /\ pc' = [t \in Threads |-> IF pc[t] = "timed" THEN "late" ELSE pc[t]]
        /\ UNCHANGED <<item, servicing, stopVars, clientVars, otherVars>>

\* A condition variable may wake a thread that nobody notified.
SpuriousWake(s) == /\ pc[s] \in {"wait", "timed"}
                   /\ Goto(s, "loop")
                   /\ UNCHANGED <<item, queueVars, servicing, stopVars, clientVars, otherVars>>

\* wait_until times out: the thread takes the first task of the queue, which need
\* not be the one it waited for: another thread may have taken that one.
TakeFirst(s) == /\ pc[s] = "late" /\ ~interrupted
                /\ \/ /\ shouldStop \/ Empty
                      /\ Goto(s, "loop")
                      /\ UNCHANGED queueVars
                   \/ /\ ~shouldStop /\ due # <<>>
                      /\ due' = Tail(due)
                      /\ IF Head(due) = "ProcessQueue"
                           THEN Goto(s, "pq") /\ UNCHANGED periodic
                           ELSE Goto(s, "repeat") /\ periodic' = "running"
                   \/ /\ ~shouldStop /\ due = <<>> /\ periodic = "waiting"
                      /\ periodic' = "running"
                      /\ Goto(s, "repeat")
                      /\ UNCHANGED due
                /\ UNCHANGED <<item, servicing, stopVars, clientVars, otherVars>>

\* Repeat: the task (which takes cs_main) and its new entry in the queue.
Repeat(s) == /\ pc[s] = "repeat" /\ csMain = NoThread
             /\ periodic' = "waiting"
             /\ \E pcs \in NotifyOne(pc) : pc' = [pcs EXCEPT ![s] = "loop"]
             /\ UNCHANGED <<item, due, servicing, stopVars, clientVars, otherVars>>

\* Faulty variant of Interrupted: a thread that is interrupted leaves without
\* the catch clause.
InterruptedUncounted(s) == /\ interrupted /\ pc[s] \in {"loop", "wait", "timed", "late"}
                           /\ Goto(s, "gone")
                           /\ UNCHANGED <<item, queueVars, servicing, stopVars, clientVars, otherVars>>

\* boost::thread_interrupted leaves serviceQueue from any wait, also when the
\* interruption was requested before the wait began.
Interrupted(s) == /\ interrupted /\ pc[s] \in {"loop", "wait", "timed", "late"}
                  /\ servicing' = servicing - 1
                  /\ Goto(s, "gone")
                  /\ UNCHANGED <<item, queueVars, stopVars, clientVars, otherVars>>

-----------------------------------------------------------------------------
(* SingleThreadedSchedulerClient.  ProcessQueue is run by service threads   *)
(* and, in EmptyQueue, by Main.                                            *)

\* Where a thread goes after AddToProcessQueue or ProcessQueue.
Return(t) == IF t \in Services THEN "loop"
             ELSE IF t = Main THEN "more"
             ELSE CASE item[t][1] = "block" -> "unlock"
                    [] item[t][1] = "tip" -> "idle"
                    [] OTHER -> "await"

Released(t) == IF item[t][1] = "tip" THEN [item EXCEPT ![t] = NoItem] ELSE item

\* AddToProcessQueue, first step.
Push(t) == /\ pc[t] = "push"
           /\ pending' = Append(pending, item[t])
           /\ Goto(t, "maybe")
           /\ UNCHANGED <<item, queueVars, servicing, stopVars, running, otherVars>>

\* MaybeScheduleProcessQueue: the test under the lock, then schedule.
MaybeScheduleProcessQueue(t) ==
  /\ pc[t] = "maybe"
  /\ IF running \/ pending = <<>>
       THEN Goto(t, Return(t)) /\ item' = Released(t)
       ELSE Goto(t, "sched") /\ UNCHANGED item
  /\ UNCHANGED <<queueVars, servicing, stopVars, clientVars, otherVars>>

\* Faulty variant of Schedule: the task is queued and nobody is notified.
ScheduleSilent(t) == /\ pc[t] = "sched"
                     /\ due' = Append(due, "ProcessQueue")
                     /\ Goto(t, Return(t))
                     /\ item' = Released(t)
                     /\ UNCHANGED <<periodic, servicing, stopVars, clientVars, otherVars>>

Schedule(t) == /\ pc[t] = "sched"
               /\ due' = Append(due, "ProcessQueue")
               /\ \E pcs \in NotifyOne(pc) : pc' = [pcs EXCEPT ![t] = Return(t)]
               /\ item' = Released(t)
               /\ UNCHANGED <<periodic, servicing, stopVars, clientVars, otherVars>>

\* Faulty variant of ProcessQueue: no test of m_are_callbacks_running.
ProcessQueueAnyway(t) == /\ pc[t] = "pq"
                         /\ IF pending = <<>>
                              THEN /\ Goto(t, IF t = Main THEN "more" ELSE "loop")
                                   /\ UNCHANGED <<item, clientVars>>
                              ELSE /\ running' = TRUE
                                   /\ item' = [item EXCEPT ![t] = Head(pending)]
                                   /\ pending' = Tail(pending)
                                   /\ Goto(t, "call")
                         /\ UNCHANGED <<queueVars, servicing, stopVars, otherVars>>

ProcessQueue(t) == /\ pc[t] = "pq"
                   /\ IF running \/ pending = <<>>
                        THEN /\ Goto(t, IF t = Main THEN "more" ELSE "loop")
                             /\ UNCHANGED <<item, clientVars>>
                        ELSE /\ running' = TRUE
                             /\ item' = [item EXCEPT ![t] = Head(pending)]
                             /\ pending' = Tail(pending)
                             /\ Goto(t, "call")
                   /\ UNCHANGED <<queueVars, servicing, stopVars, otherVars>>

\* The callback: a promise is fulfilled; a listener such as the wallet takes
\* cs_main.
Call(t) == /\ pc[t] = "call"
           /\ IF item[t][1] = "promise"
                THEN promised' = promised \cup {item[t][2]}
                ELSE csMain = NoThread /\ UNCHANGED promised
           /\ Goto(t, "raii")
           /\ item' = [item EXCEPT ![t] = NoItem]
           /\ UNCHANGED <<queueVars, servicing, stopVars, clientVars, csMain, tip, interrupted>>

\* Faulty variant of ResetRunning: a new ProcessQueue is asked for first and
\* the flag reset afterwards, when nobody looks again.
ResetRunningLate(t) == /\ pc[t] = "raii"
                       /\ running' = FALSE
                       /\ Goto(t, Return(t))
                       /\ UNCHANGED <<item, queueVars, servicing, stopVars, pending, otherVars>>

\* The destructor of RAIICallbacksRunning, also when the callback has thrown.
ResetRunning(t) == /\ pc[t] = "raii"
                   /\ running' = FALSE
                   /\ Goto(t, "maybe")
                   /\ UNCHANGED <<item, queueVars, servicing, stopVars, pending, otherVars>>

-----------------------------------------------------------------------------
(* The users: ActivateBestChain, SyncWithValidationInterfaceQueue.         *)

\* An operation begins while the node is up; the import thread goes on until
\* it is interrupted.
MayBegin(p) == /\ pc[p] = "idle"
               /\ IF p \in Importers THEN ~interrupted ELSE pc[Main] = "up"

\* Faulty variant of Throttle: the queue is drained under cs_main.
ThrottleLocked(p) == /\ MayBegin(p) /\ tip < MaxBlocks
                     /\ IF Len(pending) > MaxPending
                          THEN /\ csMain = NoThread /\ csMain' = p
                               /\ item' = [item EXCEPT ![p] = <<"promise", p>>]
                               /\ Goto(p, "push")
                          ELSE Goto(p, "lock") /\ UNCHANGED <<item, csMain>>
                     /\ UNCHANGED <<queueVars, servicing, stopVars, clientVars, tip, promised, interrupted>>

\* ActivateBestChain, head of its loop: too many callbacks pending, so wait.
Throttle(p) == /\ MayBegin(p) /\ tip < MaxBlocks
               /\ IF Len(pending) > MaxPending
                    THEN /\ item' = [item EXCEPT ![p] = <<"promise", p>>]
                         /\ Goto(p, "push")
                    ELSE Goto(p, "lock") /\ UNCHANGED item
               /\ UNCHANGED <<queueVars, servicing, stopVars, clientVars, otherVars>>

\* Faulty variant of Connect: BlockConnected is sent after cs_main is released.
ConnectUnlocked(p) == /\ pc[p] = "lock" /\ csMain = NoThread
                      /\ IF tip < MaxBlocks
                           THEN /\ tip' = tip + 1
                                /\ item' = [item EXCEPT ![p] = <<"block", tip + 1>>]
                                /\ Goto(p, "push")
                           ELSE Goto(p, "idle") /\ UNCHANGED <<item, tip>>
                      /\ UNCHANGED <<queueVars, servicing, stopVars, clientVars, csMain, promised, interrupted>>

\* Under cs_main a block is connected and BlockConnected sent; with nothing to
\* connect the call returns.
Connect(p) == /\ pc[p] = "lock" /\ csMain = NoThread
              /\ IF tip < MaxBlocks
                   THEN /\ csMain' = p /\ tip' = tip + 1
                        /\ item' = [item EXCEPT ![p] = <<"block", tip + 1>>]
                        /\ Goto(p, "push")
                   ELSE Goto(p, "idle") /\ UNCHANGED <<item, csMain, tip>>
              /\ UNCHANGED <<queueVars, servicing, stopVars, clientVars, promised, interrupted>>

\* cs_main is released, and then UpdatedBlockTip is sent.
Unlock(p) == /\ pc[p] = "unlock"
             /\ csMain' = NoThread
             /\ item' = [item EXCEPT ![p] = <<"tip", @[2]>>]
             /\ Goto(p, "push")
             /\ UNCHANGED <<queueVars, servicing, stopVars, clientVars, tip, promised, interrupted>>

\* promise.get_future().wait() returns (an RPC call that waits for the wallet to
\* catch up does the same and then returns).
Await(p) == /\ pc[p] = "await" /\ p \in promised
            /\ promised' = promised \ {p}
            /\ Goto(p, "lock")
            /\ item' = [item EXCEPT ![p] = NoItem]
            /\ UNCHANGED <<queueVars, servicing, stopVars, clientVars, csMain, tip, interrupted>>

\* The import thread ends, by itself or at an interruption point.
ImportEnds(p) == /\ p \in Importers /\ pc[p] = "idle"
                 /\ Goto(p, "gone")
                 /\ UNCHANGED <<item, queueVars, servicing, stopVars, clientVars, otherVars>>

-----------------------------------------------------------------------------
(* Shutdown.                                                               *)

\* Servers and connections are told to stop ...
Shutdown == /\ pc[Main] = "up"
            /\ Goto(Main, "stopping")
            /\ UNCHANGED <<item, queueVars, servicing, stopVars, clientVars, otherVars>>

\* ... and joined; then the thread group is interrupted, or the scheduler told
\* to stop.  A user of stop(true) must have no scheduleEvery task, which would
\* never leave the queue empty.
StopServices ==
  /\ pc[Main] = "stopping"
  /\ \A p \in Producers \ Importers : pc[p] = "idle"
  /\ \/ /\ interrupted' = TRUE
        /\ Goto(Main, "join")
        /\ UNCHANGED stopVars
     \/ /\ \A p \in Importers : pc[p] = "gone"
        /\ \/ stopRequested' = TRUE /\ UNCHANGED stopWhenEmpty
           \/ periodic = "none" /\ stopWhenEmpty' = TRUE /\ UNCHANGED stopRequested
        /\ pc' = [t \in Threads |-> IF t \in OnCondition THEN "loop"
                                    ELSE IF t = Main THEN "join" ELSE pc[t]]
        /\ UNCHANGED interrupted
  /\ UNCHANGED <<item, queueVars, servicing, clientVars, csMain, tip, promised>>

\* threadGroup.join_all; FlushStateToDisk sends SetBestChain.
Join == /\ pc[Main] = "join"
        /\ \A t \in Services \cup Importers : pc[t] = "gone"
        /\ item' = [item EXCEPT ![Main] = <<"best", 0>>]
        /\ Goto(Main, "push")
        /\ UNCHANGED <<queueVars, servicing, stopVars, clientVars, otherVars>>

\* EmptyQueue: one ProcessQueue after the other until nothing is pending.
EmptyQueue == /\ pc[Main] = "more"
              /\ Goto(Main, IF pending = <<>> /\ item[Main] = NoItem THEN "end" ELSE "pq")
              /\ item' = [item EXCEPT ![Main] = NoItem]
              /\ UNCHANGED <<queueVars, servicing, stopVars, clientVars, otherVars>>

-----------------------------------------------------------------------------
Client(t) == \/ Push(t) \/ MaybeScheduleProcessQueue(t) \/ Schedule(t)
             \/ ProcessQueue(t) \/ Call(t) \/ ResetRunning(t)
Service(s) == \/ LoopHead(s) \/ TakeFirst(s) \/ Repeat(s)
              \/ Interrupted(s) \/ Client(s)
Continue(p) == Client(p) \/ Connect(p) \/ Unlock(p) \/ Await(p) \/ ImportEnds(p)
Stopping == StopServices \/ Join \/ EmptyQueue \/ Client(Main)

Next == \/ \E s \in Services : Service(s) \/ SpuriousWake(s)
        \/ \E p \in Producers : Continue(p) \/ Throttle(p)
        \/ Tick \/ Shutdown \/ Stopping

Spec == Init /\ [][Next]_vars

\* Every thread that can run is run and time passes.  Nobody has to begin an
\* operation or the shutdown, and no wake-up comes by itself.
Fairness == /\ \A s \in Services : WF_vars(Service(s))
            /\ \A p \in Producers : WF_vars(Continue(p))
            /\ WF_vars(Tick) /\ WF_vars(Stopping)

FairSpec == Spec /\ Fairness

-----------------------------------------------------------------------------
(* Properties.                                                             *)

\* The client is a serial queue: in order, once, never two callbacks at the
\* same time, although several service threads and EmptyQueue run
\* ProcessQueue, and several tasks for it may be queued.
Serial == INSTANCE SerialQueue WITH
            Jobs <- Callbacks, queue <- pending,
            active <- {item[t] : t \in {u \in Threads : pc[u] = "call"}}
SerialQueueSpec == Serial!Spec

\* A pending callback is never forgotten: unless one is running (and will look
\* again when it is done) a ProcessQueue is queued, begun or about to be queued.
NoStrandedCallback ==
  pending # <<>> /\ ~running =>
    \/ \E i \in DOMAIN due : due[i] = "ProcessQueue"
    \/ \E t \in Threads : pc[t] \in {"maybe", "sched", "pq", "raii"}
    \/ pc[Main] = "more"

\* BlockConnected notifications are delivered in the order in which the blocks
\* were connected, whatever threads connected them.
BlocksInOrder ==
  LET called == {item[t][2] : t \in {u \in Threads : pc[u] = "call" /\ item[u][1] = "block"}}
      waiting == {i \in DOMAIN pending : pending[i][1] = "block"}
  IN /\ \A i, j \in waiting : i < j => pending[i][2] < pending[j][2]
     /\ \A n \in called : \A i \in waiting : n < pending[i][2]

\* EmptyQueue's assertion: nobody services the queue any more.
EmptyQueueAlone == pc[Main] \in {"more", "pq", "call", "raii", "end"} => servicing = 0

\* The one way in which shutdown hangs: interrupt_all ends the service threads
\* while the import thread waits for its promise, which cannot be interrupted.
ImportHangs == \E p \in Importers : /\ pc[p] = "await" /\ p \notin promised
                                    /\ \A s \in Services : pc[s] = "gone"

\* A thread that waits for the queue to drain is released: the callbacks
\* before its promise never wait for something it holds.
SyncReturns == \A p \in Producers : pc[p] = "await" ~> (pc[p] # "await" \/ ImportHangs)

\* Shutdown comes to its end with no callback left behind, ImportHangs aside.
ShutdownEnds ==
  pc[Main] = "stopping" ~> ((pc[Main] = "end" /\ pending = <<>>) \/ ImportHangs)
=============================================================================
