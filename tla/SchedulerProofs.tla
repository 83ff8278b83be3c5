-------------------------- MODULE SchedulerProofs ---------------------------
(***************************************************************************)
(* Proofs about Scheduler, for any numbers of service threads, producers   *)
(* and import threads and any throttle and number of blocks.               *)
(***************************************************************************)
EXTENDS Scheduler, FiniteSetTheorems, TLAPS

-----------------------------------------------------------------------------
(* The inductive invariant.                                                *)

\* Service threads and Main never hold one another's places; a producer is
\* never inside ProcessQueue.
ServicePlaces == {"loop", "wait", "timed", "late", "pq", "call", "raii",
                  "maybe", "sched", "repeat", "gone"}
ProducerPlaces == {"idle", "lock", "push", "maybe", "sched", "unlock", "await", "gone"}
AfterJoin == {"push", "maybe", "sched", "more", "pq", "call", "raii", "end"}
MainPlaces == {"up", "stopping", "join"} \cup AfterJoin

RolesOK == /\ \A s \in Services : pc[s] \in ServicePlaces
           /\ \A p \in Producers : pc[p] \in ProducerPlaces
           /\ pc[Main] \in MainPlaces

\* m_are_callbacks_running is set exactly while one thread, and only one, is
\* between the test in ProcessQueue and the destructor of RAIICallbacksRunning.
Executing == {"call", "raii"}
RunningOK == /\ running <=> \E t \in Threads : pc[t] \in Executing
             /\ \A t, u \in Threads : pc[t] \in Executing /\ pc[u] \in Executing => t = u

\* nThreadsServicingQueue counts the service threads that have not left, and
\* Main touches the queue only after all of them have.
Live == {s \in Services : pc[s] # "gone"}
ServicingOK == /\ servicing = Cardinality(Live)
               /\ pc[Main] \in AfterJoin => Live = {}

\* What a thread adds or calls is a callback, and a thread with a
\* BlockConnected in its hands holds cs_main until it has been added.
ItemsOK ==
  /\ \A t \in Threads : pc[t] \in {"push", "call"} => item[t] \in Callbacks
  /\ \A p \in Producers : pc[p] \in {"maybe", "sched", "unlock"} => item[p] \in Callbacks
  /\ \A p \in Producers : pc[p] = "unlock" => item[p][1] = "block"
  /\ pc[Main] = "push" => item[Main][1] # "block"

Adding == {"push", "maybe", "sched", "unlock"}
LockOK == \A p \in Producers : pc[p] \in Adding /\ item[p][1] = "block" => csMain = p

\* A BlockConnected about to be added is of the tip; every one added earlier is
\* of an earlier block.
PushesBlock(p) == pc[p] = "push" /\ item[p][1] = "block"
Earlier(n) == n <= tip /\ ((\E p \in Producers : PushesBlock(p)) => n < tip)
OrderOK ==
  /\ \A p \in Producers : PushesBlock(p) => item[p][2] = tip
  /\ \A i \in DOMAIN pending : pending[i][1] = "block" => Earlier(pending[i][2])
  /\ \A t \in Threads : pc[t] = "call" /\ item[t][1] = "block" => Earlier(item[t][2])

IInv == /\ TypeOK /\ RolesOK /\ RunningOK /\ ServicingOK
        /\ ItemsOK /\ LockOK /\ OrderOK
        /\ NoStrandedCallback /\ BlocksInOrder
-----------------------------------------------------------------------------
(* How a step moves the threads.                                           *)

\* A notification moves at most one waiting service thread, to the head of the
\* loop, and no other thread.
LEMMA NotifyMoves ==
  ASSUME TypeOK, NEW pcs \in NotifyOne(pc)
  PROVE  /\ pcs \in [Threads -> Places]
         /\ \A t \in Threads : pcs[t] = pc[t] \/ (t \in OnCondition /\ pcs[t] = "loop")
<1>1. OnCondition \subseteq Threads
  BY DEF OnCondition, Threads
<1>2. CASE pcs = pc
  BY <1>2 DEF TypeOK
<1>3. CASE \E s \in OnCondition : pcs = [pc EXCEPT ![s] = "loop"]
  BY <1>1, <1>3 DEF TypeOK, Places
<1>4. QED
  BY <1>2, <1>3 DEF NotifyOne

\* A step of thread t takes it to place and moves others only from a wait on
\* the condition variable to the head of the loop.
Moves(t, place) ==
  /\ pc' \in [Threads -> Places] /\ pc'[t] = place
  /\ \A u \in Threads \ {t} :
       pc'[u] = pc[u] \/ (u \in OnCondition /\ pc'[u] = "loop")

\* The two ways in which an action moves its thread.
LEMMA GotoMoves ==
  ASSUME TypeOK, NEW t \in Threads, NEW place \in Places, Goto(t, place)
  PROVE  Moves(t, place)
  BY DEF TypeOK, Goto, Moves

\* The same when a thread notifies one waiting thread and moves itself.
LEMMA NotifyingMoves ==
  ASSUME TypeOK, NEW t \in Threads, NEW place \in Places,
         \E pcs \in NotifyOne(pc) : pc' = [pcs EXCEPT ![t] = place]
  PROVE  Moves(t, place)
<1>1. PICK pcs \in NotifyOne(pc) : pc' = [pcs EXCEPT ![t] = place]
  OBVIOUS
<1>2. QED
  BY <1>1, NotifyMoves DEF Moves

\* The number of live service threads depends on who is gone only.
LEMMA LiveKept ==
  ASSUME \A s \in Services : pc'[s] = "gone" <=> pc[s] = "gone"
  PROVE  Live' = Live
  BY DEF Live

\* A service thread that leaves is counted out.
LEMMA LiveLeaves ==
  ASSUME ServicingOK, NEW s \in Services, pc[s] # "gone", Moves(s, "gone"),
         servicing' = servicing - 1
  PROVE  /\ Live' = Live \ {s}
         /\ servicing' = Cardinality(Live') /\ servicing' \in Nat
<1>1. Live' = Live \ {s} /\ s \in Live
  BY DEF Live, Moves, OnCondition, Threads
<1>2. IsFiniteSet(Live)
  BY SchedulerAssumption, FS_Subset DEF Live
<1>3. /\ Cardinality(Live \ {s}) = Cardinality(Live) - 1
      /\ IsFiniteSet(Live \ {s})
  BY <1>1, <1>2, FS_RemoveElement
<1>4. Cardinality(Live \ {s}) \in Nat
  BY <1>3, FS_CardinalityType
<1>5. QED
  BY <1>1, <1>3, <1>4 DEF ServicingOK

-----------------------------------------------------------------------------
(* Initial states.                                                         *)

\* The invariant holds initially.
LEMMA InitIInv == Init => IInv
<1> SUFFICES ASSUME Init PROVE IInv
  OBVIOUS
<1>0. Threads = Services \cup Producers \cup {Main}
  BY DEF Threads
<1>1. /\ \A s \in Services : pc[s] = "loop"
      /\ \A p \in Producers : pc[p] = "idle"
      /\ pc[Main] = "up"
  BY <1>0, SchedulerAssumption DEF Init
<1>2. Cardinality(Services) \in Nat
  BY SchedulerAssumption, FS_CardinalityType
<1>3. TypeOK
  <2>1. pc \in [Threads -> Places] /\ item \in [Threads -> Callbacks \cup {NoItem}]
    BY DEF Init, Places
  <2>2. {stopRequested, stopWhenEmpty, running, interrupted} \subseteq BOOLEAN
    BY DEF Init
  <2>3. QED
    BY <1>2, <2>1, <2>2, SchedulerAssumption DEF Init, TypeOK
<1>4. RolesOK
  BY <1>1 DEF RolesOK, ServicePlaces, ProducerPlaces, MainPlaces
<1>5. RunningOK
  BY <1>0, <1>1 DEF Init, RunningOK, Executing
<1>6. ServicingOK
  <2>1. Live = Services
    BY <1>1 DEF Live
  <2>2. QED
    BY <1>1, <2>1 DEF Init, ServicingOK, AfterJoin
<1>7. ItemsOK /\ LockOK
  BY <1>0, <1>1 DEF Init, ItemsOK, LockOK, Adding
<1>8. OrderOK /\ NoStrandedCallback /\ BlocksInOrder
  BY <1>0, <1>1 DEF Init, OrderOK, PushesBlock, NoStrandedCallback, BlocksInOrder
<1>9. QED
  BY <1>3, <1>4, <1>5, <1>6, <1>7, <1>8 DEF IInv

-----------------------------------------------------------------------------
(* Steps outside the client: waits, wake-ups, timeouts, leaving.           *)

\* Places in which a thread neither executes nor adds a callback.
Outside == {"idle", "lock", "await", "loop", "wait", "timed", "late", "repeat",
            "gone", "up", "stopping", "join"}

\* A step that moves threads between places outside the client, or into
\* ProcessQueue, keeps what the invariant says of callbacks as long as no
\* ProcessQueue task is lost.
LEMMA OutsideStep ==
  ASSUME IInv, TypeOK', RolesOK', ServicingOK',
         UNCHANGED <<pending, running, csMain, tip>>,
         \A t \in Threads : \/ pc'[t] = pc[t] /\ item'[t] = item[t]
                            \/ pc[t] \in Outside /\ pc'[t] \in Outside \cup {"pq"},
         (\E i \in DOMAIN due : due[i] = "ProcessQueue") =>
           \/ \E i \in DOMAIN due' : due'[i] = "ProcessQueue"
           \/ \E t \in Threads : pc'[t] = "pq"
  PROVE  IInv'
<1>0. Threads = Services \cup Producers \cup {Main}
  BY DEF Threads
<1>1. RunningOK'
  BY DEF IInv, RunningOK, Executing, Outside
<1>2. ItemsOK' /\ LockOK'
  BY <1>0 DEF IInv, ItemsOK, LockOK, Adding, Outside
<1>3. \A p \in Producers : PushesBlock(p)' <=> PushesBlock(p)
  BY <1>0 DEF PushesBlock, Outside
<1>4. \A p \in Producers : PushesBlock(p)' => item'[p] = item[p]
  BY <1>0 DEF PushesBlock, Outside
<1>5. \A n : Earlier(n)' <=> Earlier(n)
  BY <1>3 DEF Earlier
<1>6. \A t \in Threads : pc'[t] = "call" => pc[t] = "call" /\ item'[t] = item[t]
  BY DEF Outside
<1>7. OrderOK'
  BY <1>3, <1>4, <1>5, <1>6 DEF IInv, OrderOK
<1>8. NoStrandedCallback'
  BY <1>0 DEF IInv, NoStrandedCallback, Outside
<1>9. BlocksInOrder'
  BY <1>6 DEF IInv, BlocksInOrder
<1>10. QED
  BY <1>1, <1>2, <1>7, <1>8, <1>9 DEF IInv
\* The case of a service thread that goes on servicing the queue.
LEMMA ServiceGoesOn ==
  ASSUME IInv, TypeOK', NEW s \in Services, NEW place \in ServicePlaces,
         pc[s] \in Outside, pc[s] # "gone",
         place \in Outside \cup {"pq"}, place # "gone", Moves(s, place),
         UNCHANGED <<item, servicing, pending, running, csMain, tip>>,
         (\E i \in DOMAIN due : due[i] = "ProcessQueue") =>
           \/ \E i \in DOMAIN due' : due'[i] = "ProcessQueue"
           \/ place = "pq"
  PROVE  IInv'
<1>0. Threads = Services \cup Producers \cup {Main}
  BY DEF Threads
<1>1. RolesOK'
  BY <1>0, SchedulerAssumption
  DEF IInv, RolesOK, Moves, OnCondition, ServicePlaces
<1>2. Live' = Live
  BY <1>0, LiveKept DEF Moves, OnCondition
<1>3. pc'[Main] = pc[Main]
  BY <1>0, SchedulerAssumption DEF Moves, OnCondition
<1>4. ServicingOK'
  BY <1>2, <1>3 DEF IInv, ServicingOK
<1>5. \A t \in Threads : \/ pc'[t] = pc[t] /\ item'[t] = item[t]
                         \/ pc[t] \in Outside /\ pc'[t] \in Outside \cup {"pq"}
  BY <1>0 DEF Moves, OnCondition, Outside
<1>6. place = "pq" => \E t \in Threads : pc'[t] = "pq"
  BY <1>0 DEF Moves
<1>7. QED
  BY <1>1, <1>4, <1>5, <1>6, OutsideStep

\* The case of a service thread that leaves serviceQueue.
LEMMA ServiceLeaves ==
  ASSUME IInv, TypeOK', NEW s \in Services, pc[s] \in Outside, pc[s] # "gone",
         Moves(s, "gone"), servicing' = servicing - 1,
         UNCHANGED <<item, due, pending, running, csMain, tip>>
  PROVE  IInv'
<1>0. Threads = Services \cup Producers \cup {Main}
  BY DEF Threads
<1>1. RolesOK'
  BY <1>0, SchedulerAssumption
  DEF IInv, RolesOK, Moves, OnCondition, ServicePlaces
<1>2. Live' = Live \ {s} /\ servicing' = Cardinality(Live')
  BY LiveLeaves DEF IInv
<1>3. pc'[Main] = pc[Main]
  BY <1>0, SchedulerAssumption DEF Moves, OnCondition
<1>4. ServicingOK'
  BY <1>2, <1>3 DEF IInv, ServicingOK
<1>5. \A t \in Threads : \/ pc'[t] = pc[t] /\ item'[t] = item[t]
                         \/ pc[t] \in Outside /\ pc'[t] \in Outside \cup {"pq"}
  BY <1>0 DEF Moves, OnCondition, Outside
<1>6. QED
  BY <1>1, <1>4, <1>5, OutsideStep

\* The head of the loop.
LEMMA LoopHeadStep ==
  ASSUME IInv, NEW s \in Services, LoopHead(s)
  PROVE  IInv'
<1>0. s \in Threads
  BY DEF Threads
<1>1. TypeOK /\ ServicingOK
  BY DEF IInv
<1>2. CASE shouldStop
  <2>1. Moves(s, "gone")
    BY <1>0, <1>1, <1>2, NotifyingMoves DEF LoopHead, Places
  <2>2. servicing' = servicing - 1
    BY <1>2 DEF LoopHead
  <2>3. servicing' \in Nat
    BY <1>1, <2>1, <2>2, LiveLeaves DEF LoopHead
  <2>4. TypeOK'
    BY <1>1, <2>1, <2>3
    DEF TypeOK, Moves, LoopHead, queueVars, stopVars, clientVars, otherVars
  <2>5. QED
    BY <2>1, <2>2, <2>4, ServiceLeaves
    DEF LoopHead, Outside, queueVars, clientVars, otherVars
<1>3. CASE ~shouldStop
  <2> DEFINE place == IF Empty THEN "wait" ELSE IF due # <<>> THEN "late" ELSE "timed"
  <2>1. place \in Places /\ place \in ServicePlaces /\ place \in Outside /\ place # "gone"
    BY DEF Places, ServicePlaces, Outside
  <2>2. Goto(s, place) /\ UNCHANGED servicing
    BY <1>3 DEF LoopHead
  <2> HIDE DEF place
  <2>3. Moves(s, place)
    BY <1>0, <1>1, <2>1, <2>2, GotoMoves
  <2>4. TypeOK'
    BY <1>1, <2>2, <2>3
    DEF TypeOK, Moves, LoopHead, queueVars, stopVars, clientVars, otherVars
  <2>5. QED
    BY <2>1, <2>2, <2>3, <2>4, ServiceGoesOn
    DEF LoopHead, Outside, queueVars, clientVars, otherVars
<1>4. QED
  BY <1>2, <1>3

\* A wake-up without a notification.
LEMMA SpuriousWakeStep ==
  ASSUME IInv, NEW s \in Services, SpuriousWake(s)
  PROVE  IInv'
<1>1. TypeOK
  BY DEF IInv
<1>2. Moves(s, "loop")
  BY <1>1, GotoMoves DEF SpuriousWake, Places, Threads
<1>3. TypeOK'
  BY <1>1, <1>2
  DEF TypeOK, Moves, SpuriousWake, queueVars, stopVars, clientVars, otherVars
<1>4. QED
  BY <1>2, <1>3, ServiceGoesOn
  DEF SpuriousWake, Outside, ServicePlaces, queueVars, clientVars, otherVars

\* An interruption.
LEMMA InterruptedStep ==
  ASSUME IInv, NEW s \in Services, Interrupted(s)
  PROVE  IInv'
<1>1. TypeOK /\ ServicingOK
  BY DEF IInv
<1>2. Moves(s, "gone")
  BY <1>1, GotoMoves DEF Interrupted, Places, Threads
<1>3. servicing' \in Nat
  BY <1>1, <1>2, LiveLeaves DEF Interrupted
<1>4. TypeOK'
  BY <1>1, <1>2, <1>3
  DEF TypeOK, Moves, Interrupted, queueVars, stopVars, clientVars, otherVars
<1>5. QED
  BY <1>2, <1>4, ServiceLeaves
  DEF Interrupted, Outside, queueVars, clientVars, otherVars

\* The task of scheduleEvery.
LEMMA RepeatStep ==
  ASSUME IInv, NEW s \in Services, Repeat(s)
  PROVE  IInv'
<1>1. TypeOK
  BY DEF IInv
<1>2. Moves(s, "loop")
  BY <1>1, NotifyingMoves DEF Repeat, Places, Threads
<1>3. TypeOK'
  BY <1>1, <1>2 DEF TypeOK, Moves, Repeat, stopVars, clientVars, otherVars
<1>4. QED
  BY <1>2, <1>3, ServiceGoesOn
  DEF Repeat, Outside, ServicePlaces, clientVars, otherVars

\* A timeout: the first task is taken off the queue.
LEMMA TakeFirstStep ==
  ASSUME IInv, NEW s \in Services, TakeFirst(s)
  PROVE  IInv'
<1>0. TypeOK /\ s \in Threads
  BY DEF IInv, Threads
<1> USE DEF queueVars, stopVars, clientVars, otherVars
<1>1. CASE Goto(s, "loop") /\ UNCHANGED queueVars
  <2>1. Moves(s, "loop")
    BY <1>0, <1>1, GotoMoves DEF Places
  <2>2. TypeOK'
    BY <1>0, <1>1, <2>1 DEF TypeOK, Moves, TakeFirst
  <2>3. QED
    BY <1>1, <2>1, <2>2, ServiceGoesOn DEF TakeFirst, Outside, ServicePlaces
<1>2. CASE due # <<>> /\ due' = Tail(due) /\ Head(due) = "ProcessQueue"
           /\ Goto(s, "pq") /\ UNCHANGED periodic
  <2>1. Moves(s, "pq")
    BY <1>0, <1>2, GotoMoves DEF Places
  <2>2. due' \in Seq({"ProcessQueue", "Repeat"})
    BY <1>0, <1>2 DEF TypeOK
  <2>3. TypeOK'
    BY <1>0, <1>2, <2>1, <2>2 DEF TypeOK, Moves, TakeFirst
  <2>4. QED
    BY <1>2, <2>1, <2>3, ServiceGoesOn DEF TakeFirst, Outside, ServicePlaces
<1>3. CASE due # <<>> /\ due' = Tail(due) /\ Head(due) # "ProcessQueue"
           /\ Goto(s, "repeat") /\ periodic' = "running"
  <2>1. Moves(s, "repeat")
    BY <1>0, <1>3, GotoMoves DEF Places
  <2>2. due' \in Seq({"ProcessQueue", "Repeat"})
    BY <1>0, <1>3 DEF TypeOK
  <2>3. TypeOK'
    BY <1>0, <1>3, <2>1, <2>2 DEF TypeOK, Moves, TakeFirst
  <2>4. ASSUME NEW i \in DOMAIN due, due[i] = "ProcessQueue"
        PROVE  \E j \in DOMAIN due' : due'[j] = "ProcessQueue"
    <3>1. i \in 1 .. Len(due) /\ i # 1
      BY <1>0, <1>3, <2>4 DEF TypeOK
    <3>2. i - 1 \in DOMAIN due' /\ due'[i - 1] = due[i]
      BY <1>0, <1>3, <2>2, <3>1 DEF TypeOK
    <3>3. QED
      BY <2>4, <3>2
  <2>5. QED
    BY <1>3, <2>1, <2>3, <2>4, ServiceGoesOn DEF TakeFirst, Outside, ServicePlaces
<1>4. CASE periodic' = "running" /\ Goto(s, "repeat") /\ UNCHANGED due
  <2>1. Moves(s, "repeat")
    BY <1>0, <1>4, GotoMoves DEF Places
  <2>2. TypeOK'
    BY <1>0, <1>4, <2>1 DEF TypeOK, Moves, TakeFirst
  <2>3. QED
    BY <1>4, <2>1, <2>2, ServiceGoesOn DEF TakeFirst, Outside, ServicePlaces
<1>5. QED
  BY <1>1, <1>2, <1>3, <1>4 DEF TakeFirst
\* A step of t that leaves it in a place of its role, and for Main behind the
\* join only if the service threads are gone, keeps the roles and the count.
RoleOf(t) == IF t \in Services THEN ServicePlaces
             ELSE IF t \in Producers THEN ProducerPlaces ELSE MainPlaces

\* A thread that moves within the places of its role keeps the roles and the
\* count of service threads in serviceQueue.
LEMMA MovesRoles ==
  ASSUME RolesOK, ServicingOK, NEW t \in Threads, NEW place \in RoleOf(t),
         Moves(t, place), UNCHANGED servicing,
         t \in Services => pc[t] # "gone" /\ place # "gone",
         t = Main /\ place \in AfterJoin => pc[Main] \in AfterJoin \/ Live = {}
  PROVE  RolesOK' /\ ServicingOK'
<1>0. Threads = Services \cup Producers \cup {Main}
  BY DEF Threads
<1>1. RolesOK'
  BY <1>0, SchedulerAssumption
  DEF RolesOK, RoleOf, Moves, OnCondition, ServicePlaces
<1>2. Live' = Live
  BY <1>0, LiveKept, SchedulerAssumption DEF Moves, OnCondition
<1>3. t # Main => pc'[Main] = pc[Main]
  BY <1>0, SchedulerAssumption DEF Moves, OnCondition
<1>4. ServicingOK'
  BY <1>2, <1>3 DEF ServicingOK, Moves
<1>5. QED
  BY <1>1, <1>4

\* What a step of t does to a thread outside the waits that is not t: nothing.
LEMMA MovesOthers ==
  ASSUME NEW t \in Threads, NEW place, Moves(t, place), NEW u \in Threads, u # t
  PROVE  /\ pc[u] \notin {"wait", "timed", "late"} => pc'[u] = pc[u]
         /\ pc'[u] # "loop" => pc'[u] = pc[u]
  BY DEF Moves, OnCondition

\* A producer, or Main before the join, that moves outside the client.
LEMMA UserOutside ==
  ASSUME IInv, TypeOK', NEW t \in Threads \ Services, NEW place \in RoleOf(t),
         pc[t] \in Outside, place \in Outside, Moves(t, place),
         \A u \in Threads \ {t} : item'[u] = item[u],
         UNCHANGED <<due, servicing, pending, running, csMain, tip>>
  PROVE  IInv'
<1>1. RolesOK' /\ ServicingOK'
  BY MovesRoles DEF IInv, Outside, AfterJoin
<1>2. \A u \in Threads : \/ pc'[u] = pc[u] /\ item'[u] = item[u]
                         \/ pc[u] \in Outside /\ pc'[u] \in Outside \cup {"pq"}
  BY DEF Moves, OnCondition, Outside
<1>3. QED
  BY <1>1, <1>2, OutsideStep

\* The time of the scheduleEvery task passes.
LEMMA TickStep == IInv /\ Tick => IInv'
<1> SUFFICES ASSUME IInv, Tick PROVE IInv'
  OBVIOUS
<1>0. Threads = Services \cup Producers \cup {Main} /\ TypeOK
  BY DEF Threads, IInv
<1> USE DEF stopVars, clientVars, otherVars
<1>1. due' \in Seq({"ProcessQueue", "Repeat"})
  BY <1>0 DEF TypeOK, Tick
<1>2. \A t \in Threads : pc'[t] = pc[t] \/ (pc[t] = "timed" /\ pc'[t] = "late")
  BY DEF Tick
<1>3. pc' \in [Threads -> Places]
  BY <1>0 DEF Tick, TypeOK, Places
<1>4. TypeOK'
  BY <1>0, <1>1, <1>3 DEF TypeOK, Tick
<1>5. RolesOK'
  BY <1>0, <1>2
  DEF IInv, RolesOK, ServicePlaces, ProducerPlaces, MainPlaces, AfterJoin
<1>6. Live' = Live
  BY <1>0, <1>2, LiveKept
<1>7. ServicingOK'
  BY <1>0, <1>2, <1>6 DEF IInv, ServicingOK, Tick, AfterJoin
<1>8. ASSUME NEW i \in DOMAIN due, due[i] = "ProcessQueue"
      PROVE  i \in DOMAIN due' /\ due'[i] = "ProcessQueue"
  BY <1>0, <1>8 DEF TypeOK, Tick
<1>9. QED
  BY <1>2, <1>4, <1>5, <1>7, <1>8, OutsideStep DEF Tick, Outside

\* The producers' and Main's steps outside the client.
LEMMA AwaitStep ==
  ASSUME IInv, NEW p \in Producers, Await(p)
  PROVE  IInv'
<1>1. TypeOK /\ p \in Threads \ Services
  BY SchedulerAssumption DEF IInv, Threads
<1> USE DEF queueVars, stopVars, clientVars
<1>2. Moves(p, "lock")
  BY <1>1, GotoMoves DEF Await, Places
<1>3. /\ item' \in [Threads -> Callbacks \cup {NoItem}]
      /\ \A u \in Threads \ {p} : item'[u] = item[u]
  BY <1>1 DEF TypeOK, Await
<1>4. TypeOK'
  BY <1>1, <1>2, <1>3 DEF TypeOK, Moves, Await
<1>5. QED
  BY <1>1, <1>2, <1>3, <1>4, UserOutside DEF Await, Outside, RoleOf, ProducerPlaces

\* The import thread ends outside all queues.
LEMMA ImportEndsStep ==
  ASSUME IInv, NEW p \in Producers, ImportEnds(p)
  PROVE  IInv'
<1>1. TypeOK /\ p \in Threads \ Services
  BY SchedulerAssumption DEF IInv, Threads
<1> USE DEF queueVars, stopVars, clientVars, otherVars
<1>2. Moves(p, "gone")
  BY <1>1, GotoMoves DEF ImportEnds, Places
<1>3. TypeOK'
  BY <1>1, <1>2 DEF TypeOK, Moves, ImportEnds
<1>4. QED
  BY <1>1, <1>2, <1>3, UserOutside DEF ImportEnds, Outside, RoleOf, ProducerPlaces

\* Shutdown begins: only the main thread moves.
LEMMA ShutdownStep == IInv /\ Shutdown => IInv'
<1> SUFFICES ASSUME IInv, Shutdown PROVE IInv'
  OBVIOUS
<1>1. TypeOK /\ Main \in Threads \ Services /\ Main \notin Producers
  BY SchedulerAssumption DEF IInv, Threads
<1> USE DEF queueVars, stopVars, clientVars, otherVars
<1>2. Moves(Main, "stopping")
  BY <1>1, GotoMoves DEF Shutdown, Places
<1>3. TypeOK'
  BY <1>1, <1>2 DEF TypeOK, Moves, Shutdown
<1>4. QED
  BY <1>1, <1>2, <1>3, UserOutside DEF Shutdown, Outside, RoleOf, MainPlaces

\* interrupt_all or stop changes only what the threads are told.
LEMMA StopServicesStep == IInv /\ StopServices => IInv'
<1> SUFFICES ASSUME IInv, StopServices PROVE IInv'
  OBVIOUS
<1>1. TypeOK /\ Main \in Threads \ Services /\ Main \notin Producers
  BY SchedulerAssumption DEF IInv, Threads
<1> USE DEF queueVars, stopVars, clientVars
<1>2. Moves(Main, "join")
  <2>1. CASE Goto(Main, "join")
    BY <1>1, <2>1, GotoMoves DEF Places
  <2>2. CASE pc' = [t \in Threads |-> IF t \in OnCondition THEN "loop"
                                     ELSE IF t = Main THEN "join" ELSE pc[t]]
    <3>1. pc' \in [Threads -> Places]
      BY <1>1, <2>2 DEF TypeOK, Places
    <3>2. Main \notin OnCondition
      BY <1>1 DEF OnCondition
    <3>3. QED
      BY <1>1, <2>2, <3>1, <3>2 DEF Moves
  <2>3. QED
    BY <2>1, <2>2 DEF StopServices
<1>3. /\ stopRequested' \in BOOLEAN /\ stopWhenEmpty' \in BOOLEAN
      /\ interrupted' \in BOOLEAN
  BY <1>1 DEF TypeOK, StopServices
<1>4. TypeOK'
  BY <1>1, <1>2, <1>3 DEF TypeOK, Moves, StopServices
<1>5. QED
  BY <1>1, <1>2, <1>4, UserOutside DEF StopServices, Outside, RoleOf, MainPlaces
-----------------------------------------------------------------------------
(* Steps of the client.  Each part of the invariant is kept by every step  *)
(* that does not touch what the part is about.                             *)

\* A step that neither begins nor ends a callback.
LEMMA SameRunning ==
  ASSUME RunningOK, NEW t \in Threads, NEW place, Moves(t, place),
         pc[t] \notin Executing, place \notin Executing, UNCHANGED running
  PROVE  RunningOK'
<1>1. \A u \in Threads : pc'[u] \in Executing <=> pc[u] \in Executing
  BY MovesOthers DEF Moves, Executing
<1>2. QED
  BY <1>1 DEF RunningOK

\* A step that leaves its thread with the right callback and the right lock.
LEMMA SameItems ==
  ASSUME ItemsOK, LockOK, NEW t \in Threads, NEW place, Moves(t, place),
         \A u \in Threads \ {t} : item'[u] = item[u],
         place \in {"push", "call"} => item'[t] \in Callbacks,
         t \in Producers /\ place \in {"maybe", "sched", "unlock"} => item'[t] \in Callbacks,
         t \in Producers /\ place = "unlock" => item'[t][1] = "block",
         t = Main /\ place = "push" => item'[t][1] # "block",
         \/ UNCHANGED csMain
         \/ \A p \in Producers \ {t} : ~(pc[p] \in Adding /\ item[p][1] = "block"),
         t \in Producers /\ place \in Adding /\ item'[t][1] = "block" => csMain' = t
  PROVE  ItemsOK' /\ LockOK'
<1>0. Threads = Services \cup Producers \cup {Main}
  BY DEF Threads
<1>1. \A u \in Threads \ {t} : pc'[u] # "loop" => pc'[u] = pc[u] /\ item'[u] = item[u]
  BY MovesOthers
<1>2. pc'[t] = place
  BY DEF Moves
<1>3. ItemsOK'
  BY <1>0, <1>1, <1>2 DEF ItemsOK
<1>4. LockOK'
  BY <1>0, <1>1, <1>2 DEF LockOK, Adding
<1>5. QED
  BY <1>3, <1>4

\* A step that adds and begins no callback, and brings no BlockConnected.
LEMMA SameOrder ==
  ASSUME OrderOK, BlocksInOrder, NEW t \in Threads, NEW place, Moves(t, place),
         place # "call", \A u \in Threads \ {t} : item'[u] = item[u],
         UNCHANGED <<pending, tip>>,
         place = "push" => item'[t][1] # "block"
  PROVE  OrderOK' /\ BlocksInOrder'
<1>0. Producers \subseteq Threads
  BY DEF Threads
<1>1. \A u \in Threads : pc'[u] \in {"push", "call"} =>
        \/ u # t /\ pc'[u] = pc[u] /\ item'[u] = item[u]
        \/ u = t /\ pc'[u] = "push" /\ item'[u][1] # "block"
  BY MovesOthers DEF Moves
<1>2. \A p \in Producers : PushesBlock(p)' => PushesBlock(p) /\ item'[p] = item[p]
  BY <1>0, <1>1 DEF PushesBlock
<1>3. \A n : Earlier(n) => Earlier(n)'
  BY <1>2 DEF Earlier
<1>4. \A u \in Threads : pc'[u] = "call" => pc[u] = "call" /\ item'[u] = item[u]
  BY <1>1
<1>5. OrderOK'
  BY <1>2, <1>3, <1>4 DEF OrderOK
<1>6. BlocksInOrder'
  BY <1>4 DEF BlocksInOrder
<1>7. QED
  BY <1>5, <1>6

\* A thread in one of these places will look at the pending callbacks again.
Looking == {"maybe", "sched", "pq", "raii"}
\* A step that leaves the queues alone strands no callback if the thread that
\* would have looked at the pending ones still will.
LEMMA SameStranded ==
  ASSUME NoStrandedCallback, NEW t \in Threads, NEW place, Moves(t, place),
         UNCHANGED <<due, pending, running>>,
         pending # <<>> /\ ~running /\ (pc[t] \in Looking \/ (t = Main /\ pc[t] = "more")) =>
           place \in Looking \/ (t = Main /\ place = "more")
  PROVE  NoStrandedCallback'
<1>0. Main \in Threads
  BY DEF Threads
<1>1. \A u \in Threads \ {t} : pc[u] \in Looking \cup {"more"} => pc'[u] = pc[u]
  BY MovesOthers DEF Looking
<1>2. pc'[t] = place
  BY DEF Moves
<1> SUFFICES ASSUME pending' # <<>>, ~running'
             PROVE  \/ \E i \in DOMAIN due' : due'[i] = "ProcessQueue"
                    \/ \E u \in Threads : pc'[u] \in Looking
                    \/ pc'[Main] = "more"
  BY DEF NoStrandedCallback, Looking
<1>3. pending # <<>> /\ ~running
  OBVIOUS
<1>4. CASE \E i \in DOMAIN due : due[i] = "ProcessQueue"
  BY <1>4
<1>5. CASE \E u \in Threads : pc[u] \in Looking
  <2>1. PICK u \in Threads : pc[u] \in Looking
    BY <1>5
  <2>2. CASE u # t
    BY <1>1, <2>1, <2>2
  <2>3. CASE u = t
    <3>1. place \in Looking \/ (t = Main /\ place = "more")
      BY <1>3, <2>1, <2>3
    <3>2. QED
      BY <1>2, <3>1
  <2>4. QED
    BY <2>2, <2>3
<1>6. CASE pc[Main] = "more"
  BY <1>0, <1>1, <1>2, <1>3, <1>6
<1>7. QED
  BY <1>3, <1>4, <1>5, <1>6 DEF NoStrandedCallback, Looking

\* AddToProcessQueue, first step: the thread holds cs_main if it adds a
\* BlockConnected, so that no other thread has a later one in its hands.
LEMMA PushStep ==
  ASSUME IInv, NEW t \in Threads, Push(t)
  PROVE  IInv'
<1>0. Threads = Services \cup Producers \cup {Main}
  BY DEF Threads
<1>1. /\ TypeOK /\ RolesOK /\ RunningOK /\ ServicingOK
      /\ ItemsOK /\ LockOK /\ OrderOK /\ BlocksInOrder
  BY DEF IInv
<1> USE DEF queueVars, stopVars, otherVars
<1>2. Moves(t, "maybe")
  BY <1>1, GotoMoves DEF Push, Places
<1>3. t \in Producers \/ t = Main
  BY <1>0, <1>1 DEF Push, RolesOK, ServicePlaces
<1>4. item[t] \in Callbacks /\ item'[t] = item[t]
  BY <1>1 DEF ItemsOK, Push
<1>5. pending' \in Seq(Callbacks)
  BY <1>1, <1>4 DEF TypeOK, Push
<1>6. TypeOK'
  BY <1>1, <1>2, <1>5 DEF TypeOK, Moves, Push
<1>7. RolesOK' /\ ServicingOK'
  BY <1>0, <1>1, <1>2, <1>3, MovesRoles, SchedulerAssumption
  DEF Push, RoleOf, ProducerPlaces, MainPlaces, AfterJoin
<1>8. RunningOK'
  BY <1>1, <1>2, SameRunning DEF Push, Executing
<1>9. ItemsOK' /\ LockOK'
  BY <1>1, <1>2, <1>4, SameItems DEF Push, LockOK, Adding
<1>10. NoStrandedCallback'
  BY <1>2 DEF NoStrandedCallback, Moves
<1>11. /\ DOMAIN pending' = 1 .. Len(pending) + 1
       /\ DOMAIN pending = 1 .. Len(pending) /\ Len(pending) \in Nat
       /\ \A i \in DOMAIN pending : pending'[i] = pending[i]
       /\ pending'[Len(pending) + 1] = item[t]
  BY <1>1, <1>4 DEF TypeOK, Push
<1>12. \A u \in Threads : /\ pc'[u] = "call" => pc[u] = "call"
                          /\ pc'[u] = "push" => u # t /\ pc[u] = "push"
                          /\ item'[u] = item[u]
  BY <1>2, MovesOthers DEF Moves, Push
<1>13. \A p \in Producers : PushesBlock(p)' => p # t /\ PushesBlock(p)
  BY <1>0, <1>12 DEF PushesBlock
<1>14. \A n : Earlier(n) => Earlier(n)'
  BY <1>13 DEF Earlier, Push
<1>15. \A u \in Threads : pc[u] = "call" /\ item[u][1] = "block" =>
         \A i \in DOMAIN pending : pending[i][1] = "block" => item[u][2] < pending[i][2]
  BY <1>1 DEF BlocksInOrder
<1>16. CASE item[t][1] = "block"
  <2>1. t \in Producers /\ PushesBlock(t)
    BY <1>1, <1>3, <1>16 DEF ItemsOK, Push, PushesBlock
  <2>2. item[t][2] = tip /\ tip \in Nat
    BY <1>1, <2>1, SchedulerAssumption DEF OrderOK, TypeOK
  <2>3. \A p \in Producers : ~PushesBlock(p)'
    BY <1>1, <1>13, <2>1 DEF LockOK, PushesBlock, Adding
  <2>4. Earlier(item[t][2])'
    BY <2>2, <2>3 DEF Earlier, Push
  <2>5. /\ \A i \in DOMAIN pending : pending[i][1] = "block" => pending[i][2] < tip
        /\ \A u \in Threads : pc[u] = "call" /\ item[u][1] = "block" => item[u][2] < tip
    BY <1>1, <2>1 DEF OrderOK, Earlier
  <2>6. OrderOK'
    BY <1>1, <1>11, <1>12, <1>14, <2>3, <2>4 DEF OrderOK
  <2>7. BlocksInOrder'
    <3>1. ASSUME NEW i \in DOMAIN pending', NEW j \in DOMAIN pending', i < j,
                 pending'[i][1] = "block", pending'[j][1] = "block"
          PROVE  pending'[i][2] < pending'[j][2]
      BY <1>1, <1>11, <2>2, <2>5, <3>1 DEF BlocksInOrder
    <3>2. ASSUME NEW u \in Threads, pc'[u] = "call", item'[u][1] = "block",
                 NEW i \in DOMAIN pending', pending'[i][1] = "block"
          PROVE  item'[u][2] < pending'[i][2]
      BY <1>11, <1>12, <1>15, <2>2, <2>5, <3>2
    <3>3. QED
      BY <3>1, <3>2 DEF BlocksInOrder
  <2>8. QED
    BY <1>6, <1>7, <1>8, <1>9, <1>10, <2>6, <2>7 DEF IInv
<1>17. CASE item[t][1] # "block"
  <2>1. OrderOK'
    BY <1>0, <1>1, <1>11, <1>12, <1>13, <1>14, <1>17 DEF OrderOK, Push
  <2>2. BlocksInOrder'
    <3>1. ASSUME NEW i \in DOMAIN pending', NEW j \in DOMAIN pending', i < j,
                 pending'[i][1] = "block", pending'[j][1] = "block"
          PROVE  pending'[i][2] < pending'[j][2]
      BY <1>1, <1>11, <1>17, <3>1 DEF BlocksInOrder
    <3>2. ASSUME NEW u \in Threads, pc'[u] = "call", item'[u][1] = "block",
                 NEW i \in DOMAIN pending', pending'[i][1] = "block"
          PROVE  item'[u][2] < pending'[i][2]
      BY <1>11, <1>12, <1>17, <1>15, <3>2
    <3>3. QED
      BY <3>1, <3>2 DEF BlocksInOrder
  <2>3. QED
    BY <1>6, <1>7, <1>8, <1>9, <1>10, <2>1, <2>2 DEF IInv
<1>18. QED
  BY <1>16, <1>17
\* Where AddToProcessQueue and ProcessQueue return to.
LEMMA ReturnPlace ==
  ASSUME NEW t \in Threads, RolesOK, pc[t] \in {"maybe", "sched"}
  PROVE  /\ Return(t) \in Places /\ Return(t) \in RoleOf(t)
         /\ Return(t) \in {"loop", "more", "unlock", "idle", "await"}
         /\ Return(t) = "more" => t = Main
         /\ Return(t) = "unlock" => t \in Producers /\ item[t][1] = "block"
         /\ t = Main => Return(t) = "more"
<1>1. t \in Services \/ t \in Producers \/ t = Main
  BY DEF Threads
<1>2. CASE t \in Services
  <2>1. Return(t) = "loop" /\ t # Main
    BY <1>2, SchedulerAssumption DEF Return
  <2>2. QED
    BY <1>2, <2>1 DEF Places, RoleOf, ServicePlaces
<1>3. CASE t = Main
  <2>1. Return(t) = "more" /\ t \notin Services /\ t \notin Producers
    BY <1>3, SchedulerAssumption DEF Return
  <2>2. QED
    BY <1>3, <2>1 DEF Places, RoleOf, MainPlaces, AfterJoin
<1>4. CASE t \in Producers
  <2>1. t \notin Services /\ t # Main
    BY <1>4, SchedulerAssumption
  <2>2. Return(t) = IF item[t][1] = "block" THEN "unlock"
                    ELSE IF item[t][1] = "tip" THEN "idle" ELSE "await"
    BY <2>1 DEF Return
  <2>3. QED
    BY <1>4, <2>1, <2>2 DEF Places, RoleOf, ProducerPlaces
<1>5. QED
  BY <1>1, <1>2, <1>3, <1>4

\* What the thread keeps when it returns.
LEMMA ReleasedItem ==
  ASSUME TypeOK, NEW t \in Threads, item' = Released(t)
  PROVE  /\ item' \in [Threads -> Callbacks \cup {NoItem}]
         /\ \A u \in Threads \ {t} : item'[u] = item[u]
         /\ item[t][1] = "block" => item'[t] = item[t]
<1>1. CASE item[t][1] = "tip"
  BY <1>1 DEF TypeOK, Released
<1>2. CASE item[t][1] # "tip"
  BY <1>2 DEF TypeOK, Released
<1>3. QED
  BY <1>1, <1>2

\* A thread returns from the client: what is common to the two actions that do so.
LEMMA ReturnStep ==
  ASSUME IInv, NEW t \in Threads, pc[t] \in {"maybe", "sched"},
         Moves(t, Return(t)), item' = Released(t),
         due' \in Seq({"ProcessQueue", "Repeat"}),
         UNCHANGED <<periodic, servicing, stopVars, clientVars, otherVars>>,
         NoStrandedCallback'
  PROVE  IInv'
<1>1. /\ TypeOK /\ RolesOK /\ RunningOK /\ ServicingOK
      /\ ItemsOK /\ LockOK /\ OrderOK /\ BlocksInOrder
  BY DEF IInv
<1> USE DEF stopVars, clientVars, otherVars
<1>2. /\ item' \in [Threads -> Callbacks \cup {NoItem}]
      /\ \A u \in Threads \ {t} : item'[u] = item[u]
      /\ item[t][1] = "block" => item'[t] = item[t]
  BY <1>1, ReleasedItem
<1>3. /\ Return(t) \in Places /\ Return(t) \in RoleOf(t)
      /\ Return(t) \in {"loop", "more", "unlock", "idle", "await"}
      /\ Return(t) = "more" => t = Main
      /\ Return(t) = "unlock" => t \in Producers /\ item[t][1] = "block"
  BY <1>1, ReturnPlace
<1>4. TypeOK'
  BY <1>1, <1>2 DEF TypeOK, Moves
<1>5. RolesOK' /\ ServicingOK'
  <2>1. t = Main => pc[Main] \in AfterJoin
    BY DEF AfterJoin
  <2>2. QED
    BY <1>1, <1>3, <2>1, MovesRoles
<1>6. RunningOK'
  BY <1>1, <1>3, SameRunning DEF Executing
<1>7. ItemsOK' /\ LockOK'
  <2>1. Return(t) = "unlock" => item'[t] \in Callbacks /\ item'[t][1] = "block" /\ csMain = t
    BY <1>1, <1>2, <1>3 DEF ItemsOK, LockOK, Adding
  <2>2. QED
    BY <1>1, <1>2, <1>3, <2>1, SameItems DEF Adding
<1>8. OrderOK' /\ BlocksInOrder'
  BY <1>1, <1>2, <1>3, SameOrder
<1>9. QED
  BY <1>4, <1>5, <1>6, <1>7, <1>8 DEF IInv

\* MaybeScheduleProcessQueue.
LEMMA MaybeStep ==
  ASSUME IInv, NEW t \in Threads, MaybeScheduleProcessQueue(t)
  PROVE  IInv'
<1>1. /\ TypeOK /\ RolesOK /\ RunningOK /\ ServicingOK /\ NoStrandedCallback
      /\ ItemsOK /\ LockOK /\ OrderOK /\ BlocksInOrder
  BY DEF IInv
<1> USE DEF queueVars, stopVars, clientVars, otherVars
<1>2. pc[t] = "maybe"
  BY DEF MaybeScheduleProcessQueue
<1>3. CASE running \/ pending = <<>>
  <2>1. Moves(t, Return(t))
    BY <1>1, <1>2, <1>3, GotoMoves, ReturnPlace DEF MaybeScheduleProcessQueue
  <2>2. NoStrandedCallback'
    <3>1. UNCHANGED <<running, pending>>
      BY DEF MaybeScheduleProcessQueue
    <3>2. running' \/ pending' = <<>>
      BY <1>3, <3>1
    <3>3. QED
      BY <3>2 DEF NoStrandedCallback
  <2>3. QED
    BY <1>1, <1>2, <1>3, <2>1, <2>2, ReturnStep DEF MaybeScheduleProcessQueue, TypeOK
<1>4. CASE ~(running \/ pending = <<>>)
  <2>1. Goto(t, "sched") /\ UNCHANGED item
    BY <1>4 DEF MaybeScheduleProcessQueue
  <2>2. Moves(t, "sched")
    BY <1>1, <2>1, GotoMoves DEF Places
  <2>3. TypeOK'
    BY <1>1, <2>1, <2>2 DEF TypeOK, Moves, MaybeScheduleProcessQueue
  <2>4. RolesOK' /\ ServicingOK'
    <3>1. "sched" \in RoleOf(t)
      BY DEF RoleOf, ServicePlaces, ProducerPlaces, MainPlaces, AfterJoin
    <3>2. t = Main => pc[Main] \in AfterJoin
      BY <1>2 DEF AfterJoin
    <3>3. QED
      BY <1>1, <1>2, <2>2, <3>1, <3>2, MovesRoles DEF MaybeScheduleProcessQueue
  <2>5. RunningOK'
    BY <1>1, <1>2, <2>2, SameRunning DEF Executing, MaybeScheduleProcessQueue
  <2>6. ItemsOK' /\ LockOK'
    BY <1>1, <1>2, <2>1, <2>2, SameItems
    DEF ItemsOK, LockOK, Adding, MaybeScheduleProcessQueue
  <2>7. OrderOK' /\ BlocksInOrder'
    BY <1>1, <2>1, <2>2, SameOrder DEF MaybeScheduleProcessQueue
  <2>8. NoStrandedCallback'
    BY <2>2 DEF NoStrandedCallback, Moves
  <2>9. QED
    BY <2>3, <2>4, <2>5, <2>6, <2>7, <2>8 DEF IInv
<1>5. QED
  BY <1>3, <1>4

\* The ProcessQueue task is queued.
LEMMA ScheduleStep ==
  ASSUME IInv, NEW t \in Threads, Schedule(t)
  PROVE  IInv'
<1>1. TypeOK /\ RolesOK /\ pc[t] = "sched"
  BY DEF IInv, Schedule
<1>2. Moves(t, Return(t))
  BY <1>1, NotifyingMoves, ReturnPlace DEF Schedule
<1>3. /\ due' \in Seq({"ProcessQueue", "Repeat"})
      /\ Len(due) + 1 \in DOMAIN due' /\ due'[Len(due) + 1] = "ProcessQueue"
  BY <1>1 DEF TypeOK, Schedule
<1>4. NoStrandedCallback'
  BY <1>3 DEF NoStrandedCallback
<1>5. QED
  BY <1>1, <1>2, <1>3, <1>4, ReturnStep DEF Schedule
\* Only service threads and Main are ever in these places.
LEMMA NotAProducer ==
  ASSUME RolesOK, NEW t \in Threads, pc[t] \in {"pq", "call", "raii"}
  PROVE  /\ t \notin Producers
         /\ t \in Services \/ (t = Main /\ t \notin Services /\ pc[Main] \in AfterJoin)
<1>1. t \in Services \/ t \in Producers \/ t = Main
  BY DEF Threads
<1>2. t \notin Producers
  BY DEF RolesOK, ProducerPlaces
<1>3. QED
  BY <1>1, <1>2, SchedulerAssumption DEF AfterJoin

\* Such a thread goes from one of them to another.
LEMMA ExecutorRoles ==
  ASSUME RolesOK, ServicingOK, NEW t \in Threads, pc[t] \in {"pq", "call", "raii"},
         NEW place, place \in {"call", "raii", "maybe"}, Moves(t, place),
         UNCHANGED servicing
  PROVE  RolesOK' /\ ServicingOK'
<1>1. /\ t \notin Producers
      /\ t \in Services \/ (t = Main /\ t \notin Services /\ pc[Main] \in AfterJoin)
  BY NotAProducer
<1>2. place \in RoleOf(t)
  BY <1>1 DEF RoleOf, ServicePlaces, MainPlaces, AfterJoin
<1>3. t \in Services => pc[t] # "gone" /\ place # "gone"
  OBVIOUS
<1>4. QED
  BY <1>1, <1>2, <1>3, MovesRoles, SchedulerAssumption

\* ProcessQueue: the first pending callback is begun unless one is running.
LEMMA ProcessQueueStep ==
  ASSUME IInv, NEW t \in Threads, ProcessQueue(t)
  PROVE  IInv'
<1>1. /\ TypeOK /\ RolesOK /\ RunningOK /\ ServicingOK /\ NoStrandedCallback
      /\ ItemsOK /\ LockOK /\ OrderOK /\ BlocksInOrder
  BY DEF IInv
<1> USE DEF queueVars, stopVars, clientVars, otherVars
<1>2. pc[t] = "pq"
  BY DEF ProcessQueue
<1>3. /\ t \notin Producers
      /\ t \in Services \/ (t = Main /\ t \notin Services /\ pc[Main] \in AfterJoin)
  BY <1>1, <1>2, NotAProducer
<1>4. CASE running \/ pending = <<>>
  <2> DEFINE place == IF t = Main THEN "more" ELSE "loop"
  <2>1. /\ place \in Places /\ place \in RoleOf(t) /\ place \in {"more", "loop"}
    BY <1>3, SchedulerAssumption DEF Places, RoleOf, ServicePlaces, MainPlaces, AfterJoin
  <2>2. Goto(t, place) /\ UNCHANGED <<item, pending, running>>
    BY <1>4 DEF ProcessQueue
  <2> HIDE DEF place
  <2>3. Moves(t, place)
    BY <1>1, <2>1, <2>2, GotoMoves
  <2>4. TypeOK'
    BY <1>1, <2>2, <2>3 DEF TypeOK, Moves, ProcessQueue
  <2>5. RolesOK' /\ ServicingOK'
    BY <1>1, <1>2, <1>3, <2>1, <2>3, MovesRoles, SchedulerAssumption DEF ProcessQueue
  <2>6. RunningOK'
    BY <1>1, <1>2, <2>1, <2>2, <2>3, SameRunning DEF Executing
  <2>7. ItemsOK' /\ LockOK'
    BY <1>1, <2>1, <2>2, <2>3, SameItems DEF Adding, ProcessQueue
  <2>8. OrderOK' /\ BlocksInOrder'
    BY <1>1, <2>1, <2>2, <2>3, SameOrder DEF ProcessQueue
  <2>9. NoStrandedCallback'
    <3>1. running' \/ pending' = <<>>
      BY <1>4, <2>2
    <3>2. QED
      BY <3>1 DEF NoStrandedCallback
  <2>10. QED
    BY <2>4, <2>5, <2>6, <2>7, <2>8, <2>9 DEF IInv
<1>5. CASE ~running /\ pending # <<>>
  <2>1. /\ Goto(t, "call") /\ running' = TRUE /\ pending' = Tail(pending)
        /\ item' = [item EXCEPT ![t] = Head(pending)]
    BY <1>5 DEF ProcessQueue
  <2>2. Moves(t, "call")
    BY <1>1, <2>1, GotoMoves DEF Places
  <2>3. /\ DOMAIN pending = 1 .. Len(pending) /\ Len(pending) \in Nat \ {0}
        /\ pending' \in Seq(Callbacks) /\ DOMAIN pending' = 1 .. Len(pending) - 1
        /\ \A i \in DOMAIN pending' : i + 1 \in DOMAIN pending /\ pending'[i] = pending[i + 1]
        /\ Head(pending) \in Callbacks /\ 1 \in DOMAIN pending /\ Head(pending) = pending[1]
    BY <1>1, <1>5, <2>1 DEF TypeOK
  <2>4. /\ item' \in [Threads -> Callbacks \cup {NoItem}]
        /\ \A u \in Threads \ {t} : item'[u] = item[u]
        /\ item'[t] = pending[1] /\ item'[t] \in Callbacks
    BY <1>1, <2>1, <2>3 DEF TypeOK
  <2>5. TypeOK'
    BY <1>1, <2>1, <2>2, <2>3, <2>4 DEF TypeOK, Moves, ProcessQueue
  <2>6. RolesOK' /\ ServicingOK'
    BY <1>1, <1>2, <2>2, ExecutorRoles DEF ProcessQueue
  <2>7. \A u \in Threads : pc'[u] \in Executing <=> u = t
    <3>1. \A u \in Threads : pc[u] \notin Executing
      BY <1>1, <1>5 DEF RunningOK
    <3>2. QED
      BY <2>2, <3>1, MovesOthers DEF Moves, Executing
  <2>8. RunningOK'
    BY <2>1, <2>7 DEF RunningOK
  <2>9. ItemsOK' /\ LockOK'
    BY <1>1, <1>3, <2>2, <2>4, SameItems DEF ProcessQueue
  <2>10. \A p \in Producers : PushesBlock(p)' => PushesBlock(p) /\ item'[p] = item[p]
    BY <1>3, <2>2, <2>4, MovesOthers DEF PushesBlock, Threads
  <2>11. \A n : Earlier(n) => Earlier(n)'
    BY <2>10 DEF Earlier, ProcessQueue
  <2>12. OrderOK'
    <3>1. \A i \in DOMAIN pending' : pending'[i][1] = "block" => Earlier(pending'[i][2])
      BY <1>1, <2>3 DEF OrderOK
    <3>2. \A u \in Threads : pc'[u] = "call" /\ item'[u][1] = "block" => Earlier(item'[u][2])
      BY <1>1, <2>3, <2>4, <2>7 DEF OrderOK, Executing
    <3>3. \A p \in Producers : PushesBlock(p)' => item'[p][2] = tip'
      BY <1>1, <2>10 DEF OrderOK, ProcessQueue
    <3>4. QED
      BY <2>11, <3>1, <3>2, <3>3 DEF OrderOK
  <2>13. BlocksInOrder'
    <3>1. \A i, j \in DOMAIN pending :
            i < j /\ pending[i][1] = "block" /\ pending[j][1] = "block" =>
              pending[i][2] < pending[j][2]
      BY <1>1 DEF BlocksInOrder
    <3>2. ASSUME NEW i \in DOMAIN pending', NEW j \in DOMAIN pending', i < j,
                 pending'[i][1] = "block", pending'[j][1] = "block"
          PROVE  pending'[i][2] < pending'[j][2]
      <4>1. i + 1 < j + 1
        BY <2>3, <3>2
      <4>2. QED
        BY <2>3, <3>1, <3>2, <4>1
    <3>3. ASSUME NEW u \in Threads, pc'[u] = "call", item'[u][1] = "block",
                 NEW i \in DOMAIN pending', pending'[i][1] = "block"
          PROVE  item'[u][2] < pending'[i][2]
      <4>1. u = t /\ 1 < i + 1
        BY <2>3, <2>7, <3>3 DEF Executing
      <4>2. QED
        BY <2>3, <2>4, <3>1, <3>3, <4>1
    <3>4. QED
      BY <3>2, <3>3 DEF BlocksInOrder
  <2>14. NoStrandedCallback'
    BY <2>1 DEF NoStrandedCallback
  <2>15. QED
    BY <2>5, <2>6, <2>8, <2>9, <2>12, <2>13, <2>14 DEF IInv
<1>6. QED
  BY <1>4, <1>5

\* The callback returns.
LEMMA CallStep ==
  ASSUME IInv, NEW t \in Threads, Call(t)
  PROVE  IInv'
<1>1. /\ TypeOK /\ RolesOK /\ RunningOK /\ ServicingOK /\ NoStrandedCallback
      /\ ItemsOK /\ LockOK /\ OrderOK /\ BlocksInOrder
  BY DEF IInv
<1> USE DEF queueVars, stopVars, clientVars
<1>2. pc[t] = "call" /\ item[t] \in Callbacks
  BY <1>1 DEF Call, ItemsOK
<1>3. Moves(t, "raii")
  BY <1>1, GotoMoves DEF Call, Places
<1>4. /\ item' \in [Threads -> Callbacks \cup {NoItem}]
      /\ \A u \in Threads \ {t} : item'[u] = item[u]
  BY <1>1 DEF TypeOK, Call
<1>5. promised' \subseteq Producers
  <2>1. item[t][1] = "promise" => item[t][2] \in Producers
    BY <1>2 DEF Callbacks
  <2>2. QED
    BY <1>1, <2>1 DEF TypeOK, Call
<1>6. TypeOK'
  BY <1>1, <1>3, <1>4, <1>5 DEF TypeOK, Moves, Call
<1>7. RolesOK' /\ ServicingOK'
  BY <1>1, <1>2, <1>3, ExecutorRoles DEF Call
<1>8. RunningOK'
  <2>1. \A u \in Threads : pc'[u] \in Executing <=> pc[u] \in Executing
    BY <1>2, <1>3, MovesOthers DEF Moves, Executing
  <2>2. QED
    BY <1>1, <2>1 DEF RunningOK, Call
<1>9. ItemsOK' /\ LockOK'
  BY <1>1, <1>3, <1>4, SameItems DEF Call, Adding
<1>10. OrderOK' /\ BlocksInOrder'
  BY <1>1, <1>3, <1>4, SameOrder DEF Call
<1>11. NoStrandedCallback'
  BY <1>3 DEF NoStrandedCallback, Moves
<1>12. QED
  BY <1>6, <1>7, <1>8, <1>9, <1>10, <1>11 DEF IInv

\* RAIICallbacksRunning is destroyed.
LEMMA ResetRunningStep ==
  ASSUME IInv, NEW t \in Threads, ResetRunning(t)
  PROVE  IInv'
<1>1. /\ TypeOK /\ RolesOK /\ RunningOK /\ ServicingOK /\ NoStrandedCallback
      /\ ItemsOK /\ LockOK /\ OrderOK /\ BlocksInOrder
  BY DEF IInv
<1> USE DEF queueVars, stopVars, otherVars
<1>2. pc[t] = "raii" /\ t \notin Producers
  BY <1>1, NotAProducer DEF ResetRunning
<1>3. Moves(t, "maybe")
  BY <1>1, GotoMoves DEF ResetRunning, Places
<1>4. TypeOK'
  BY <1>1, <1>3 DEF TypeOK, Moves, ResetRunning
<1>5. RolesOK' /\ ServicingOK'
  BY <1>1, <1>2, <1>3, ExecutorRoles DEF ResetRunning
<1>6. RunningOK'
  <2>1. \A u \in Threads : pc'[u] \notin Executing
    <3>1. \A u \in Threads \ {t} : pc[u] \notin Executing
      BY <1>1, <1>2 DEF RunningOK, Executing
    <3>2. QED
      BY <1>3, <3>1, MovesOthers DEF Moves, Executing
  <2>2. QED
    BY <2>1 DEF RunningOK, ResetRunning
<1>7. ItemsOK' /\ LockOK'
  BY <1>1, <1>2, <1>3, SameItems DEF ResetRunning, Adding
<1>8. OrderOK' /\ BlocksInOrder'
  BY <1>1, <1>3, SameOrder DEF ResetRunning
<1>9. NoStrandedCallback'
  BY <1>3 DEF NoStrandedCallback, Moves
<1>10. QED
  BY <1>4, <1>5, <1>6, <1>7, <1>8, <1>9 DEF IInv
-----------------------------------------------------------------------------
(* The users.                                                              *)

\* A thread that takes a callback to add: what is common to the four actions
\* that do so.
LEMMA BeginPush ==
  ASSUME IInv, TypeOK', NEW t \in Threads, t \in Producers \/ t = Main,
         Moves(t, "push"), pc[t] \in Outside \cup {"unlock"},
         t = Main => Live = {},
         UNCHANGED <<due, servicing, pending, running, tip>>,
         \A u \in Threads \ {t} : item'[u] = item[u],
         item'[t] \in Callbacks, item'[t][1] # "block",
         \/ UNCHANGED csMain
         \/ \A p \in Producers \ {t} : ~(pc[p] \in Adding /\ item[p][1] = "block")
  PROVE  IInv'
<1>1. /\ RolesOK /\ RunningOK /\ ServicingOK /\ NoStrandedCallback
      /\ ItemsOK /\ LockOK /\ OrderOK /\ BlocksInOrder
  BY DEF IInv
<1>2. t \notin Services
  BY SchedulerAssumption
<1>3. "push" \in RoleOf(t)
  BY <1>2 DEF RoleOf, ProducerPlaces, MainPlaces, AfterJoin
<1>4. RolesOK' /\ ServicingOK'
  BY <1>1, <1>2, <1>3, MovesRoles
<1>5. RunningOK'
  BY <1>1, SameRunning DEF Executing, Outside
<1>6. ItemsOK' /\ LockOK'
  BY <1>1, SameItems
<1>7. OrderOK' /\ BlocksInOrder'
  BY <1>1, SameOrder
<1>8. NoStrandedCallback'
  BY <1>1, SameStranded DEF Outside, Looking
<1>9. QED
  BY <1>4, <1>5, <1>6, <1>7, <1>8 DEF IInv

\* The head of ActivateBestChain's loop.
LEMMA ThrottleStep ==
  ASSUME IInv, NEW p \in Producers, Throttle(p)
  PROVE  IInv'
<1>1. TypeOK /\ p \in Threads \ Services /\ p # Main
  BY SchedulerAssumption DEF IInv, Threads
<1> USE DEF queueVars, stopVars, clientVars, otherVars
<1>2. pc[p] = "idle"
  BY DEF Throttle, MayBegin
<1>3. CASE Len(pending) > MaxPending
  <2>1. Goto(p, "push") /\ item' = [item EXCEPT ![p] = <<"promise", p>>]
    BY <1>3 DEF Throttle
  <2>2. Moves(p, "push")
    BY <1>1, <2>1, GotoMoves DEF Places
  <2>3. <<"promise", p>> \in Callbacks
    BY DEF Callbacks
  <2>4. /\ item' \in [Threads -> Callbacks \cup {NoItem}]
        /\ \A u \in Threads \ {p} : item'[u] = item[u]
        /\ item'[p] \in Callbacks /\ item'[p][1] # "block"
    BY <1>1, <2>1, <2>3 DEF TypeOK
  <2>5. TypeOK'
    BY <1>1, <2>2, <2>4 DEF TypeOK, Moves, Throttle
  <2>6. QED
    BY <1>1, <1>2, <2>2, <2>4, <2>5, BeginPush DEF Throttle, Outside
<1>4. CASE ~(Len(pending) > MaxPending)
  <2>1. Goto(p, "lock") /\ UNCHANGED item
    BY <1>4 DEF Throttle
  <2>2. Moves(p, "lock")
    BY <1>1, <2>1, GotoMoves DEF Places
  <2>3. TypeOK'
    BY <1>1, <2>1, <2>2 DEF TypeOK, Moves, Throttle
  <2>4. QED
    BY <1>1, <1>2, <2>1, <2>2, <2>3, UserOutside
    DEF Throttle, Outside, RoleOf, ProducerPlaces
<1>5. QED
  BY <1>3, <1>4

\* A block is connected: cs_main was free, so that no thread has another
\* BlockConnected in its hands, and all earlier ones are of earlier blocks.
LEMMA ConnectStep ==
  ASSUME IInv, NEW p \in Producers, Connect(p)
  PROVE  IInv'
<1>1. TypeOK /\ p \in Threads \ Services /\ p # Main /\ pc[p] = "lock"
  BY SchedulerAssumption DEF IInv, Threads, Connect
<1> USE DEF queueVars, stopVars, clientVars
<1>2. CASE tip < MaxBlocks
  <2>1. /\ Goto(p, "push") /\ item' = [item EXCEPT ![p] = <<"block", tip + 1>>]
        /\ csMain = NoThread /\ csMain' = p /\ tip' = tip + 1
    BY <1>2 DEF Connect
  <2>2. Moves(p, "push")
    BY <1>1, <2>1, GotoMoves DEF Places
  <2>3. tip \in Nat /\ tip + 1 \in 1 .. MaxBlocks
    BY <1>1, <1>2, SchedulerAssumption DEF TypeOK
  <2>4. <<"block", tip + 1>> \in Callbacks
    BY <2>3 DEF Callbacks
  <2>5. /\ item' \in [Threads -> Callbacks \cup {NoItem}]
        /\ \A u \in Threads \ {p} : item'[u] = item[u]
        /\ item'[p] = <<"block", tip + 1>> /\ item'[p] \in Callbacks
    BY <1>1, <2>1, <2>4 DEF TypeOK
  <2>6. TypeOK'
    BY <1>1, <2>1, <2>2, <2>3, <2>5 DEF TypeOK, Moves, Connect
  <2>7. RolesOK' /\ ServicingOK'
    BY <1>1, <2>2, MovesRoles DEF IInv, Connect, RoleOf, ProducerPlaces
  <2>8. RunningOK'
    BY <1>1, <2>2, SameRunning DEF IInv, Connect, Executing
  <2>9. \A q \in Producers : ~(pc[q] \in Adding /\ item[q][1] = "block")
    BY <2>1, SchedulerAssumption DEF IInv, LockOK
  <2>10. ItemsOK' /\ LockOK'
    BY <1>1, <2>1, <2>2, <2>5, <2>9, SameItems DEF IInv
  <2>11. \A q \in Producers : PushesBlock(q)' => q = p
    <3>1. ASSUME NEW q \in Producers, q # p PROVE ~PushesBlock(q)'
      <4>1. q \in Threads
        BY DEF Threads
      <4>2. QED
        BY <1>1, <2>2, <2>5, <2>9, <3>1, <4>1, MovesOthers DEF PushesBlock, Adding
    <3>2. QED
      BY <3>1
  <2>12. \A n \in Nat : Earlier(n) => Earlier(n)'
    BY <2>1, <2>3 DEF Earlier
  <2>13. \A u \in Threads : pc'[u] = "call" => pc[u] = "call" /\ item'[u] = item[u]
    BY <1>1, <2>2, <2>5, MovesOthers DEF Moves
  <2>14. \A c \in Callbacks : c[1] = "block" => c[2] \in Nat
    BY SchedulerAssumption DEF Callbacks
  <2>15. OrderOK'
    <3>1. \A i \in DOMAIN pending : pending[i] \in Callbacks
      BY <1>1 DEF TypeOK
    <3>2. \A i \in DOMAIN pending' : pending'[i][1] = "block" => Earlier(pending[i][2])'
      BY <2>12, <2>14, <3>1 DEF IInv, OrderOK, Connect
    <3>3. \A u \in Threads : pc'[u] = "call" /\ item'[u][1] = "block" => Earlier(item[u][2])'
      BY <2>12, <2>13, <2>14 DEF IInv, OrderOK, ItemsOK
    <3>4. \A q \in Producers : PushesBlock(q)' => item'[q][2] = tip'
      BY <2>1, <2>5, <2>11
    <3>5. QED
      BY <3>2, <3>3, <3>4 DEF OrderOK
  <2>16. BlocksInOrder'
    BY <2>13 DEF IInv, BlocksInOrder, Connect
  <2>17. NoStrandedCallback'
    BY <1>1, <2>2, SameStranded DEF IInv, Connect, Looking
  <2>18. QED
    BY <2>6, <2>7, <2>8, <2>10, <2>15, <2>16, <2>17 DEF IInv
<1>3. CASE ~(tip < MaxBlocks)
  <2>1. Goto(p, "idle") /\ UNCHANGED <<item, csMain, tip>>
    BY <1>3 DEF Connect
  <2>2. Moves(p, "idle")
    BY <1>1, <2>1, GotoMoves DEF Places
  <2>3. TypeOK'
    BY <1>1, <2>1, <2>2 DEF TypeOK, Moves, Connect
  <2>4. QED
    BY <1>1, <2>1, <2>2, <2>3, UserOutside
    DEF Connect, Outside, RoleOf, ProducerPlaces
<1>4. QED
  BY <1>2, <1>3

\* cs_main is released.
LEMMA UnlockStep ==
  ASSUME IInv, NEW p \in Producers, Unlock(p)
  PROVE  IInv'
<1>1. /\ TypeOK /\ ItemsOK /\ LockOK
      /\ p \in Threads \ Services /\ p # Main /\ pc[p] = "unlock"
  BY SchedulerAssumption DEF IInv, Threads, Unlock
<1> USE DEF queueVars, stopVars, clientVars
<1>2. Moves(p, "push")
  BY <1>1, GotoMoves DEF Unlock, Places
<1>3. item[p][2] \in 1 .. MaxBlocks
  <2>1. item[p] \in Callbacks /\ item[p][1] = "block"
    BY <1>1 DEF ItemsOK
  <2>2. QED
    BY <2>1 DEF Callbacks
<1>4. <<"tip", item[p][2]>> \in Callbacks
  BY <1>3 DEF Callbacks
<1>5. /\ item' \in [Threads -> Callbacks \cup {NoItem}]
      /\ \A u \in Threads \ {p} : item'[u] = item[u]
      /\ item'[p] \in Callbacks /\ item'[p][1] # "block"
  BY <1>1, <1>4 DEF TypeOK, Unlock
<1>6. TypeOK'
  BY <1>1, <1>2, <1>5 DEF TypeOK, Moves, Unlock
<1>7. \A q \in Producers \ {p} : ~(pc[q] \in Adding /\ item[q][1] = "block")
  BY <1>1 DEF ItemsOK, LockOK, Adding
<1>8. QED
  BY <1>1, <1>2, <1>5, <1>6, <1>7, BeginPush DEF Unlock

\* The service threads have been joined.
LEMMA JoinStep == IInv /\ Join => IInv'
<1> SUFFICES ASSUME IInv, Join PROVE IInv'
  OBVIOUS
<1>1. TypeOK /\ Main \in Threads \ Services /\ Main \notin Producers /\ pc[Main] = "join"
  BY SchedulerAssumption DEF IInv, Threads, Join
<1> USE DEF queueVars, stopVars, clientVars, otherVars
<1>2. Moves(Main, "push")
  BY <1>1, GotoMoves DEF Join, Places
<1>3. Live = {}
  BY DEF Join, Live
<1>4. <<"best", 0>> \in Callbacks
  BY DEF Callbacks
<1>5. /\ item' \in [Threads -> Callbacks \cup {NoItem}]
      /\ \A u \in Threads \ {Main} : item'[u] = item[u]
      /\ item'[Main] \in Callbacks /\ item'[Main][1] # "block"
  BY <1>1, <1>4 DEF TypeOK, Join
<1>6. TypeOK'
  BY <1>1, <1>2, <1>5 DEF TypeOK, Moves, Join
<1>7. QED
  BY <1>1, <1>2, <1>3, <1>5, <1>6, BeginPush DEF Join, Outside

\* EmptyQueue goes round its loop, or is done because nothing is pending.
LEMMA EmptyQueueStep == IInv /\ EmptyQueue => IInv'
<1> SUFFICES ASSUME IInv, EmptyQueue PROVE IInv'
  OBVIOUS
<1>1. TypeOK /\ Main \in Threads \ Services /\ Main \notin Producers /\ pc[Main] = "more"
  BY SchedulerAssumption DEF IInv, Threads, EmptyQueue
<1> USE DEF queueVars, stopVars, clientVars, otherVars
<1> DEFINE place == IF pending = <<>> /\ item[Main] = NoItem THEN "end" ELSE "pq"
<1>2. /\ place \in Places /\ place \in RoleOf(Main) /\ place \in {"end", "pq"}
      /\ pending # <<>> => place = "pq"
  BY <1>1 DEF Places, RoleOf, MainPlaces, AfterJoin
<1>3. Goto(Main, place) /\ item' = [item EXCEPT ![Main] = NoItem]
  BY DEF EmptyQueue
<1> HIDE DEF place
<1>4. Moves(Main, place)
  BY <1>1, <1>2, <1>3, GotoMoves
<1>5. /\ item' \in [Threads -> Callbacks \cup {NoItem}]
      /\ \A u \in Threads \ {Main} : item'[u] = item[u]
  BY <1>1, <1>3 DEF TypeOK
<1>6. TypeOK'
  BY <1>1, <1>4, <1>5 DEF TypeOK, Moves, EmptyQueue
<1>7. RolesOK' /\ ServicingOK'
  BY <1>1, <1>2, <1>4, MovesRoles DEF IInv, EmptyQueue, AfterJoin
<1>8. RunningOK'
  BY <1>1, <1>2, <1>4, SameRunning DEF IInv, EmptyQueue, Executing
<1>9. ItemsOK' /\ LockOK'
  BY <1>1, <1>2, <1>4, <1>5, SameItems DEF IInv, EmptyQueue
<1>10. OrderOK' /\ BlocksInOrder'
  BY <1>1, <1>2, <1>4, <1>5, SameOrder DEF IInv, EmptyQueue
<1>11. NoStrandedCallback'
  BY <1>1, <1>2, <1>4, SameStranded DEF IInv, EmptyQueue, Looking
<1>12. QED
  BY <1>6, <1>7, <1>8, <1>9, <1>10, <1>11 DEF IInv
-----------------------------------------------------------------------------
(* The theorems.                                                           *)

\* Every step keeps the invariant.
LEMMA NextStep == IInv /\ [Next]_vars => IInv'
<1> SUFFICES ASSUME IInv, [Next]_vars PROVE IInv'
  OBVIOUS
<1>0. Services \subseteq Threads /\ Producers \subseteq Threads /\ Main \in Threads
  BY DEF Threads
<1>1. ASSUME NEW t \in Threads, Client(t) PROVE IInv'
  BY <1>1, PushStep, MaybeStep, ScheduleStep, ProcessQueueStep, CallStep, ResetRunningStep
  DEF Client
<1>2. ASSUME NEW s \in Services, Service(s) PROVE IInv'
  BY <1>0, <1>1, <1>2, LoopHeadStep, TakeFirstStep, RepeatStep, InterruptedStep
  DEF Service
<1>3. ASSUME NEW p \in Producers, Continue(p) PROVE IInv'
  BY <1>0, <1>1, <1>3, ConnectStep, UnlockStep, AwaitStep, ImportEndsStep
  DEF Continue
<1>4. ASSUME Stopping PROVE IInv'
  BY <1>0, <1>1, <1>4, StopServicesStep, JoinStep, EmptyQueueStep DEF Stopping
<1>5. CASE UNCHANGED vars
  BY <1>5 DEF vars, IInv, TypeOK, RolesOK, RunningOK, ServicingOK, Live, ItemsOK, LockOK,
              OrderOK, PushesBlock, Earlier, NoStrandedCallback, BlocksInOrder
<1>6. CASE Next
  BY <1>2, <1>3, <1>4, <1>6, SpuriousWakeStep, ThrottleStep, TickStep, ShutdownStep
  DEF Next
<1>7. QED
  BY <1>5, <1>6

\* The invariant holds in every reachable state of any number of threads.
THEOREM Invariance == Spec => []IInv
<1>1. Init => IInv
  BY InitIInv
<1>2. IInv /\ [Next]_vars => IInv'
  BY NextStep
<1>3. QED
  BY <1>1, <1>2, PTL DEF Spec

\* No pending callback is forgotten by MaybeScheduleProcessQueue and
\* ProcessQueue, whichever threads run them.
THEOREM NothingStranded == Spec => []NoStrandedCallback
<1>1. IInv => NoStrandedCallback
  BY DEF IInv
<1>2. QED
  BY <1>1, Invariance, PTL

\* BlockConnected notifications reach the listeners in the order of the blocks.
THEOREM BlocksStayInOrder == Spec => []BlocksInOrder
<1>1. IInv => BlocksInOrder
  BY DEF IInv
<1>2. QED
  BY <1>1, Invariance, PTL

\* EmptyQueue's assert(!m_pscheduler->AreThreadsServicingQueue()) holds.
THEOREM AloneInEmptyQueue == Spec => []EmptyQueueAlone
<1>1. IInv => EmptyQueueAlone
  <2>1. Cardinality({}) = 0
    BY FS_EmptySet
  <2>2. QED
    BY <2>1 DEF IInv, ServicingOK, EmptyQueueAlone, AfterJoin
<1>2. QED
  BY <1>1, Invariance, PTL

-----------------------------------------------------------------------------
(* The client implements a serial queue.                                   *)

Called == {item[t] : t \in {u \in Threads : pc[u] = "call"}}

\* A step that neither begins nor ends a callback leaves the called one alone.
LEMMA CalledKept ==
  ASSUME \A u \in Threads : pc'[u] = "call" <=> pc[u] = "call",
         \A u \in Threads : pc[u] = "call" => item'[u] = item[u]
  PROVE  Called' = Called
  BY DEF Called

\* The same for a step of one thread.
LEMMA CalledKeptBy ==
  ASSUME NEW t \in Threads, NEW place, Moves(t, place), pc[t] # "call", place # "call",
         \A u \in Threads \ {t} : item'[u] = item[u]
  PROVE  Called' = Called
<1>1. \A u \in Threads : pc'[u] = "call" <=> pc[u] = "call"
  BY MovesOthers DEF Moves
<1>2. QED
  BY <1>1, CalledKept

\* Initially nothing is queued and nothing is called.
LEMMA InitRefines == Init => Serial!Init
<1> SUFFICES ASSUME Init PROVE Serial!Init
  OBVIOUS
<1>1. \A t \in Threads : pc[t] # "call"
  BY DEF Init
<1>2. QED
  BY <1>1 DEF Init, Serial!Init

\* The steps of the client: a push adds, ProcessQueue starts, the end of the
\* callback finishes, and the others change neither queue nor callback.
LEMMA ClientRefines ==
  ASSUME IInv, NEW t \in Threads, Client(t)
  PROVE  \/ Serial!Add \/ Serial!Start \/ Serial!Finish
         \/ (pending' = pending /\ Called' = Called)
<1>1. TypeOK /\ RolesOK /\ RunningOK /\ ItemsOK
  BY DEF IInv
<1> USE DEF queueVars, stopVars, clientVars, otherVars
<1>2. CASE Push(t)
  <2>1. Moves(t, "maybe") /\ pc[t] = "push"
    BY <1>1, <1>2, GotoMoves DEF Push, Places
  <2>2. Called' = Called
    BY <1>2, <2>1, CalledKeptBy DEF Push
  <2>3. item[t] \in Callbacks /\ pending' = Append(pending, item[t])
    BY <1>1, <1>2 DEF ItemsOK, Push
  <2>4. QED
    BY <2>2, <2>3 DEF Serial!Add, Called
<1>3. CASE MaybeScheduleProcessQueue(t)
  <2>1. pc[t] = "maybe" /\ pending' = pending
    BY <1>3 DEF MaybeScheduleProcessQueue
  <2>2. CASE Goto(t, Return(t)) /\ item' = Released(t)
    BY <1>1, <2>1, <2>2, GotoMoves, ReturnPlace, ReleasedItem, CalledKeptBy
  <2>3. CASE Goto(t, "sched") /\ UNCHANGED item
    <3>1. Moves(t, "sched")
      BY <1>1, <2>3, GotoMoves DEF Places
    <3>2. QED
      BY <2>1, <2>3, <3>1, CalledKeptBy
  <2>4. QED
    BY <1>3, <2>2, <2>3 DEF MaybeScheduleProcessQueue
<1>4. CASE Schedule(t)
  <2>1. pc[t] = "sched" /\ pending' = pending /\ item' = Released(t)
    BY <1>4 DEF Schedule
  <2>2. Moves(t, Return(t)) /\ Return(t) # "call"
    BY <1>1, <1>4, <2>1, NotifyingMoves, ReturnPlace DEF Schedule
  <2>3. QED
    BY <1>1, <2>1, <2>2, ReleasedItem, CalledKeptBy
<1>5. CASE ProcessQueue(t)
  <2>1. CASE running \/ pending = <<>>
    <3> DEFINE place == IF t = Main THEN "more" ELSE "loop"
    <3>1. place \in Places /\ place # "call"
      BY DEF Places
    <3>2. Goto(t, place) /\ UNCHANGED <<item, pending>> /\ pc[t] = "pq"
      BY <1>5, <2>1 DEF ProcessQueue
    <3> HIDE DEF place
    <3>3. Moves(t, place)
      BY <1>1, <3>1, <3>2, GotoMoves
    <3>4. QED
      BY <3>1, <3>2, <3>3, CalledKeptBy
  <2>2. CASE ~running /\ pending # <<>>
    <3>1. /\ Goto(t, "call") /\ pending' = Tail(pending)
          /\ item' = [item EXCEPT ![t] = Head(pending)]
      BY <1>5, <2>2 DEF ProcessQueue
    <3>2. Moves(t, "call")
      BY <1>1, <3>1, GotoMoves DEF Places
    <3>3. \A u \in Threads : pc[u] # "call"
      BY <1>1, <2>2 DEF RunningOK, Executing
    <3>4. \A u \in Threads : pc'[u] = "call" <=> u = t
      BY <3>2, <3>3, MovesOthers DEF Moves
    <3>5. item'[t] = Head(pending)
      BY <1>1, <3>1 DEF TypeOK
    <3>6. Called = {} /\ Called' = {Head(pending)}
      BY <3>3, <3>4, <3>5 DEF Called
    <3>7. QED
      BY <2>2, <3>1, <3>6 DEF Serial!Start, Called
  <2>3. QED
    BY <2>1, <2>2
<1>6. CASE Call(t)
  <2>1. Moves(t, "raii") /\ pc[t] = "call" /\ pending' = pending
    BY <1>1, <1>6, GotoMoves DEF Call, Places
  <2>2. \A u \in Threads : pc'[u] # "call"
    <3>1. \A u \in Threads \ {t} : pc[u] # "call"
      BY <1>1, <2>1 DEF RunningOK, Executing
    <3>2. QED
      BY <2>1, <3>1, MovesOthers DEF Moves
  <2>3. Called' = {} /\ Called # {}
    BY <2>1, <2>2 DEF Called
  <2>4. QED
    BY <2>1, <2>3 DEF Serial!Finish, Called
<1>7. CASE ResetRunning(t)
  <2>1. Moves(t, "maybe") /\ pc[t] = "raii"
    BY <1>1, <1>7, GotoMoves DEF ResetRunning, Places
  <2>2. QED
    BY <1>7, <2>1, CalledKeptBy DEF ResetRunning
<1>8. QED
  BY <1>2, <1>3, <1>4, <1>5, <1>6, <1>7 DEF Client

\* Nobody else touches the queue or a called callback.
LEMMA OthersRefine ==
  ASSUME IInv, Next, \A t \in Threads : ~Client(t)
  PROVE  pending' = pending /\ Called' = Called
<1>0. /\ Services \subseteq Threads /\ Producers \subseteq Threads /\ Main \in Threads
      /\ TypeOK
  BY DEF Threads, IInv
<1> USE DEF queueVars, stopVars, clientVars, otherVars
<1>1. ASSUME NEW s \in Services, LoopHead(s) \/ SpuriousWake(s) \/ TakeFirst(s) \/ Repeat(s)
                                 \/ Interrupted(s)
      PROVE  pending' = pending /\ Called' = Called
  <2>1. UNCHANGED <<item, pending>> /\ pc[s] # "call"
    BY <1>1 DEF LoopHead, SpuriousWake, TakeFirst, Repeat, Interrupted
  <2>2. \E place \in Places : place # "call" /\ Moves(s, place)
    <3>1. CASE \E place \in {"loop", "wait", "late", "timed", "pq", "repeat", "gone"} :
                 Goto(s, place)
      BY <1>0, <3>1, GotoMoves DEF Places
    <3>2. CASE \E place \in {"loop", "gone"} :
                 \E pcs \in NotifyOne(pc) : pc' = [pcs EXCEPT ![s] = place]
      BY <1>0, <3>2, NotifyingMoves DEF Places
    <3>3. QED
      BY <1>1, <3>1, <3>2 DEF LoopHead, SpuriousWake, TakeFirst, Repeat, Interrupted
  <2>3. QED
    BY <1>0, <2>1, <2>2, CalledKeptBy
<1>2. ASSUME NEW p \in Producers, Connect(p) \/ Unlock(p) \/ Await(p) \/ ImportEnds(p)
                                  \/ Throttle(p)
      PROVE  pending' = pending /\ Called' = Called
  <2>1. pending' = pending /\ pc[p] # "call"
    BY <1>2 DEF Connect, Unlock, Await, ImportEnds, Throttle, MayBegin
  <2>2. \A u \in Threads \ {p} : item'[u] = item[u]
    BY <1>0, <1>2 DEF TypeOK, Connect, Unlock, Await, ImportEnds, Throttle
  <2>3. \E place \in {"push", "idle", "lock", "gone"} : Goto(p, place)
    BY <1>2 DEF Connect, Unlock, Await, ImportEnds, Throttle
  <2>4. \E place \in Places : place # "call" /\ Moves(p, place)
    BY <1>0, <2>3, GotoMoves DEF Places
  <2>5. QED
    BY <1>0, <2>1, <2>2, <2>4, CalledKeptBy
<1>3. CASE Tick
  <2>1. \A u \in Threads : pc'[u] = "call" <=> pc[u] = "call"
    BY <1>3 DEF Tick
  <2>2. QED
    BY <1>3, <2>1, CalledKept DEF Tick
<1>4. CASE StopServices
  <2>1. \A u \in Threads : pc'[u] = "call" <=> pc[u] = "call"
    BY <1>0, <1>4 DEF TypeOK, StopServices, Goto, OnCondition
  <2>2. QED
    BY <1>4, <2>1, CalledKept DEF StopServices
<1>5. CASE Shutdown \/ Join \/ EmptyQueue
  <2>1. pending' = pending /\ pc[Main] # "call"
    BY <1>5 DEF Shutdown, Join, EmptyQueue
  <2>2. \A u \in Threads \ {Main} : item'[u] = item[u]
    BY <1>0, <1>5 DEF TypeOK, Shutdown, Join, EmptyQueue
  <2>3. \E place \in {"stopping", "push", "end", "pq"} : Goto(Main, place)
    BY <1>5 DEF Shutdown, Join, EmptyQueue
  <2>4. \E place \in Places : place # "call" /\ Moves(Main, place)
    BY <1>0, <2>3, GotoMoves DEF Places
  <2>5. QED
    BY <1>0, <2>1, <2>2, <2>4, CalledKeptBy
<1>6. QED
  BY <1>0, <1>1, <1>2, <1>3, <1>4, <1>5 DEF Next, Service, Continue, Stopping

\* Every step is a step of the serial queue or changes nothing in it.
LEMMA StepRefines ==
  IInv /\ [Next]_vars =>
    [Serial!Add \/ Serial!Start \/ Serial!Finish]_<<pending, Called>>
<1> SUFFICES ASSUME IInv, [Next]_vars
             PROVE  [Serial!Add \/ Serial!Start \/ Serial!Finish]_<<pending, Called>>
  OBVIOUS
<1>1. CASE UNCHANGED vars
  BY <1>1 DEF vars, Called
<1>2. CASE \E t \in Threads : Client(t)
  BY <1>2, ClientRefines
<1>3. CASE Next /\ \A t \in Threads : ~Client(t)
  BY <1>3, OthersRefine
<1>4. QED
  BY <1>1, <1>2, <1>3

\* SingleThreadedSchedulerClient keeps the promise of scheduler.h: the callbacks
\* run in the order in which they were added, once, one at a time, whichever of
\* any number of service threads, or EmptyQueue, runs them.
THEOREM Refinement == Spec => SerialQueueSpec
<1>1. IInv /\ [Next]_vars =>
        [Serial!Add \/ Serial!Start \/ Serial!Finish]_
          <<pending, {item[t] : t \in {u \in Threads : pc[u] = "call"}}>>
  BY StepRefines DEF Called
<1>2. QED
  BY <1>1, InitRefines, Invariance, PTL DEF Spec, SerialQueueSpec, Serial!Spec
=============================================================================
