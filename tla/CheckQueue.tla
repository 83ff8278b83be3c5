----------------------------- MODULE CheckQueue -----------------------------
(***************************************************************************)
(* CCheckQueue and CCheckQueueControl (checkqueue.h): the queue through    *)
(* which ConnectBlock hands script checks to the worker threads of         *)
(* ThreadScriptCheck.  A master holds ControlMutex, adds batches of        *)
(* checks, then joins the workers in Loop until every check is done and    *)
(* learns whether all of them succeeded.                                   *)
(*                                                                         *)
(* A critical section under the queue's mutex is one step.  Waiting on a   *)
(* condition variable releases the mutex: a thread waits until it is       *)
(* notified (or wakes spuriously), and then needs the mutex again.  The    *)
(* order of the queue does not matter to the code and is left out.         *)
(***************************************************************************)
EXTENDS Naturals, FiniteSets

CONSTANTS Workers,       \* threads that run Thread()
          Masters,       \* threads that create a CCheckQueueControl
          NoMaster,      \* nobody holds ControlMutex
          Checks,        \* the checks a master may add
          Bad,           \* the checks whose operator() answers false
          nBatchSize     \* largest number of checks taken at once

ASSUME CheckQueueAssumption ==
  /\ IsFiniteSet(Checks) /\ Bad \subseteq Checks
  /\ IsFiniteSet(Workers) /\ IsFiniteSet(Masters)
  /\ Workers \cap Masters = {} /\ NoMaster \notin Masters
  /\ nBatchSize \in Nat \ {0}

Threads == Workers \cup Masters

VARIABLES pc,            \* where each thread is, see Places
          queue,         \* checks nobody has taken yet
          batch,         \* checks a thread has taken and not yet accounted for
          fOk,           \* the thread's own result so far
          nIdle, nTotal, nTodo, fAllOk,    \* the members of CCheckQueue
          holder,        \* the owner of ControlMutex
          ret,           \* what Wait returned to the master
          added,         \* all checks the current owner has added
          interrupted    \* threads that shutdown has interrupted in cond.wait

vars == <<pc, queue, batch, fOk, nIdle, nTotal, nTodo, fAllOk, holder, ret, added, interrupted>>

\* "out": a master without a control object; "add": it owns ControlMutex and
\* may add; "loop": about to lock the mutex at the head of Loop; "wait": in
\* cond.wait; "woken": notified, about to lock the mutex again; "work":
\* running its checks; "done": Wait has returned; "gone": a worker that was
\* interrupted at shutdown.
Places == {"out", "add", "loop", "wait", "woken", "work", "done", "gone"}

TypeOK == /\ pc \in [Threads -> Places]
          /\ queue \subseteq Checks
          /\ batch \in [Threads -> SUBSET Checks]
          /\ fOk \in [Threads -> BOOLEAN]
          /\ nIdle \in Nat /\ nTotal \in Nat /\ nTodo \in Nat
          /\ fAllOk \in BOOLEAN
          /\ holder \in Masters \cup {NoMaster}
          /\ ret \in BOOLEAN
          /\ added \subseteq Checks
          /\ interrupted \subseteq Threads

Init == /\ pc = [t \in Threads |-> IF t \in Workers THEN "loop" ELSE "out"]
        /\ queue = {} /\ batch = [t \in Threads |-> {}]
        /\ fOk = [t \in Threads |-> TRUE]
        /\ nIdle = 0 /\ nTotal = 0 /\ nTodo = 0 /\ fAllOk = TRUE
        /\ holder = NoMaster /\ ret = TRUE /\ added = {} /\ interrupted = {}

-----------------------------------------------------------------------------
(* The control object.                                                     *)

\* The constructor enters ControlMutex.
Enter(m) == /\ pc[m] = "out" /\ holder = NoMaster
            /\ holder' = m
            /\ pc' = [pc EXCEPT ![m] = "add"]
            /\ added' = {}
            /\ UNCHANGED <<queue, batch, fOk, nIdle, nTotal, nTodo, fAllOk, ret, interrupted>>

\* notify_one wakes one waiting thread if there is one, notify_all wakes all.
NotifyOne(S, pcs) == IF {t \in S : pcs[t] = "wait"} = {} THEN {pcs}
                     ELSE {[pcs EXCEPT ![t] = "woken"] : t \in {u \in S : pcs[u] = "wait"}}
NotifyAll(S, pcs) == [t \in Threads |-> IF t \in S /\ pcs[t] = "wait" THEN "woken" ELSE pcs[t]]

\* Add: the checks go to the queue; one check wakes one worker, several all.
Add(m, new) == /\ pc[m] = "add"
               /\ queue' = queue \cup new
               /\ added' = added \cup new
               /\ nTodo' = nTodo + Cardinality(new)
               /\ pc' \in IF Cardinality(new) = 0 THEN {pc}
                          ELSE IF Cardinality(new) = 1 THEN NotifyOne(Workers, pc)
                          ELSE {NotifyAll(Workers, pc)}
               /\ UNCHANGED <<batch, fOk, nIdle, nTotal, fAllOk, holder, ret, interrupted>>

\* Wait, called by ConnectBlock or by the destructor: the master joins Loop.
StartWait(m) == /\ pc[m] = "add"
                /\ pc' = [pc EXCEPT ![m] = "loop"]
                /\ fOk' = [fOk EXCEPT ![m] = TRUE]
                /\ UNCHANGED <<queue, batch, nIdle, nTotal, nTodo, fAllOk, holder, ret, added, interrupted>>

\* The destructor leaves ControlMutex.
Leave(m) == /\ pc[m] = "done"
            /\ holder' = NoMaster
            /\ pc' = [pc EXCEPT ![m] = "out"]
            /\ UNCHANGED <<queue, batch, fOk, nIdle, nTotal, nTodo, fAllOk, ret, added, interrupted>>

-----------------------------------------------------------------------------
(* Loop.  Its critical section is split by what it finds; each action ends *)
(* where the thread releases the mutex.  The operators ...Now give what the*)
(* clean-up of the last batch, or the first iteration, has made of a       *)
(* member by then.                                                         *)

FirstIteration(t) == pc[t] = "loop" /\ batch[t] = {}
CleanUp(t) == pc[t] = "loop" /\ batch[t] # {}
AtQueue(t) == pc[t] \in {"loop", "woken"}

\* Faulty variant of AllOkNow: the thread's result replaces the others'.
AllOkOverwritten(t) == IF CleanUp(t) THEN fOk[t] ELSE fAllOk

AllOkNow(t) == fAllOk /\ (CleanUp(t) => fOk[t])
\* Faulty variant of TodoNow: a batch is counted as one check.
TodoMinusOne(t) == IF CleanUp(t) THEN nTodo - 1 ELSE nTodo

TodoNow(t) == IF CleanUp(t) THEN nTodo - Cardinality(batch[t]) ELSE nTodo
TotalNow(t) == IF FirstIteration(t) THEN nTotal + 1 ELSE nTotal
\* Faulty variant of IdleNow: a thread that wakes up stays idle.
IdleNotRestored(t) == nIdle

IdleNow(t) == IF pc[t] = "woken" THEN nIdle - 1 ELSE nIdle

\* Faulty variant of PcsNow: nobody tells the master.
PcsSilent(t) == {pc}

\* A worker that finishes the last check tells the master.
PcsNow(t) == IF CleanUp(t) /\ TodoNow(t) = 0 /\ t \in Workers
             THEN NotifyOne(Masters, pc) ELSE {pc}

BatchNow(total, idle, size) ==
  LET share == size \div (total + idle + 1)
      few == IF share < nBatchSize THEN share ELSE nBatchSize
  IN IF few > 1 THEN few ELSE 1

\* Faulty variant of Return: the master leaves when the queue is empty, without
\* waiting for the checks the workers still hold.
ReturnEarly(t) == /\ AtQueue(t) /\ t \in Masters
                  /\ queue = {}
                  /\ nTotal' = TotalNow(t) - 1
                  /\ nIdle' = IdleNow(t)
                  /\ nTodo' = TodoNow(t)
                  /\ ret' = AllOkNow(t)
                  /\ fAllOk' = TRUE
                  /\ batch' = [batch EXCEPT ![t] = {}]
                  /\ pc' = [pc EXCEPT ![t] = "done"]
                  /\ UNCHANGED <<queue, fOk, holder, added, interrupted>>

\* Nothing left and nobody still working: Wait returns and resets fAllOk.
Return(t) == /\ AtQueue(t) /\ t \in Masters
             /\ queue = {} /\ TodoNow(t) = 0
             /\ nTotal' = TotalNow(t) - 1
             /\ nIdle' = IdleNow(t)
             /\ nTodo' = 0
             /\ ret' = AllOkNow(t)
             /\ fAllOk' = TRUE
             /\ batch' = [batch EXCEPT ![t] = {}]
             /\ pc' = [pc EXCEPT ![t] = "done"]
             /\ UNCHANGED <<queue, fOk, holder, added, interrupted>>

\* Nothing to take: wait on the condition variable.
Sleep(t) == /\ AtQueue(t)
            /\ queue = {} /\ ~(t \in Masters /\ TodoNow(t) = 0)
            /\ nTotal' = TotalNow(t)
            /\ nIdle' = IdleNow(t) + 1
            /\ nTodo' = TodoNow(t)
            /\ fAllOk' = AllOkNow(t)
            /\ batch' = [batch EXCEPT ![t] = {}]
            /\ \E pcs \in PcsNow(t) : pc' = [pcs EXCEPT ![t] = "wait"]
            /\ UNCHANGED <<queue, fOk, holder, ret, added, interrupted>>

\* Take up to nNow checks and the result so far.
Take(t) == /\ AtQueue(t)
           /\ queue # {}
           /\ nTotal' = TotalNow(t)
           /\ nIdle' = IdleNow(t)
           /\ nTodo' = TodoNow(t)
           /\ fAllOk' = AllOkNow(t)
           /\ fOk' = [fOk EXCEPT ![t] = AllOkNow(t)]
           /\ \E taken \in SUBSET queue :
                /\ Cardinality(taken) = BatchNow(nTotal', nIdle', Cardinality(queue))
                /\ queue' = queue \ taken
                /\ batch' = [batch EXCEPT ![t] = taken]
           /\ \E pcs \in PcsNow(t) : pc' = [pcs EXCEPT ![t] = "work"]
           /\ UNCHANGED <<holder, ret, added, interrupted>>

\* Outside the mutex: run the checks until one fails.
Execute(t) == /\ pc[t] = "work"
              /\ fOk' = [fOk EXCEPT ![t] = @ /\ batch[t] \cap Bad = {}]
              /\ pc' = [pc EXCEPT ![t] = "loop"]
              /\ UNCHANGED <<queue, batch, nIdle, nTotal, nTodo, fAllOk, holder, ret, added, interrupted>>

\* A condition variable may wake a thread that nobody notified.
SpuriousWake(t) == /\ pc[t] = "wait"
                   /\ pc' = [pc EXCEPT ![t] = "woken"]
                   /\ UNCHANGED <<queue, batch, fOk, nIdle, nTotal, nTodo, fAllOk, holder, ret, added, interrupted>>

\* Shutdown interrupts the thread group once: cond.wait throws and Loop is
\* left without restoring nIdle and nTotal.  A worker is gone; a master (the
\* import thread) unwinds ConnectBlock and waits again in the destructor of
\* its control object.
Interrupt(t) == /\ pc[t] \in {"wait", "woken"} /\ t \notin interrupted
                /\ interrupted' = interrupted \cup {t}
                /\ pc' = [pc EXCEPT ![t] = IF t \in Workers THEN "gone" ELSE "loop"]
                /\ fOk' = [fOk EXCEPT ![t] = TRUE]
                /\ UNCHANGED <<queue, batch, nIdle, nTotal, nTodo, fAllOk, holder, ret, added>>

Loop(t) == Return(t) \/ Sleep(t) \/ Take(t) \/ Execute(t)

Next == \/ \E m \in Masters : \/ Enter(m) \/ StartWait(m) \/ Leave(m)
                              \/ \E new \in SUBSET (Checks \ added) : Add(m, new)
        \/ \E t \in Threads : Loop(t) \/ SpuriousWake(t) \/ Interrupt(t)

Spec == Init /\ [][Next]_vars

\* The scheduler runs every thread that can run; a master that has finished
\* leaves.  Nothing is assumed of spurious wake-ups, of interrupts, or of
\* masters coming back.
Fairness == /\ \A t \in Threads : WF_vars(Loop(t))
            /\ \A m \in Masters : WF_vars(StartWait(m)) /\ WF_vars(Leave(m))

FairSpec == Spec /\ Fairness

-----------------------------------------------------------------------------
(* Properties.                                                             *)

InFlight == UNION {batch[t] : t \in Threads}

\* nTodo counts exactly the checks not accounted for, queued or taken, and no
\* check is in two places: the master may trust nTodo = 0.
TodoCountsPending ==
  /\ nTodo = Cardinality(queue) + Cardinality(InFlight)
  /\ queue \cap InFlight = {}
  /\ \A t, u \in Threads : t # u => batch[t] \cap batch[u] = {}

\* nIdle, by which the batches are divided, is the number of threads inside
\* cond.wait, plus one for every wait that an interruption cut off.
IdleCountsWaiting ==
  nIdle = Cardinality({t \in Threads : pc[t] \in {"wait", "woken"}}) + Cardinality(interrupted)

\* Wait answers TRUE iff every check added since ControlMutex was taken is
\* good, whichever threads ran them and although some are skipped once one
\* has failed.
WaitIsConjunction == \A m \in Masters : pc[m] = "done" => (ret <=> added \cap Bad = {})

\* The next master finds an unused queue: nothing of an earlier block is
\* queued, running or remembered in fAllOk ("passed queue is supposed to be
\* unused").
QueueUnusedWhenFree ==
  holder = NoMaster => queue = {} /\ InFlight = {} /\ nTodo = 0 /\ fAllOk

\* A master that starts to wait gets its answer, whether or not workers are
\* left to help it.
WaitReturns == \A m \in Masters : pc[m] = "loop" ~> pc[m] = "done"
=============================================================================
