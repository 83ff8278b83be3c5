-------------------------- MODULE CheckQueueProofs --------------------------
(***************************************************************************)
(* Proofs about CheckQueue for any number of workers, masters and checks   *)
(* and any batch size: the counters count, the queue is left unused, and   *)
(* Wait answers the conjunction of the checks.                             *)
(***************************************************************************)
EXTENDS CheckQueue, FiniteSetTheorems, TLAPS

\* Threads inside cond.wait, and threads that nTotal counts.
Waiting == {t \in Threads : pc[t] \in {"wait", "woken"}}
Counted == {t \in Threads : \/ pc[t] \in {"wait", "woken", "work"}
                            \/ pc[t] = "loop" /\ batch[t] # {}}

\* Where a thread can be, and what it can hold there.
PlacesOK ==
  /\ \A w \in Workers : pc[w] \notin {"out", "add", "done"}
  /\ \A m \in Masters : pc[m] # "gone" /\ (pc[m] # "out" <=> holder = m)
  /\ \A t \in Threads : /\ batch[t] # {} => pc[t] \in {"loop", "work"}
                        /\ pc[t] = "work" => batch[t] # {}

\* Everything in the queue or in a batch was added by the owner of ControlMutex.
PendingAdded == queue \subseteq added /\ \A t \in Threads : batch[t] \subseteq added

\* nTotal counts the threads in Loop, plus one for every interrupted wait.
TotalCounts == nTotal = Cardinality(Counted) + Cardinality(interrupted)

\* No master is between its constructor and the end of Wait.
Resting == \A m \in Masters : pc[m] \in {"out", "done"}

RestingUnused == Resting => queue = {} /\ (\A t \in Threads : batch[t] = {}) /\ fAllOk

\* A failure that is not yet in ret is in fAllOk, in the queue, or with a thread
\* that will account for it.
FailurePending ==
  \/ ~fAllOk \/ queue \cap Bad # {}
  \/ \E t \in Threads : \/ pc[t] = "work" /\ batch[t] \cap Bad # {}
                        \/ pc[t] = "loop" /\ batch[t] # {} /\ ~fOk[t]

Verdict ==
  /\ ~fAllOk => added \cap Bad # {}
  /\ \A t \in Threads : batch[t] # {} /\ ~fOk[t] => added \cap Bad # {}
  /\ ~Resting /\ added \cap Bad # {} => FailurePending

\* The inductive invariant.
IInv == /\ TypeOK /\ PlacesOK /\ PendingAdded
        /\ TodoCountsPending /\ IdleCountsWaiting /\ TotalCounts
        /\ RestingUnused /\ Verdict /\ WaitIsConjunction

-----------------------------------------------------------------------------
(* Facts about the operators.                                              *)

\* There are finitely many threads, so the counters count finite sets.
LEMMA FiniteThreads ==
  /\ IsFiniteSet(Threads)
  /\ \A S \in SUBSET Threads : IsFiniteSet(S) /\ Cardinality(S) \in Nat
<1>1. IsFiniteSet(Threads) BY CheckQueueAssumption, FS_Union DEF Threads
<1> QED BY <1>1, FS_Subset, FS_CardinalityType

\* The same for the checks that nTodo counts.
LEMMA FiniteChecks ==
  \A S \in SUBSET Checks : IsFiniteSet(S) /\ Cardinality(S) \in Nat
BY CheckQueueAssumption, FS_Subset, FS_CardinalityType

\* The places after a notification: some waiting threads are woken.
Wakes(pcs) == /\ pcs \in [Threads -> Places]
              /\ \A u \in Threads : pcs[u] = pc[u] \/ (pc[u] = "wait" /\ pcs[u] = "woken")

\* notify_one and notify_all only wake threads that wait.
LEMMA NotifyWakes ==
  ASSUME TypeOK, NEW S \in SUBSET Threads
  PROVE  /\ \A pcs \in NotifyOne(S, pc) : Wakes(pcs)
         /\ Wakes(NotifyAll(S, pc))
BY DEF TypeOK, Wakes, NotifyOne, NotifyAll, Places

\* Add and the end of a batch change the places only by notifications.
LEMMA PcsNowWakes ==
  ASSUME TypeOK, NEW t \in Threads, NEW pcs \in PcsNow(t)
  PROVE  Wakes(pcs)
<1>1. Wakes(pc) BY DEF TypeOK, Wakes
<1>2. Masters \in SUBSET Threads BY DEF Threads
<1> QED BY <1>1, <1>2, NotifyWakes DEF PcsNow

\* What is in flight after one thread's batch was replaced.
LEMMA BatchReplaced ==
  ASSUME TypeOK, TodoCountsPending, NEW t \in Threads, NEW new \in SUBSET Checks,
         new \cap InFlight = {},
         batch' = [batch EXCEPT ![t] = new]
  PROVE  /\ InFlight' = (InFlight \ batch[t]) \cup new
         /\ Cardinality(InFlight') = Cardinality(InFlight) - Cardinality(batch[t]) + Cardinality(new)
         /\ \A u, v \in Threads : u # v => batch'[u] \cap batch'[v] = {}
         /\ Cardinality(batch[t]) <= Cardinality(InFlight)
<1> DEFINE rest == InFlight \ batch[t]
<1>1. /\ batch[t] \subseteq InFlight /\ InFlight \in SUBSET Checks
      /\ batch \in [Threads -> SUBSET Checks]
      /\ \A u, v \in Threads : u # v => batch[u] \cap batch[v] = {}
  BY DEF TypeOK, InFlight, TodoCountsPending
<1>2. InFlight' = rest \cup new
  BY <1>1 DEF InFlight
<1>3. InFlight \cap batch[t] = batch[t] BY <1>1
<1>4. IsFiniteSet(InFlight) /\ IsFiniteSet(rest) /\ IsFiniteSet(new) /\ IsFiniteSet(batch[t])
  BY <1>1, FiniteChecks
<1>5. Cardinality(rest) = Cardinality(InFlight) - Cardinality(batch[t])
  BY <1>3, <1>4, FS_Difference
<1>6. rest \cap new = {} OBVIOUS
<1>7. Cardinality(rest \cup new) = Cardinality(rest) + Cardinality(new) - 0
  BY <1>4, <1>6, FS_Union, FS_EmptySet
<1>8. Cardinality(rest) \in Nat /\ Cardinality(new) \in Nat
  BY <1>4, FS_CardinalityType
<1>9. \A u, v \in Threads : u # v => batch'[u] \cap batch'[v] = {}
  <2> SUFFICES ASSUME NEW u \in Threads, NEW v \in Threads, u # v
               PROVE  batch'[u] \cap batch'[v] = {}
    OBVIOUS
  <2>1. \A x \in Threads : batch[x] \cap new = {} BY DEF InFlight
  <2> QED BY <1>1, <2>1
<1>10. Cardinality(batch[t]) <= Cardinality(InFlight) BY <1>1, <1>4, FS_Subset
<1> QED BY <1>2, <1>5, <1>7, <1>8, <1>9, <1>10

\* The members of the queue at the point where Loop looks at it.
LEMMA AtQueueCounts ==
  ASSUME IInv, NEW t \in Threads, AtQueue(t)
  PROVE  /\ TodoNow(t) = nTodo - Cardinality(batch[t])
         /\ IdleNow(t) = Cardinality(Waiting \ {t}) + Cardinality(interrupted)
         /\ TotalNow(t) = Cardinality(Counted \cup {t}) + Cardinality(interrupted)
<1> USE DEF IInv
<1>1. /\ IsFiniteSet(Waiting) /\ IsFiniteSet(Counted) /\ interrupted \in SUBSET Threads
      /\ Cardinality(Waiting) \in Nat /\ Cardinality(Counted) \in Nat
      /\ Cardinality(interrupted) \in Nat /\ nTodo \in Nat
  BY FiniteThreads DEF Waiting, Counted, TypeOK
<1>2. TodoNow(t) = nTodo - Cardinality(batch[t])
  <2>1. CleanUp(t) <=> batch[t] # {} BY DEF CleanUp, AtQueue, PlacesOK
  <2>2. Cardinality({}) = 0 BY FS_EmptySet
  <2> QED BY <1>1, <2>1, <2>2 DEF TodoNow
<1>3. IdleNow(t) = Cardinality(Waiting \ {t}) + Cardinality(interrupted)
  <2>1. Cardinality(Waiting \ {t}) =
          IF t \in Waiting THEN Cardinality(Waiting) - 1 ELSE Cardinality(Waiting)
    BY <1>1, FS_RemoveElement
  <2>2. t \in Waiting <=> pc[t] = "woken" BY DEF Waiting, AtQueue
  <2>3. nIdle = Cardinality(Waiting) + Cardinality(interrupted)
    BY DEF IdleCountsWaiting, Waiting
  <2> QED BY <1>1, <2>1, <2>2, <2>3 DEF IdleNow
<1>4. TotalNow(t) = Cardinality(Counted \cup {t}) + Cardinality(interrupted)
  <2>1. Cardinality(Counted \cup {t}) =
          IF t \in Counted THEN Cardinality(Counted) ELSE Cardinality(Counted) + 1
    BY <1>1, FS_AddElement
  <2>2. t \in Counted <=> ~FirstIteration(t)
    BY DEF Counted, FirstIteration, AtQueue
  <2> QED BY <1>1, <2>1, <2>2 DEF TotalNow, TotalCounts
<1> QED BY <1>2, <1>3, <1>4

\* A thread takes at least one check, at most nBatchSize.
LEMMA BatchNowPositive ==
  ASSUME NEW total \in Nat, NEW idle \in Nat, NEW size \in Nat
  PROVE  BatchNow(total, idle, size) \in Nat \ {0}
<1>1. size \div (total + idle + 1) \in Nat OBVIOUS
<1> QED BY <1>1, CheckQueueAssumption DEF BatchNow

-----------------------------------------------------------------------------
(* The inductive invariant holds initially and is preserved by each action.*)

\* The queue is constructed empty, with all counters 0 and fAllOk set.
LEMMA InitIInv == Init => IInv
<1> SUFFICES ASSUME Init PROVE IInv OBVIOUS
<1> USE DEF Init
<1>1. TypeOK BY CheckQueueAssumption DEF TypeOK, Threads, Places
<1>2. PlacesOK /\ PendingAdded BY CheckQueueAssumption DEF PlacesOK, PendingAdded, Threads
<1>3. InFlight = {} /\ Waiting = {} /\ Counted = {}
  BY DEF InFlight, Waiting, Counted
<1>4. TodoCountsPending BY <1>3, FS_EmptySet DEF TodoCountsPending
<1>5. IdleCountsWaiting /\ TotalCounts
  BY <1>3, FS_EmptySet DEF IdleCountsWaiting, TotalCounts, Waiting
<1>6. RestingUnused /\ Verdict /\ WaitIsConjunction
  BY CheckQueueAssumption DEF RestingUnused, Verdict, WaitIsConjunction, Threads
<1> QED BY <1>1, <1>2, <1>4, <1>5, <1>6 DEF IInv

\* The counters of threads depend on these two sets only.
LEMMA SameCounts ==
  ASSUME IInv, Waiting' = Waiting, Counted' = Counted,
         UNCHANGED <<nIdle, nTotal, interrupted>>
  PROVE  IdleCountsWaiting' /\ TotalCounts'
BY DEF IInv, IdleCountsWaiting, TotalCounts, Waiting

\* A step that moves no check and leaves nTodo alone keeps nTodo exact.
LEMMA SameTodo ==
  ASSUME IInv, UNCHANGED <<batch, queue, nTodo>>
  PROVE  TodoCountsPending'
BY DEF IInv, TodoCountsPending, InFlight

\* A master that takes ControlMutex finds the queue unused.
LEMMA EnterStep ==
  ASSUME IInv, NEW m \in Masters, Enter(m)
  PROVE  IInv'
<1> USE DEF Enter
<1>1. m \in Threads /\ m # NoMaster BY CheckQueueAssumption DEF Threads
<1>2. Resting /\ queue = {} /\ (\A t \in Threads : batch[t] = {}) /\ fAllOk
  BY CheckQueueAssumption DEF IInv, PlacesOK, RestingUnused, Resting
<1>3. TypeOK' BY <1>1 DEF IInv, TypeOK, Places
<1>4. PlacesOK' BY <1>1, CheckQueueAssumption DEF IInv, PlacesOK, TypeOK, Threads
<1>5. PendingAdded' BY <1>2 DEF PendingAdded
<1>6. Waiting' = Waiting /\ Counted' = Counted
  BY <1>1 DEF Waiting, Counted, IInv, TypeOK
<1>7. ~Resting' BY <1>1 DEF Resting, IInv, TypeOK
<1>8. RestingUnused' /\ Verdict' BY <1>2, <1>7 DEF RestingUnused, Verdict
<1>9. WaitIsConjunction'
  BY <1>1, CheckQueueAssumption DEF WaitIsConjunction, IInv, PlacesOK, TypeOK, Threads
<1> QED BY <1>3, <1>4, <1>5, <1>6, <1>8, <1>9, SameCounts, SameTodo DEF IInv

\* Add puts new checks into the queue and counts them in nTodo.
LEMMA AddStep ==
  ASSUME IInv, NEW m \in Masters, NEW new \in SUBSET (Checks \ added), Add(m, new)
  PROVE  IInv'
<1> USE DEF Add
<1>1. m \in Threads BY DEF Threads
<1>2. Wakes(pc')
  <2>1. Wakes(pc) BY DEF Wakes, IInv, TypeOK
  <2>2. Workers \in SUBSET Threads BY DEF Threads
  <2> QED BY <2>1, <2>2, NotifyWakes DEF IInv
<1>3. TypeOK'
  BY <1>2, FiniteChecks DEF IInv, TypeOK, Wakes
<1>4. PlacesOK' BY <1>2 DEF IInv, PlacesOK, Wakes, Threads
<1>5. PendingAdded' BY DEF IInv, PendingAdded
<1>6. Waiting' = Waiting /\ Counted' = Counted
  BY <1>2 DEF Waiting, Counted, Wakes
<1>7. TodoCountsPending'
  <2>1. InFlight' = InFlight /\ InFlight \in SUBSET Checks /\ queue \in SUBSET Checks
    BY DEF InFlight, IInv, TypeOK
  <2>2. new \cap queue = {} /\ new \cap InFlight = {}
    BY DEF InFlight, IInv, PendingAdded
  <2>3. Cardinality(queue \cup new) = Cardinality(queue) + Cardinality(new) - 0
    <3>1. queue \cap new = {} BY <2>2
    <3> QED BY <3>1, <2>1, FiniteChecks, FS_Union, FS_EmptySet
  <2>4. /\ Cardinality(queue) \in Nat /\ Cardinality(new) \in Nat
        /\ Cardinality(InFlight) \in Nat
    BY <2>1, FiniteChecks
  <2> QED BY <2>1, <2>2, <2>3, <2>4 DEF IInv, TodoCountsPending
<1>8. ~Resting /\ ~Resting'
  BY <1>1, <1>2 DEF Resting, Wakes
<1>9. RestingUnused' BY <1>8 DEF RestingUnused
<1>10. Verdict'
  <2>1. \A t \in Threads : pc[t] \in {"work", "loop"} => pc'[t] = pc[t]
    BY <1>2 DEF Wakes
  <2>2. FailurePending => FailurePending'
    BY <2>1 DEF FailurePending
  <2>3. new \cap Bad # {} => FailurePending' BY DEF FailurePending
  <2> QED BY <1>8, <2>2, <2>3 DEF Verdict, IInv
<1>11. WaitIsConjunction'
  <2>1. \A n \in Masters : pc'[n] # "done"
    BY <1>1, <1>2, CheckQueueAssumption DEF Wakes, IInv, PlacesOK, Threads
  <2> QED BY <2>1 DEF WaitIsConjunction
<1> QED BY <1>3, <1>4, <1>5, <1>6, <1>7, <1>9, <1>10, <1>11, SameCounts DEF IInv

\* The master enters Loop with no check in its hands.
LEMMA StartWaitStep ==
  ASSUME IInv, NEW m \in Masters, StartWait(m)
  PROVE  IInv'
<1> USE DEF StartWait
<1>1. m \in Threads /\ batch[m] = {} /\ pc'[m] = "loop"
  BY DEF Threads, IInv, PlacesOK, TypeOK
<1>2. TypeOK' BY <1>1 DEF IInv, TypeOK, Places
<1>3. PlacesOK' BY <1>1, CheckQueueAssumption DEF IInv, PlacesOK, TypeOK, Threads
<1>4. PendingAdded' BY DEF IInv, PendingAdded
<1>5. Waiting' = Waiting /\ Counted' = Counted
  BY <1>1 DEF Waiting, Counted, IInv, TypeOK
<1>6. ~Resting /\ ~Resting' BY <1>1 DEF Resting
<1>7. RestingUnused' BY <1>6 DEF RestingUnused
<1>8. Verdict'
  <2>1. \A t \in Threads : batch[t] # {} => t # m /\ pc'[t] = pc[t] /\ fOk'[t] = fOk[t]
    BY <1>1 DEF IInv, TypeOK
  <2>2. FailurePending => FailurePending'
    BY <2>1 DEF FailurePending, IInv, PlacesOK
  <2> QED BY <1>6, <2>1, <2>2 DEF Verdict, IInv
<1>9. WaitIsConjunction'
  BY <1>1 DEF WaitIsConjunction, IInv, PlacesOK, TypeOK, Threads
<1> QED BY <1>2, <1>3, <1>4, <1>5, <1>7, <1>8, <1>9, SameCounts, SameTodo DEF IInv

\* The master gives ControlMutex back; Wait has left the queue unused.
LEMMA LeaveStep ==
  ASSUME IInv, NEW m \in Masters, Leave(m)
  PROVE  IInv'
<1> USE DEF Leave
<1>1. m \in Threads /\ batch[m] = {} /\ pc'[m] = "out" /\ m # NoMaster
  BY CheckQueueAssumption DEF Threads, IInv, PlacesOK, TypeOK
<1>2. TypeOK' BY <1>1 DEF IInv, TypeOK, Places
<1>3. \A n \in Masters : pc'[n] = "out"
  BY <1>1, CheckQueueAssumption DEF IInv, PlacesOK, TypeOK, Threads
<1>4. PlacesOK' BY <1>1, <1>3, CheckQueueAssumption DEF IInv, PlacesOK, TypeOK, Threads
<1>5. PendingAdded' BY DEF IInv, PendingAdded
<1>6. Waiting' = Waiting /\ Counted' = Counted
  BY <1>1 DEF Waiting, Counted, IInv, TypeOK
<1>7. Resting /\ Resting'
  BY <1>1, <1>3 DEF Resting, IInv, PlacesOK
<1>8. RestingUnused' BY <1>7 DEF RestingUnused, IInv
<1>9. Verdict' BY <1>7 DEF Verdict, IInv
<1>10. WaitIsConjunction' BY <1>3 DEF WaitIsConjunction
<1> QED BY <1>2, <1>4, <1>5, <1>6, <1>8, <1>9, <1>10, SameCounts, SameTodo DEF IInv

\* A thread that wakes unasked is still counted in nIdle.
LEMMA SpuriousWakeStep ==
  ASSUME IInv, NEW t \in Threads, SpuriousWake(t)
  PROVE  IInv'
<1> USE DEF SpuriousWake
<1>1. Wakes(pc') BY DEF Wakes, IInv, TypeOK, Places
<1>2. TypeOK' BY <1>1 DEF IInv, TypeOK, Wakes
<1>3. PlacesOK' BY <1>1 DEF IInv, PlacesOK, Wakes, Threads
<1>4. PendingAdded' BY DEF IInv, PendingAdded
<1>5. Waiting' = Waiting /\ Counted' = Counted
  BY <1>1 DEF Waiting, Counted, Wakes
<1>6. Resting' => Resting BY <1>1 DEF Resting, Wakes, Threads
<1>7. Resting => Resting' BY <1>1 DEF Resting, Wakes, Threads
<1>8. RestingUnused' BY <1>6 DEF RestingUnused, IInv
<1>9. Verdict'
  <2>1. FailurePending => FailurePending'
    BY <1>1 DEF FailurePending, Wakes
  <2> QED BY <1>7, <2>1 DEF Verdict, IInv
<1>10. WaitIsConjunction' BY <1>1 DEF WaitIsConjunction, IInv, Wakes, Threads
<1> QED BY <1>2, <1>3, <1>4, <1>5, <1>8, <1>9, <1>10, SameCounts, SameTodo DEF IInv

\* A thread that runs its checks keeps what it will account for in fOk.
LEMMA ExecuteStep ==
  ASSUME IInv, NEW t \in Threads, Execute(t)
  PROVE  IInv'
<1> USE DEF Execute
<1>1. /\ batch[t] # {} /\ pc'[t] = "loop" /\ fOk'[t] = (fOk[t] /\ batch[t] \cap Bad = {})
      /\ \A u \in Threads : u # t => pc'[u] = pc[u] /\ fOk'[u] = fOk[u]
  BY DEF IInv, PlacesOK, TypeOK
<1>2. TypeOK' BY DEF IInv, TypeOK, Places
<1>3. PlacesOK' BY <1>1 DEF IInv, PlacesOK, Threads
<1>4. PendingAdded' BY DEF IInv, PendingAdded
<1>5. Waiting' = Waiting /\ Counted' = Counted
  BY <1>1 DEF Waiting, Counted
<1>6. ~Resting BY <1>1 DEF IInv, RestingUnused
<1>7. ~Resting'
  BY <1>1, <1>6 DEF Resting, Threads
<1>8. RestingUnused' BY <1>7 DEF RestingUnused
<1>9. Verdict'
  <2>1. batch[t] \cap Bad # {} => added \cap Bad # {} BY DEF IInv, PendingAdded
  <2>2. FailurePending => FailurePending'
    BY <1>1 DEF FailurePending
  <2> QED BY <1>1, <1>6, <2>1, <2>2 DEF Verdict, IInv
<1>10. WaitIsConjunction' BY <1>1 DEF WaitIsConjunction, IInv, Threads
<1> QED BY <1>2, <1>3, <1>4, <1>5, <1>8, <1>9, <1>10, SameCounts, SameTodo DEF IInv

\* An interrupted wait stays counted in nIdle and nTotal.
LEMMA InterruptStep ==
  ASSUME IInv, NEW t \in Threads, Interrupt(t)
  PROVE  IInv'
<1> USE DEF Interrupt
<1>1. /\ batch[t] = {} /\ pc'[t] = (IF t \in Workers THEN "gone" ELSE "loop")
      /\ \A u \in Threads : u # t => pc'[u] = pc[u] /\ fOk'[u] = fOk[u]
  BY DEF IInv, PlacesOK, TypeOK
<1>2. TypeOK' BY DEF IInv, TypeOK, Places
<1>3. PlacesOK' BY <1>1, CheckQueueAssumption DEF IInv, PlacesOK, Threads
<1>4. PendingAdded' BY DEF IInv, PendingAdded
<1>5. IdleCountsWaiting' /\ TotalCounts'
  <2>1. Waiting' = Waiting \ {t} /\ Counted' = Counted \ {t} /\ t \in Waiting /\ t \in Counted
    BY <1>1 DEF Waiting, Counted
  <2>2. /\ IsFiniteSet(Waiting) /\ IsFiniteSet(Counted) /\ IsFiniteSet(interrupted)
        /\ Cardinality(Waiting) \in Nat /\ Cardinality(Counted) \in Nat
        /\ Cardinality(interrupted) \in Nat
    BY FiniteThreads DEF Waiting, Counted, IInv, TypeOK
  <2>3. /\ Cardinality(Waiting') = Cardinality(Waiting) - 1
        /\ Cardinality(Counted') = Cardinality(Counted) - 1
        /\ Cardinality(interrupted') = Cardinality(interrupted) + 1
    BY <2>1, <2>2, FS_RemoveElement, FS_AddElement
  <2> QED BY <2>2, <2>3 DEF IInv, IdleCountsWaiting, TotalCounts, Waiting
<1>6. Resting' => Resting
  BY <1>1, CheckQueueAssumption DEF Resting, Threads
<1>7. Resting => Resting'
  BY <1>1, CheckQueueAssumption DEF Resting, Threads
<1>8. RestingUnused' BY <1>6 DEF RestingUnused, IInv
<1>9. Verdict'
  <2>1. FailurePending => FailurePending'
    BY <1>1 DEF FailurePending
  <2> QED BY <1>1, <1>7, <2>1 DEF Verdict, IInv
<1>10. WaitIsConjunction' BY <1>1 DEF WaitIsConjunction, IInv, Threads
<1> QED BY <1>2, <1>3, <1>4, <1>5, <1>8, <1>9, <1>10, SameTodo DEF IInv

\* What a thread that accounts for its batch does to the verdict.
LEMMA AllOkNowVerdict ==
  ASSUME IInv, NEW t \in Threads, AtQueue(t)
  PROVE  /\ AllOkNow(t) \in BOOLEAN
         /\ ~AllOkNow(t) => added \cap Bad # {}
         /\ ~fAllOk => ~AllOkNow(t)
         /\ batch[t] # {} /\ ~fOk[t] => ~AllOkNow(t)
         /\ pc[t] # "work"
BY DEF IInv, TypeOK, PlacesOK, AtQueue, AllOkNow, CleanUp, Verdict

\* Wait returns the verdict of all checks, and leaves the queue unused.
LEMMA ReturnStep ==
  ASSUME IInv, NEW t \in Threads, Return(t)
  PROVE  IInv'
<1> USE DEF Return
<1>1. /\ AtQueue(t) /\ t \in Masters /\ t \notin Workers /\ pc'[t] = "done" /\ batch'[t] = {}
      /\ \A u \in Threads : u # t => pc'[u] = pc[u] /\ batch'[u] = batch[u]
  BY CheckQueueAssumption DEF IInv, TypeOK
<1>2. holder = t /\ \A n \in Masters : n # t => pc[n] = "out"
  BY <1>1 DEF IInv, PlacesOK, AtQueue
<1>3. /\ batch[t] \in SUBSET Checks /\ InFlight \in SUBSET Checks /\ batch[t] \subseteq InFlight
  BY DEF IInv, TypeOK, InFlight
<1>4. InFlight = batch[t]
  <2>1. Cardinality(queue) = 0 BY FS_EmptySet
  <2>2. Cardinality(InFlight) \in Nat /\ Cardinality(batch[t]) \in Nat /\ IsFiniteSet(InFlight)
    BY <1>3, FiniteChecks
  <2>3. nTodo - Cardinality(batch[t]) = 0 BY <1>1, AtQueueCounts
  <2>4. nTodo = Cardinality(InFlight)
    <3>1. nTodo = Cardinality(queue) + Cardinality(InFlight) BY DEF IInv, TodoCountsPending
    <3> QED BY <2>1, <2>2, <3>1
  <2>5. Cardinality(InFlight) = Cardinality(batch[t]) BY <2>2, <2>3, <2>4
  <2> QED BY <1>3, <2>2, <2>5, FS_Subset
<1>5. \A u \in Threads : batch'[u] = {}
  <2>1. \A u \in Threads : u # t => batch[u] \subseteq batch[t] /\ batch[u] \cap batch[t] = {}
    BY <1>4 DEF InFlight, IInv, TodoCountsPending
  <2> QED BY <1>1, <2>1
<1>6. InFlight' = {} BY <1>5 DEF InFlight
<1>7. TodoCountsPending' BY <1>5, <1>6, FS_EmptySet DEF TodoCountsPending
<1>8. IdleCountsWaiting' /\ TotalCounts' /\ nIdle' \in Nat /\ nTotal' \in Nat
  <2>1. Waiting' = Waiting \ {t} /\ Counted' = (Counted \cup {t}) \ {t}
    BY <1>1, <1>5 DEF Waiting, Counted, IInv, PlacesOK, InFlight
  <2>2. /\ Counted \cup {t} \in SUBSET Threads /\ Waiting \ {t} \in SUBSET Threads
        /\ interrupted \in SUBSET Threads
    BY DEF Waiting, Counted, IInv, TypeOK
  <2>3. /\ IsFiniteSet(Counted \cup {t}) /\ Cardinality(Counted \cup {t}) \in Nat
        /\ Cardinality(Waiting \ {t}) \in Nat /\ Cardinality(interrupted) \in Nat
    BY <2>2, FiniteThreads
  <2>4. Cardinality(Counted') = Cardinality(Counted \cup {t}) - 1
    BY <2>1, <2>3, FS_RemoveElement
  <2>5. Cardinality(Counted') \in Nat /\ Cardinality(Waiting') \in Nat
    BY <2>1, <2>2, FiniteThreads
  <2>6. /\ nIdle' = Cardinality(Waiting') + Cardinality(interrupted)
        /\ nTotal' = Cardinality(Counted') + Cardinality(interrupted)
    BY <1>1, <2>1, <2>3, <2>4, AtQueueCounts
  <2> QED BY <2>3, <2>5, <2>6 DEF IdleCountsWaiting, TotalCounts, Waiting
<1>9. TypeOK'
  <2>1. AllOkNow(t) \in BOOLEAN BY <1>1, AllOkNowVerdict
  <2> QED BY <1>8, <2>1 DEF IInv, TypeOK, Places
<1>10. PlacesOK' BY <1>1, <1>2, <1>5 DEF IInv, PlacesOK, Threads
<1>11. PendingAdded' BY <1>5 DEF IInv, PendingAdded
<1>12. Resting' BY <1>1, <1>2 DEF Resting, Threads
<1>13. RestingUnused' BY <1>5 DEF RestingUnused
<1>14. Verdict' BY <1>5, <1>12 DEF Verdict
<1>15. AllOkNow(t) <=> added \cap Bad = {}
  <2>1. ASSUME added \cap Bad # {} PROVE ~AllOkNow(t)
    <3>1. ~Resting BY <1>1, <1>2 DEF Resting, AtQueue
    <3>2. FailurePending BY <2>1, <3>1 DEF IInv, Verdict
    <3>3. \A u \in Threads : batch[u] # {} => u = t BY <1>1, <1>5
    <3> QED BY <1>1, <3>2, <3>3, AllOkNowVerdict DEF FailurePending
  <2> QED BY <1>1, <2>1, AllOkNowVerdict
<1>16. WaitIsConjunction'
  <2>1. \A n \in Masters : n # t => pc'[n] = "out" BY <1>1, <1>2 DEF Threads
  <2> QED BY <2>1, <1>15 DEF WaitIsConjunction
<1> QED BY <1>7, <1>8, <1>9, <1>10, <1>11, <1>13, <1>14, <1>16 DEF IInv

\* A thread with nothing to take waits, after it accounted for its batch.
LEMMA SleepStep ==
  ASSUME IInv, NEW t \in Threads, Sleep(t)
  PROVE  IInv'
<1> USE DEF Sleep
<1>1. PICK pcs \in PcsNow(t) : pc' = [pcs EXCEPT ![t] = "wait"] OBVIOUS
<1>2. Wakes(pcs) BY PcsNowWakes DEF IInv
<1>3. /\ AtQueue(t) /\ pc'[t] = "wait" /\ batch'[t] = {}
      /\ \A u \in Threads : u # t => /\ batch'[u] = batch[u]
                                     /\ pc'[u] = pc[u] \/ (pc[u] = "wait" /\ pc'[u] = "woken")
  BY <1>1, <1>2 DEF IInv, TypeOK, Wakes
<1>4. t \in Masters => holder = t BY <1>3 DEF IInv, PlacesOK, AtQueue
<1>5. TodoCountsPending' /\ nTodo' \in Nat
  <2>1. {} \cap InFlight = {} /\ {} \in SUBSET Checks OBVIOUS
  <2>2. /\ InFlight' = (InFlight \ batch[t]) \cup {}
        /\ Cardinality(InFlight') = Cardinality(InFlight) - Cardinality(batch[t]) + Cardinality({})
        /\ \A u, v \in Threads : u # v => batch'[u] \cap batch'[v] = {}
        /\ Cardinality(batch[t]) <= Cardinality(InFlight)
    BY <2>1, BatchReplaced DEF IInv
  <2>3. /\ InFlight \in SUBSET Checks /\ batch[t] \in SUBSET Checks /\ queue \in SUBSET Checks
    BY DEF IInv, TypeOK, InFlight
  <2>4. /\ Cardinality(InFlight) \in Nat /\ Cardinality(batch[t]) \in Nat
        /\ Cardinality(queue) \in Nat /\ Cardinality({}) = 0
    BY <2>3, FiniteChecks, FS_EmptySet
  <2>5. nTodo' = nTodo - Cardinality(batch[t]) BY <1>3, AtQueueCounts
  <2> QED BY <2>2, <2>4, <2>5 DEF IInv, TodoCountsPending
<1>6. IdleCountsWaiting' /\ TotalCounts' /\ nIdle' \in Nat /\ nTotal' \in Nat
  <2>1. Waiting' = (Waiting \ {t}) \cup {t} /\ Counted' = Counted \cup {t}
    BY <1>3 DEF Waiting, Counted
  <2>2. /\ Counted \cup {t} \in SUBSET Threads /\ Waiting \ {t} \in SUBSET Threads
        /\ interrupted \in SUBSET Threads
    BY DEF Waiting, Counted, IInv, TypeOK
  <2>3. /\ Cardinality(Counted \cup {t}) \in Nat /\ IsFiniteSet(Waiting \ {t})
        /\ Cardinality(Waiting \ {t}) \in Nat /\ Cardinality(interrupted) \in Nat
    BY <2>2, FiniteThreads
  <2>4. Cardinality(Waiting') = Cardinality(Waiting \ {t}) + 1
    BY <2>1, <2>3, FS_AddElement
  <2>5. /\ nIdle' = Cardinality(Waiting') + Cardinality(interrupted)
        /\ nTotal' = Cardinality(Counted') + Cardinality(interrupted)
    BY <1>3, <2>1, <2>3, <2>4, AtQueueCounts
  <2> QED BY <2>3, <2>4, <2>1, <2>5 DEF IdleCountsWaiting, TotalCounts, Waiting
<1>7. TypeOK'
  <2>1. AllOkNow(t) \in BOOLEAN BY <1>3, AllOkNowVerdict
  <2>2. pc' \in [Threads -> Places] BY <1>1, <1>2 DEF Wakes, Places
  <2> QED BY <1>5, <1>6, <2>1, <2>2 DEF IInv, TypeOK
<1>8. PlacesOK' BY <1>3, <1>4, CheckQueueAssumption DEF IInv, PlacesOK, Threads, AtQueue
<1>9. PendingAdded' BY <1>3 DEF IInv, PendingAdded
<1>10. Resting' => Resting /\ t \notin Masters
  BY <1>3, CheckQueueAssumption DEF Resting, Threads
<1>11. Resting => Resting'
  BY <1>3 DEF Resting, Threads, AtQueue
<1>12. AllOkNow(t) = fAllOk \/ ~Resting
  BY <1>3 DEF IInv, RestingUnused, AllOkNow, CleanUp
<1>13. RestingUnused'
  BY <1>3, <1>10, <1>12 DEF RestingUnused, IInv
<1>14. Verdict'
  <2>1. FailurePending => FailurePending'
    BY <1>3, AllOkNowVerdict DEF FailurePending
  <2> QED BY <1>3, <1>11, <2>1, AllOkNowVerdict DEF Verdict, IInv
<1>15. WaitIsConjunction' BY <1>3 DEF WaitIsConjunction, IInv, Threads
<1> QED BY <1>5, <1>6, <1>7, <1>8, <1>9, <1>13, <1>14, <1>15 DEF IInv

\* A thread takes checks, with the verdict so far as its own.
LEMMA TakeStep ==
  ASSUME IInv, NEW t \in Threads, Take(t)
  PROVE  IInv'
<1> USE DEF Take
<1>1. PICK pcs \in PcsNow(t) : pc' = [pcs EXCEPT ![t] = "work"] OBVIOUS
<1>2. PICK taken \in SUBSET queue :
        /\ Cardinality(taken) = BatchNow(nTotal', nIdle', Cardinality(queue))
        /\ queue' = queue \ taken
        /\ batch' = [batch EXCEPT ![t] = taken]
  OBVIOUS
<1>3. Wakes(pcs) BY PcsNowWakes DEF IInv
<1>4. /\ AtQueue(t) /\ pc'[t] = "work" /\ batch'[t] = taken /\ fOk'[t] = AllOkNow(t)
      /\ \A u \in Threads : u # t => /\ batch'[u] = batch[u] /\ fOk'[u] = fOk[u]
                                     /\ pc'[u] = pc[u] \/ (pc[u] = "wait" /\ pc'[u] = "woken")
  BY <1>1, <1>2, <1>3 DEF IInv, TypeOK, Wakes
<1>5. t \in Masters => holder = t BY <1>4 DEF IInv, PlacesOK, AtQueue
<1>6. ~Resting BY DEF IInv, RestingUnused
<1>7. TodoCountsPending' /\ nTodo' \in Nat
  <2>1. taken \cap InFlight = {} /\ taken \in SUBSET Checks
    BY DEF IInv, TodoCountsPending, TypeOK
  <2>2. /\ InFlight' = (InFlight \ batch[t]) \cup taken
        /\ Cardinality(InFlight') = Cardinality(InFlight) - Cardinality(batch[t]) + Cardinality(taken)
        /\ \A u, v \in Threads : u # v => batch'[u] \cap batch'[v] = {}
        /\ Cardinality(batch[t]) <= Cardinality(InFlight)
    BY <1>2, <2>1, BatchReplaced DEF IInv
  <2>3. /\ InFlight \in SUBSET Checks /\ batch[t] \in SUBSET Checks /\ queue \in SUBSET Checks
    BY DEF IInv, TypeOK, InFlight
  <2>4. /\ Cardinality(InFlight) \in Nat /\ Cardinality(batch[t]) \in Nat
        /\ Cardinality(queue) \in Nat /\ Cardinality(taken) \in Nat
    BY <2>1, <2>3, FiniteChecks
  <2>5. nTodo' = nTodo - Cardinality(batch[t]) BY <1>4, AtQueueCounts
  <2>6. Cardinality(queue') = Cardinality(queue) - Cardinality(taken)
    <3>1. queue \cap taken = taken OBVIOUS
    <3>2. IsFiniteSet(queue) BY <2>3, FiniteChecks
    <3>3. Cardinality(queue \ taken) = Cardinality(queue) - Cardinality(queue \cap taken)
      BY <3>2, FS_Difference
    <3> QED BY <1>2, <3>1, <3>3
  <2>7. queue' \cap InFlight' = {}
    BY <1>2, <2>2 DEF IInv, TodoCountsPending
  <2> QED BY <2>2, <2>4, <2>5, <2>6, <2>7 DEF IInv, TodoCountsPending
<1>8. /\ Cardinality(Counted \cup {t}) \in Nat /\ Cardinality(Waiting \ {t}) \in Nat
      /\ Cardinality(interrupted) \in Nat
      /\ nIdle' = Cardinality(Waiting \ {t}) + Cardinality(interrupted)
      /\ nTotal' = Cardinality(Counted \cup {t}) + Cardinality(interrupted)
  <2>1. /\ Counted \cup {t} \in SUBSET Threads /\ Waiting \ {t} \in SUBSET Threads
        /\ interrupted \in SUBSET Threads
    BY DEF Waiting, Counted, IInv, TypeOK
  <2> QED BY <2>1, <1>4, FiniteThreads, AtQueueCounts
<1>9. taken # {}
  <2>1. nIdle' \in Nat /\ nTotal' \in Nat /\ Cardinality(queue) \in Nat
    BY <1>8, FiniteChecks DEF IInv, TypeOK
  <2>2. Cardinality(taken) # 0 BY <1>2, <2>1, BatchNowPositive
  <2> QED BY <2>2, FS_EmptySet
<1>10. IdleCountsWaiting' /\ TotalCounts'
  <2>1. Waiting' = Waiting \ {t} /\ Counted' = Counted \cup {t}
    BY <1>4 DEF Waiting, Counted
  <2>2. /\ nIdle' = Cardinality(Waiting') + Cardinality(interrupted')
        /\ nTotal' = Cardinality(Counted') + Cardinality(interrupted')
    BY <1>8, <2>1
  <2> QED BY <2>2 DEF IdleCountsWaiting, TotalCounts, Waiting
<1>11. TypeOK'
  <2>1. AllOkNow(t) \in BOOLEAN BY <1>4, AllOkNowVerdict
  <2>2. pc' \in [Threads -> Places] BY <1>1, <1>3 DEF Wakes, Places
  <2>3. fOk' \in [Threads -> BOOLEAN] BY <2>1 DEF IInv, TypeOK
  <2> QED BY <1>2, <1>7, <1>8, <2>1, <2>2, <2>3 DEF IInv, TypeOK
<1>12. PlacesOK' BY <1>4, <1>5, <1>9, CheckQueueAssumption DEF IInv, PlacesOK, Threads, AtQueue
<1>13. PendingAdded' BY <1>2, <1>4 DEF IInv, PendingAdded
<1>14. ~Resting'
  BY <1>4, <1>6 DEF Resting, Threads
<1>15. RestingUnused' BY <1>14 DEF RestingUnused
<1>16. Verdict'
  <2>1. FailurePending => FailurePending'
    <3> SUFFICES ASSUME FailurePending PROVE FailurePending' OBVIOUS
    <3>1. CASE ~fAllOk BY <3>1, <1>4, AllOkNowVerdict DEF FailurePending
    <3>2. CASE queue \cap Bad # {}
      <4>1. queue' \cap Bad # {} \/ batch'[t] \cap Bad # {} BY <3>2, <1>2, <1>4
      <4> QED BY <4>1, <1>4 DEF FailurePending
    <3>3. ASSUME NEW u \in Threads,
                 \/ pc[u] = "work" /\ batch[u] \cap Bad # {}
                 \/ pc[u] = "loop" /\ batch[u] # {} /\ ~fOk[u]
          PROVE  FailurePending'
      <4>1. CASE u = t BY <4>1, <3>3, <1>4, AllOkNowVerdict DEF FailurePending
      <4>2. CASE u # t BY <4>2, <3>3, <1>4 DEF FailurePending
      <4> QED BY <4>1, <4>2
    <3> QED BY <3>1, <3>2, <3>3 DEF FailurePending
  <2> QED BY <1>4, <1>6, <2>1, AllOkNowVerdict DEF Verdict, IInv
<1>17. WaitIsConjunction' BY <1>4 DEF WaitIsConjunction, IInv, Threads
<1> QED BY <1>7, <1>10, <1>11, <1>12, <1>13, <1>15, <1>16, <1>17 DEF IInv

-----------------------------------------------------------------------------
(* Theorems.                                                               *)

\* Every step of a master, a worker or the shutdown preserves the invariant.
THEOREM Invariance == Spec => []IInv
<1>1. IInv /\ [Next]_vars => IInv'
  <2> SUFFICES ASSUME IInv, [Next]_vars PROVE IInv' OBVIOUS
  <2>1. CASE UNCHANGED vars
    BY <2>1 DEF vars, IInv, TypeOK, PlacesOK, PendingAdded, TodoCountsPending, InFlight,
                IdleCountsWaiting, TotalCounts, Counted, RestingUnused, Resting, Verdict,
                FailurePending, WaitIsConjunction
  <2>2. ASSUME NEW t \in Threads, Loop(t) PROVE IInv'
    BY <2>2, ReturnStep, SleepStep, TakeStep, ExecuteStep DEF Loop
  <2> QED
    BY <2>1, <2>2, EnterStep, StartWaitStep, LeaveStep, AddStep, SpuriousWakeStep, InterruptStep
    DEF Next
<1> QED BY <1>1, InitIInv, PTL DEF Spec

\* nTodo is the number of checks not accounted for, each of which is in one
\* place only: a master that sees nTodo = 0 knows that nobody works for it.
THEOREM TodoIsExact == Spec => []TodoCountsPending
<1>1. IInv => TodoCountsPending BY DEF IInv
<1> QED BY <1>1, Invariance, PTL

\* nIdle counts the threads in cond.wait and the interrupted waits.
THEOREM IdleIsExact == Spec => []IdleCountsWaiting
<1>1. IInv => IdleCountsWaiting BY DEF IInv
<1> QED BY <1>1, Invariance, PTL

\* Wait answers whether all checks added to the control object are good, for any
\* number of threads and in any interleaving, interruptions included.
THEOREM WaitIsCorrect == Spec => []WaitIsConjunction
<1>1. IInv => WaitIsConjunction BY DEF IInv
<1> QED BY <1>1, Invariance, PTL

\* Whoever enters ControlMutex finds the queue unused.
THEOREM QueueLeftUnused == Spec => []QueueUnusedWhenFree
<1>1. IInv => QueueUnusedWhenFree
  <2> SUFFICES ASSUME IInv, holder = NoMaster
               PROVE  queue = {} /\ InFlight = {} /\ nTodo = 0 /\ fAllOk
    BY DEF QueueUnusedWhenFree
  <2>1. Resting BY CheckQueueAssumption DEF IInv, PlacesOK, Resting
  <2>2. queue = {} /\ InFlight = {} /\ fAllOk
    BY <2>1 DEF IInv, RestingUnused, InFlight
  <2>3. Cardinality({}) = 0 BY FS_EmptySet
  <2> QED BY <2>2, <2>3 DEF IInv, TodoCountsPending
<1> QED BY <1>1, Invariance, PTL
=============================================================================
