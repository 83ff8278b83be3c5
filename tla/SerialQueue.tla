---------------------------- MODULE SerialQueue -----------------------------
(***************************************************************************)
(* What SingleThreadedSchedulerClient promises its users (scheduler.h):    *)
(* the jobs are executed in the order in which they were added, each       *)
(* once, and no two at the same time, whichever thread executes them.      *)
(***************************************************************************)
EXTENDS Sequences

CONSTANT Jobs

VARIABLES queue,         \* added and not yet started, oldest first
          active         \* being executed

Init == queue = <<>> /\ active = {}

Add == /\ \E j \in Jobs : queue' = Append(queue, j)
       /\ UNCHANGED active

Start == /\ queue # <<>> /\ active = {}
         /\ active' = {Head(queue)}
         /\ queue' = Tail(queue)

Finish == /\ active # {}
          /\ active' = {}
          /\ UNCHANGED queue

Spec == Init /\ [][Add \/ Start \/ Finish]_<<queue, active>>
=============================================================================
