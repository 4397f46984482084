---------------------------- MODULE WorkerQueue ----------------------------
(***************************************************************************)
(* createWorkerQueue (backend/src/infra/queues/workerQueue.js): the        *)
(* in-process queue of promise-returning jobs.  The event loop runs one    *)
(* callback at a time, so an action is one callback: a call of enqueue,    *)
(* the runNext that enqueue puts on the microtask queue, the settling of a *)
(* job's promise (which answers the caller) and, in a later microtask, the *)
(* `finally` of runNext, which gives the slot back and runs the next job.  *)
(* Offers come at any moment, so a burst of them may precede the first     *)
(* microtask.  The answer of a job, result or error, makes no difference   *)
(* to the queue.                                                           *)
(***************************************************************************)
EXTENDS Integers, Sequences, FiniteSets

CONSTANTS Jobs, Concurrency, MaxQueue

ASSUME QueueAssumption ==
  /\ IsFiniteSet(Jobs)
  /\ Concurrency \in Nat \ {0}
  /\ MaxQueue \in Nat

VARIABLES
  active,   \* the counter of jobs that hold a slot
  queue,    \* accepted jobs not yet started
  micro,    \* runNext callbacks on the microtask queue
  status    \* what became of every job

vars == <<active, queue, micro, status>>

Statuses == {"new", "queued", "running", "settled", "done", "refused"}

With(s) == {j \in Jobs : status[j] = s}

Init ==
  /\ active = 0
  /\ queue = <<>>
  /\ micro = 0
  /\ status = [j \in Jobs |-> "new"]

-----------------------------------------------------------------------------
CanRunAlways(a) == queue # <<>>  \* mutant

(* runNext on a counter a and statuses s (the caller may just have changed *)
(* them): nothing without a free slot and a waiting job.                   *)
CanRun(a) == a < Concurrency /\ queue # <<>>

runNextPeeks(a, s) ==  \* mutant
  /\ CanRun(a)
  /\ active' = a + 1
  /\ status' = [s EXCEPT ![Head(queue)] = "running"]
  /\ UNCHANGED queue

runNext(a, s) ==
  \/ /\ CanRun(a)
     /\ active' = a + 1
     /\ queue' = Tail(queue)
     /\ status' = [s EXCEPT ![Head(queue)] = "running"]
  \/ /\ ~CanRun(a)
     /\ active' = a
     /\ status' = s
     /\ UNCHANGED queue

OverloadedWhenBusy == active >= Concurrency  \* mutant

Overloaded == Len(queue) >= MaxQueue /\ active >= Concurrency

(* enqueue: a refusal when overloaded, else a place in the queue and a     *)
(* microtask.                                                              *)
Refuse(j) ==
  /\ status[j] = "new"
  /\ Overloaded
  /\ status' = [status EXCEPT ![j] = "refused"]
  /\ UNCHANGED <<active, queue, micro>>

Accept(j) ==
  /\ status[j] = "new"
  /\ ~Overloaded
  /\ queue' = Append(queue, j)
  /\ micro' = micro + 1
  /\ status' = [status EXCEPT ![j] = "queued"]
  /\ UNCHANGED active

RunMicrotask ==
  /\ micro > 0
  /\ micro' = micro - 1
  /\ runNext(active, status)

SettleReleases(j) ==  \* mutant
  /\ status[j] = "running"
  /\ status' = [status EXCEPT ![j] = "settled"]
  /\ active' = active - 1
  /\ UNCHANGED <<queue, micro>>

(* The job's function returns or throws: the caller's promise settles      *)
(* before the slot is free again.                                          *)
Settle(j) ==
  /\ status[j] = "running"
  /\ status' = [status EXCEPT ![j] = "settled"]
  /\ UNCHANGED <<active, queue, micro>>

FinallyIdles(j) ==  \* mutant
  /\ status[j] = "settled"
  /\ active' = active - 1
  /\ status' = [status EXCEPT ![j] = "done"]
  /\ UNCHANGED <<queue, micro>>

Finally(j) ==
  /\ status[j] = "settled"
  /\ runNext(active - 1, [status EXCEPT ![j] = "done"])
  /\ UNCHANGED micro

Next ==
  \/ \E j \in Jobs : Accept(j) \/ Refuse(j) \/ Settle(j) \/ Finally(j)
  \/ RunMicrotask

Spec == Init /\ [][Next]_vars

(* The event loop runs every callback it holds, and every job's promise    *)
(* settles: the assumption under which the queue makes progress.           *)
FairSpec ==
  /\ Spec
  /\ WF_vars(RunMicrotask)
  /\ \A j \in Jobs : WF_vars(Settle(j)) /\ WF_vars(Finally(j))

-----------------------------------------------------------------------------
(* Type invariant.                                                         *)
TypeOK ==
  /\ active \in Nat
  /\ queue \in Seq(Jobs)
  /\ micro \in Nat
  /\ status \in [Jobs -> Statuses]

(* The queue holds each waiting job once and no other: no accepted job is  *)
(* lost or run twice.                                                      *)
QueueHoldsWaiting ==
  /\ \A i \in 1..Len(queue) : status[queue[i]] = "queued"
  /\ \A i, k \in 1..Len(queue) : queue[i] = queue[k] => i = k
  /\ \A j \in With("queued") : \E i \in 1..Len(queue) : queue[i] = j

(* The counter of runNext counts the jobs that hold a slot, started and    *)
(* not yet released, and they never exceed the concurrency.                *)
SlotsCounted ==
  /\ active = Cardinality(With("running") \cup With("settled"))
  /\ active <= Concurrency

(* No lost wake-up: while jobs wait and slots are free, enough runNext     *)
(* microtasks are on their way to fill the slots or to empty the queue.    *)
NoLostWakeup == micro >= Len(queue) \/ active + micro >= Concurrency

Inv == TypeOK /\ QueueHoldsWaiting /\ SlotsCounted /\ NoLostWakeup

(* The queue keeps the promise of JobQueue: a settled job is over for its  *)
(* caller even before its slot is free.                                    *)
Queue == INSTANCE JobQueue WITH
  waiting <- queue,
  running <- With("running"),
  over    <- With("settled") \cup With("done") \cup With("refused")

(* The safety part of that promise: FIFO starts, at most Concurrency jobs  *)
(* in progress, and no refusal before MaxQueue jobs wait.                  *)
QueueSpec == Queue!Spec

(* The whole promise: also, a waiting job starts when there is room.       *)
QueueFairSpec == Queue!FairSpec

=============================================================================
