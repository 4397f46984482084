------------------------------ MODULE JobQueue ------------------------------
(***************************************************************************)
(* What a worker queue promises its callers (the broadcast worker, the     *)
(* realtime and history queues of a WhatsApp socket, the warm-up           *)
(* scheduler), whatever its implementation: jobs start in the order they   *)
(* were accepted, at most Concurrency of them are in progress, an offer is *)
(* refused only when MaxQueue jobs already wait, and a job that waits      *)
(* starts when there is room.  The implementation is in WorkerQueue.       *)
(***************************************************************************)
EXTENDS Naturals, Sequences, FiniteSets

CONSTANTS
  Jobs,         \* the calls of enqueue, each made once
  Concurrency,  \* jobs in progress at most
  MaxQueue      \* waiting jobs above which an offer may be refused

VARIABLES
  waiting,  \* accepted jobs not yet started, oldest first
  running,  \* jobs in progress
  over      \* jobs whose caller has its answer: a result, an error, a refusal

vars == <<waiting, running, over>>

JobsTypeOK ==
  /\ waiting \in Seq(Jobs)
  /\ running \subseteq Jobs
  /\ over \subseteq Jobs

Init == waiting = <<>> /\ running = {} /\ over = {}

Fresh(j) ==
  /\ j \notin running \cup over
  /\ \A i \in 1..Len(waiting) : waiting[i] # j

Accept(j) ==
  /\ Fresh(j)
  /\ waiting' = Append(waiting, j)
  /\ UNCHANGED <<running, over>>

Refuse(j) ==
  /\ Fresh(j)
  /\ Len(waiting) >= MaxQueue
  /\ over' = over \cup {j}
  /\ UNCHANGED <<waiting, running>>

Start ==
  /\ waiting # <<>>
  /\ Cardinality(running) < Concurrency
  /\ running' = running \cup {Head(waiting)}
  /\ waiting' = Tail(waiting)
  /\ UNCHANGED over

Finish(j) ==
  /\ j \in running
  /\ running' = running \ {j}
  /\ over' = over \cup {j}
  /\ UNCHANGED waiting

Next ==
  \/ \E j \in Jobs : Accept(j) \/ Refuse(j) \/ Finish(j)
  \/ Start

Spec == Init /\ [][Next]_vars

(* A waiting job starts when there is room, and a started job ends.        *)
FairSpec == Spec /\ WF_vars(Start) /\ \A j \in Jobs : WF_vars(Finish(j))

=============================================================================
