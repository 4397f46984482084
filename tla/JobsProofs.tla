----------------------------- MODULE JobsProofs -----------------------------
(***************************************************************************)
(* Theorems about the work that the server does by itself.  Of             *)
(* WorkerQueue, for every finite set of jobs, every concurrency and every  *)
(* limit: its invariants hold and it keeps the promise of JobQueue.  Of    *)
(* AuthState, for any number of calls, connections and failures: the row   *)
(* of a session keeps the last value of a key.                             *)
(***************************************************************************)
EXTENDS WorkerQueue, AuthState, FiniteSetTheorems, SequenceTheorems, TLAPS

-----------------------------------------------------------------------------
(* The job queue.                                                          *)
Held == With("running") \cup With("settled")

(* The jobs are finitely many, so the sets that the counter counts are.    *)
LEMMA HeldFinite ==
  ASSUME TypeOK
  PROVE  IsFiniteSet(Held) /\ Cardinality(Held) \in Nat
BY QueueAssumption, FS_Subset, FS_CardinalityType DEF Held, With

(* The next job of a non-empty queue, and what is left of the queue.       *)
LEMMA Popped ==
  ASSUME TypeOK, queue # <<>>
  PROVE  /\ Head(queue) \in Jobs
         /\ Head(queue) = queue[1]
         /\ Len(queue) \in Nat \ {0}
         /\ Tail(queue) \in Seq(Jobs)
         /\ Len(Tail(queue)) = Len(queue) - 1
         /\ \A i \in 1..Len(Tail(queue)) : Tail(queue)[i] = queue[i + 1]
BY DEF TypeOK

(* runNext keeps the invariant, whatever the caller did to the counter and *)
(* to the statuses before: the caller passes a counter a that agrees with  *)
(* the jobs that hold a slot in s, s leaves the waiting jobs alone, and m  *)
(* microtasks are left.                                                    *)
LEMMA RunNextKeeps ==
  ASSUME Inv, NEW a \in Nat, NEW s \in [Jobs -> Statuses],
         \A j \in Jobs : s[j] = "queued" <=> status[j] = "queued",
         IsFiniteSet({j \in Jobs : s[j] \in {"running", "settled"}}),
         a = Cardinality({j \in Jobs : s[j] \in {"running", "settled"}}),
         a <= Concurrency,
         runNext(a, s), micro' \in Nat,
         \/ micro' >= Len(queue) - 1
         \/ a + micro' + 1 >= Concurrency
  PROVE  Inv'
<1> DEFINE Slots(t) == {j \in Jobs : t[j] \in {"running", "settled"}}
<1> USE DEF Inv
<1>1. CASE CanRun(a)
  <2>1. /\ active' = a + 1 /\ queue' = Tail(queue)
        /\ status' = [s EXCEPT ![Head(queue)] = "running"]
        /\ a < Concurrency /\ queue # <<>>
    BY <1>1 DEF runNext, CanRun
  <2>2. Head(queue) \in Jobs /\ s[Head(queue)] = "queued"
    BY <2>1, Popped DEF QueueHoldsWaiting
  <2>3. TypeOK'
    BY <2>1, <2>2, Popped DEF TypeOK, Statuses
  <2>4. QueueHoldsWaiting'
    <3>1. \A i \in 1..Len(queue') : queue'[i] = queue[i + 1] /\ i + 1 \in 1..Len(queue)
      BY <2>1, Popped
    <3>2. \A i \in 1..Len(queue') : queue'[i] \in Jobs /\ queue'[i] # Head(queue)
      BY <3>1, <2>1, Popped, <2>3 DEF QueueHoldsWaiting, TypeOK
    <3>3. \A i \in 1..Len(queue') : status'[queue'[i]] = "queued"
      BY <3>1, <3>2, <2>1 DEF QueueHoldsWaiting, TypeOK
    <3>4. \A i, k \in 1..Len(queue') : queue'[i] = queue'[k] => i = k
      BY <3>1, <2>3 DEF QueueHoldsWaiting, TypeOK
    <3>5. ASSUME NEW j \in Jobs, status'[j] = "queued"
          PROVE  \E i \in 1..Len(queue') : queue'[i] = j
      <4>1. j # Head(queue) /\ status[j] = "queued"
        BY <3>5, <2>1, <2>2
      <4>2. PICK i \in 1..Len(queue) : queue[i] = j
        BY <4>1 DEF QueueHoldsWaiting, With
      <4>3. i # 1
        BY <4>1, <4>2, <2>1, Popped
      <4>4. i - 1 \in 1..Len(queue') /\ (i - 1) + 1 = i
        BY <4>2, <4>3, <2>1, Popped
      <4>5. queue'[i - 1] = j
        BY <4>2, <4>4, <3>1
      <4> QED BY <4>4, <4>5
    <3> QED BY <3>3, <3>4, <3>5 DEF QueueHoldsWaiting, With
  <2>5. Held' = Slots(s) \cup {Head(queue)} /\ Head(queue) \notin Slots(s)
    BY <2>1, <2>2 DEF Held, With
  <2>6. SlotsCounted'
    <3>1. Cardinality(Slots(s) \cup {Head(queue)}) = a + 1
      BY <2>5, FS_AddElement
    <3>2. active' = Cardinality(Held') /\ active' <= Concurrency
      BY <3>1, <2>1, <2>5, QueueAssumption
    <3> QED BY <3>2 DEF SlotsCounted, Held
  <2>7. NoLostWakeup'
    BY <2>1, Popped, QueueAssumption DEF NoLostWakeup
  <2> QED BY <2>3, <2>4, <2>6, <2>7
<1>2. CASE ~CanRun(a)
  <2>1. active' = a /\ queue' = queue /\ status' = s
    BY <1>2 DEF runNext
  <2>2. TypeOK'
    BY <2>1 DEF TypeOK
  <2>3. QueueHoldsWaiting'
    BY <2>1 DEF QueueHoldsWaiting, With, TypeOK
  <2>4. Held' = Slots(s)
    BY <2>1 DEF Held, With
  <2>5. SlotsCounted'
    BY <2>1, <2>4 DEF SlotsCounted, Held
  <2>6. NoLostWakeup'
    BY <1>2, <2>1, QueueAssumption DEF NoLostWakeup, CanRun
  <2> QED BY <2>2, <2>3, <2>5, <2>6
<1> QED BY <1>1, <1>2

(* Every reachable state of the queue satisfies its invariants.            *)
THEOREM Invariant == Spec => []Inv
<1>1. Init => Inv
  <2> SUFFICES ASSUME Init PROVE Inv
    OBVIOUS
  <2>1. With("running") \cup With("settled") = {} /\ With("queued") = {}
    BY DEF Init, With
  <2> QED
    BY <2>1, FS_EmptySet, QueueAssumption
    DEF Init, Inv, TypeOK, Statuses, QueueHoldsWaiting, SlotsCounted, NoLostWakeup
<1>2. Inv /\ [Next]_vars => Inv'
  <2> SUFFICES ASSUME Inv, [Next]_vars PROVE Inv'
    OBVIOUS
  <2>0. status \in [Jobs -> Statuses] /\ active \in Nat /\ micro \in Nat /\ Len(queue) \in Nat
    BY DEF Inv, TypeOK
  <2>1. ASSUME NEW j \in Jobs, Accept(j) PROVE Inv'
    <3>1. /\ Held' = Held /\ TypeOK'
      BY <2>1 DEF Accept, Inv, TypeOK, Statuses, Held, With
    <3>2. Len(queue') = Len(queue) + 1 /\ queue'[Len(queue) + 1] = j
          /\ \A i \in 1..Len(queue) : queue'[i] = queue[i]
      BY <2>1 DEF Accept, Inv, TypeOK
    <3>3. \A i \in 1..Len(queue) : queue[i] \in Jobs /\ queue[i] # j /\ status'[queue[i]] = "queued"
      BY <2>1, <2>0 DEF Accept, Inv, TypeOK, QueueHoldsWaiting
    <3>4. status'[j] = "queued" /\ \A k \in Jobs : k # j => status'[k] = status[k]
      BY <2>1, <2>0 DEF Accept
    <3>5. QueueHoldsWaiting'
      <4>1. \A i \in 1..Len(queue') : status'[queue'[i]] = "queued"
        BY <3>2, <3>3, <3>4, <2>0
      <4>2. \A i, k \in 1..Len(queue') : queue'[i] = queue'[k] => i = k
        BY <3>2, <3>3, <2>0 DEF Inv, QueueHoldsWaiting
      <4>3. \A k \in Jobs : status'[k] = "queued" => \E i \in 1..Len(queue') : queue'[i] = k
        <5> SUFFICES ASSUME NEW k \in Jobs, status'[k] = "queued"
                     PROVE  \E i \in 1..Len(queue') : queue'[i] = k
          OBVIOUS
        <5>1. CASE k = j
          BY <5>1, <3>2, <2>0
        <5>2. CASE k # j
          BY <5>2, <3>2, <3>4, <2>0 DEF Inv, QueueHoldsWaiting, With
        <5> QED BY <5>1, <5>2
      <4> QED BY <4>1, <4>2, <4>3 DEF QueueHoldsWaiting, With
    <3>6. SlotsCounted'
      BY <2>1, <3>1 DEF Accept, Inv, SlotsCounted, Held
    <3>7. NoLostWakeup'
      BY <2>1, <3>2, <2>0, QueueAssumption DEF Accept, Inv, NoLostWakeup
    <3> QED BY <3>1, <3>5, <3>6, <3>7 DEF Inv
  <2>2. ASSUME NEW j \in Jobs, Refuse(j) PROVE Inv'
    <3>1. Held' = Held /\ With("queued")' = With("queued") /\ TypeOK'
      BY <2>2 DEF Refuse, Inv, TypeOK, Statuses, Held, With
    <3>2. QueueHoldsWaiting'
      BY <2>2, <3>1, <2>0 DEF Refuse, Inv, TypeOK, QueueHoldsWaiting, With
    <3> QED
      BY <2>2, <3>1, <3>2 DEF Refuse, Inv, SlotsCounted, NoLostWakeup, Held
  <2>3. ASSUME NEW j \in Jobs, Settle(j) PROVE Inv'
    <3>1. Held' = Held /\ With("queued")' = With("queued") /\ TypeOK'
      BY <2>3 DEF Settle, Inv, TypeOK, Statuses, Held, With
    <3>2. QueueHoldsWaiting'
      BY <2>3, <3>1, <2>0 DEF Settle, Inv, TypeOK, QueueHoldsWaiting, With
    <3> QED
      BY <2>3, <3>1, <3>2 DEF Settle, Inv, SlotsCounted, NoLostWakeup, Held
  <2>4. ASSUME NEW j \in Jobs, Finally(j) PROVE Inv'
    <3> DEFINE s == [status EXCEPT ![j] = "done"]
               Slots == {k \in Jobs : s[k] \in {"running", "settled"}}
    <3>1. Slots = Held \ {j} /\ j \in Held
      BY <2>4, <2>0 DEF Finally, Held, With
    <3>2. IsFiniteSet(Slots) /\ Cardinality(Slots) = active - 1 /\ active - 1 \in Nat
      <4>1. IsFiniteSet(Held) /\ active = Cardinality(Held)
        BY HeldFinite DEF Inv, SlotsCounted, Held
      <4>2. IsFiniteSet(Held \ {j}) /\ Cardinality(Held \ {j}) = Cardinality(Held) - 1
        BY <3>1, <4>1, FS_RemoveElement
      <4>3. Cardinality(Held \ {j}) \in Nat
        BY <4>2, FS_CardinalityType
      <4> HIDE DEF Slots
      <4> QED BY <3>1, <4>1, <4>2, <4>3
    <3>3. /\ s \in [Jobs -> Statuses]
          /\ \A k \in Jobs : s[k] = "queued" <=> status[k] = "queued"
          /\ runNext(active - 1, s) /\ micro' = micro
      BY <2>4, <2>0 DEF Finally, Statuses
    <3>4. micro' >= Len(queue) - 1 \/ (active - 1) + micro' + 1 >= Concurrency
      BY <3>3, <2>0, QueueAssumption DEF Inv, NoLostWakeup
    <3>5. active - 1 <= Concurrency
      BY <2>0, QueueAssumption DEF Inv, SlotsCounted
    <3> HIDE DEF s
    <3> QED BY <3>2, <3>3, <3>4, <3>5, <2>0, RunNextKeeps
  <2>5. ASSUME RunMicrotask PROVE Inv'
    <3> DEFINE Slots == {k \in Jobs : status[k] \in {"running", "settled"}}
    <3>1. Slots = Held
      BY <2>0 DEF Held, With
    <3>2. IsFiniteSet(Slots) /\ Cardinality(Slots) = active
      BY <3>1, HeldFinite DEF Inv, SlotsCounted, Held
    <3>3. micro' \in Nat /\ micro' = micro - 1 /\ runNext(active, status)
      BY <2>5, <2>0 DEF RunMicrotask
    <3>4. micro' >= Len(queue) - 1 \/ active + micro' + 1 >= Concurrency
      BY <3>3, <2>0, QueueAssumption DEF Inv, NoLostWakeup
    <3> QED BY <3>2, <3>3, <3>4, <2>0, RunNextKeeps DEF Inv, SlotsCounted
  <2>6. CASE UNCHANGED vars
    BY <2>6 DEF vars, Inv, TypeOK, QueueHoldsWaiting, SlotsCounted, NoLostWakeup, With
  <2> QED BY <2>1, <2>2, <2>3, <2>4, <2>5, <2>6 DEF Next
<1> QED BY <1>1, <1>2, PTL DEF Spec

(* No accepted job is dropped from the queue and none is in it twice.      *)
THEOREM JobsAreKept == Spec => []QueueHoldsWaiting
BY Invariant, PTL DEF Inv

(* The counter is right and within the concurrency in every state between  *)
(* two callbacks.                                                          *)
THEOREM SlotsAreCounted == Spec => []SlotsCounted
BY Invariant, PTL DEF Inv

(* A free slot and a waiting job never meet without a runNext on its way.  *)
THEOREM WakeupsAreKept == Spec => []NoLostWakeup
BY Invariant, PTL DEF Inv

-----------------------------------------------------------------------------
Over == With("settled") \cup With("done") \cup With("refused")

(* Started jobs are not more than the slots counted.                       *)
LEMMA RunningFits ==
  ASSUME Inv, NEW S, S \subseteq Held, With("running") \subseteq S, Cardinality(S) < Concurrency
  PROVE  Cardinality(With("running")) < Concurrency
<1>1. IsFiniteSet(S)
  BY HeldFinite, FS_Subset DEF Inv
<1>2. Cardinality(With("running")) <= Cardinality(S)
  BY <1>1, FS_Subset
<1>3. Cardinality(With("running")) \in Nat /\ Cardinality(S) \in Nat
  BY <1>1, FS_Subset, FS_CardinalityType
<1> QED BY <1>2, <1>3, QueueAssumption

(* runNext is the abstract Start when it can run, whatever jobs stopped    *)
(* holding a slot just before, and otherwise changes nothing abstract.     *)
LEMMA RunNextIsStart ==
  ASSUME Inv, NEW a \in Nat, NEW s \in [Jobs -> Statuses],
         \A j \in Jobs : s[j] = "queued" <=> status[j] = "queued",
         {j \in Jobs : s[j] = "running"} = With("running"),
         {j \in Jobs : s[j] \in {"settled", "done", "refused"}} = Over,
         a < Concurrency => Cardinality(With("running")) < Concurrency,
         runNext(a, s)
  PROVE  Queue!Start \/ UNCHANGED Queue!vars
<1>1. CASE CanRun(a)
  <2>1. /\ queue' = Tail(queue) /\ queue # <<>> /\ a < Concurrency
        /\ status' = [s EXCEPT ![Head(queue)] = "running"]
    BY <1>1 DEF runNext, CanRun
  <2>2. Head(queue) \in Jobs /\ s[Head(queue)] = "queued"
    BY <2>1, Popped DEF Inv, QueueHoldsWaiting
  <2>3. With("running")' = With("running") \cup {Head(queue)}
    BY <2>1, <2>2 DEF With
  <2>4. Over' = Over
    BY <2>1, <2>2 DEF With, Over
  <2>5. Queue!Cardinality(With("running")) = Cardinality(With("running"))
    BY DEF Queue!Cardinality, Cardinality
  <2> QED BY <2>1, <2>3, <2>4, <2>5 DEF Queue!Start, Over
<1>2. CASE ~CanRun(a)
  <2>1. queue' = queue /\ status' = s
    BY <1>2 DEF runNext
  <2>2. With("running")' = With("running") /\ Over' = Over
    BY <2>1 DEF With, Over
  <2>3. UNCHANGED Queue!vars
    BY <2>1, <2>2 DEF Queue!vars, Over
  <2> QED BY <2>3
<1> QED BY <1>1, <1>2

(* The queue keeps the safety part of JobQueue's promise: jobs start in    *)
(* the order of their acceptance, at most Concurrency are in progress, and *)
(* none is refused before MaxQueue jobs wait.                              *)
THEOREM Implements == Spec => QueueSpec
<1>1. Init => Queue!Init
  BY DEF Init, Queue!Init, With
<1>2. Inv /\ [Next]_vars => [Queue!Next]_(Queue!vars)
  <2> SUFFICES ASSUME Inv, [Next]_vars PROVE [Queue!Next]_(Queue!vars)
    OBVIOUS
  <2>0. status \in [Jobs -> Statuses] /\ active \in Nat
    BY DEF Inv, TypeOK
  <2>1. ASSUME NEW j \in Jobs, Accept(j) PROVE Queue!Accept(j)
    <3>1. With("running")' = With("running") /\ Over' = Over
          /\ j \notin With("running") \cup Over
      BY <2>1, <2>0 DEF Accept, With, Over
    <3>2. \A i \in 1..Len(queue) : queue[i] # j
      BY <2>1 DEF Accept, Inv, QueueHoldsWaiting
    <3> QED BY <2>1, <3>1, <3>2 DEF Accept, Queue!Accept, Queue!Fresh, Over
  <2>2. ASSUME NEW j \in Jobs, Refuse(j) PROVE Queue!Refuse(j)
    <3>1. With("running")' = With("running") /\ Over' = Over \cup {j}
          /\ j \notin With("running") \cup Over
      BY <2>2, <2>0 DEF Refuse, With, Over
    <3>2. \A i \in 1..Len(queue) : queue[i] # j
      BY <2>2 DEF Refuse, Inv, QueueHoldsWaiting
    <3> QED
      BY <2>2, <3>1, <3>2 DEF Refuse, Overloaded, Queue!Refuse, Queue!Fresh, Over
  <2>3. ASSUME NEW j \in Jobs, Settle(j) PROVE Queue!Finish(j)
    <3>1. With("running")' = With("running") \ {j} /\ Over' = Over \cup {j}
          /\ j \in With("running")
      BY <2>3, <2>0 DEF Settle, With, Over
    <3> QED BY <2>3, <3>1 DEF Settle, Queue!Finish, Over
  <2>4. ASSUME NEW j \in Jobs, Finally(j) PROVE Queue!Start \/ UNCHANGED Queue!vars
    <3> DEFINE s == [status EXCEPT ![j] = "done"]
    <3>1. /\ s \in [Jobs -> Statuses]
          /\ \A k \in Jobs : s[k] = "queued" <=> status[k] = "queued"
          /\ {k \in Jobs : s[k] = "running"} = With("running")
          /\ {k \in Jobs : s[k] \in {"settled", "done", "refused"}} = Over
          /\ runNext(active - 1, s)
      BY <2>4, <2>0 DEF Finally, Statuses, With, Over
    <3>2. j \in Held /\ With("running") \subseteq Held \ {j}
      BY <2>4 DEF Finally, Held, With
    <3>3. IsFiniteSet(Held) /\ active = Cardinality(Held)
      BY HeldFinite DEF Inv, SlotsCounted, Held
    <3>4. Cardinality(Held \ {j}) = active - 1 /\ active - 1 \in Nat
      <4>1. IsFiniteSet(Held \ {j}) /\ Cardinality(Held \ {j}) = Cardinality(Held) - 1
        BY <3>2, <3>3, FS_RemoveElement
      <4> QED BY <4>1, <3>3, FS_CardinalityType
    <3>5. active - 1 < Concurrency => Cardinality(With("running")) < Concurrency
      BY <3>2, <3>4, RunningFits
    <3> HIDE DEF s
    <3> QED BY <3>1, <3>4, <3>5, RunNextIsStart
  <2>5. ASSUME RunMicrotask PROVE Queue!Start \/ UNCHANGED Queue!vars
    <3>1. /\ {k \in Jobs : status[k] = "running"} = With("running")
          /\ {k \in Jobs : status[k] \in {"settled", "done", "refused"}} = Over
          /\ With("running") \subseteq Held
      BY <2>0 DEF With, Over, Held
    <3>2. active < Concurrency => Cardinality(With("running")) < Concurrency
      BY <3>1, RunningFits DEF Inv, SlotsCounted, Held
    <3> QED BY <2>0, <2>5, <3>1, <3>2, RunNextIsStart DEF RunMicrotask
  <2>6. CASE UNCHANGED vars
    BY <2>6 DEF vars, Queue!vars, With
  <2> QED BY <2>1, <2>2, <2>3, <2>4, <2>5, <2>6 DEF Next, Queue!Next
<1> QED BY <1>1, <1>2, Invariant, PTL DEF Spec, QueueSpec, Queue!Spec

-----------------------------------------------------------------------------
(* The key store.  Its calls have begun in their order.                    *)
InOrder == \E n \in 0..MaxCalls : Begun = 1..n
Youngest(c) == c \in Begun /\ \A b \in Begun : b <= c

(* Who is saving has the lock, a call that is over is forgotten, and the   *)
(* object of a save is known to nobody before it is saved.                 *)
Saving(c) == pc[c] \in {"tenant", "write"}
Places ==
  /\ \A c \in Calls : Saving(c) <=> lock = c
  /\ \A c \in Calls : kind[c] # "none" => c \in UnderWay
MergedIsNew ==
  \A c \in Calls : pc[c] \in {"new", "connect", "lock"} =>
    keys # Merged(c) /\ \A b \in Calls : given[b].keys # Merged(c)

(* Of two calls the younger saves later.                                   *)
SavedInOrder == \A b, c \in Calls : b > c /\ Saving(c) => pc[b] \notin {"tenant", "write", "ended"}

(* The youngest call has the last value in hand, saves it or has saved it, *)
(* unless it failed.                                                       *)
LastInHand ==
  \A c \in Calls : Youngest(c) =>
    /\ pc[c] \in {"connect", "lock"} => heap[given[c].keys] = last
    /\ Saving(c) => heap[Merged(c)] = last
    /\ pc[c] = "ended" => stored.key = last
    /\ pc[c] = "failed" => unsaved >= c \/ (UnderWay = {} /\ stored.key = last)

(* After a reset nobody has a key any more; while it is under way, nobody  *)
(* else is.                                                                *)
Emptied ==
  \/ \E c \in Calls : kind[c] = "reset" /\ Youngest(c) /\ UnderWay = {c}
  \/ /\ stored.key = NoKey
     /\ \A c \in UnderWay : heap[given[c].keys] = NoKey /\ (Saving(c) => heap[Merged(c)] = NoKey)

(* What holds as long as no call has raced another.                        *)
Kept ==
  /\ SavedInOrder
  /\ unsaved < MaxCalls =>
       /\ Begun = {} => stored.key = last
       /\ LastInHand
       /\ last = NoKey => Emptied

StoreInv ==
  /\ StoreTypeOK /\ InOrder /\ Places /\ MergedIsNew
  /\ ~raced => Kept

-----------------------------------------------------------------------------
(* Types.                                                                  *)
LEMMA ObjectsAre ==
  /\ Loaded \in Objects /\ NoKey \notin Objects /\ NoCall \notin Calls
  /\ \A b, c \in Calls : /\ Made(c) \in Objects /\ Merged(c) \in Objects
                       /\ Made(b) # Merged(c) /\ (Merged(b) = Merged(c) => b = c)
                       /\ Merged(c) # Loaded
BY AuthAssumption DEF Calls, Objects, Made, Merged, Loaded, NoKey, NoCall

LEMMA BegunCounted ==
  ASSUME InOrder
  PROVE  IsFiniteSet(Begun) /\ Cardinality(Begun) \in 0..MaxCalls /\ Begun = 1..Cardinality(Begun)
<1>1. PICK n \in 0..MaxCalls : Begun = 1..n
  BY DEF InOrder
<1>2. IsFiniteSet(1..n) /\ Cardinality(1..n) = IF 1 > n THEN 0 ELSE n - 1 + 1
  BY FS_Interval, AuthAssumption
<1> QED BY <1>1, <1>2, AuthAssumption

LEMMA MergedTyped ==
  ASSUME StoreTypeOK, NEW c \in Calls
  PROVE  mergeKeys(c) \in Calls \cup {0, NoKey}
BY DEF StoreTypeOK, mergeKeys

LEMMA StoreTypesKept == StoreTypeOK /\ InOrder /\ [StoreNext]_storeVars => StoreTypeOK'
<1> SUFFICES ASSUME StoreTypeOK, InOrder, [StoreNext]_storeVars
             PROVE  StoreTypeOK'
  OBVIOUS
<1> USE DEF StoreTypeOK
<1>0. Nothing \in [keys : Objects, creds : Calls \cup {0}]
  BY ObjectsAre DEF Nothing
<1>1. CASE UNCHANGED storeVars
  BY <1>1 DEF storeVars, memory, calls, history
<1>2. ASSUME NEW c \in Calls, NEW what \in {"set", "creds", "reset"}, Begin(c, what)
      PROVE  /\ kind' \in [Calls -> {"none", "set", "creds", "reset"}]
             /\ pc' \in [Calls -> {"new", "connect", "lock", "tenant", "write", "ended", "failed"}]
             /\ raced' \in BOOLEAN
             /\ stored' = stored /\ lock' = lock /\ unsaved' = unsaved /\ mishaps' = mishaps
  BY <1>2 DEF Begin
<1>3. ASSUME NEW c \in Calls, NEW x \in {"lock", "write", "ended", "failed", "tenant"},
             pc' = [pc EXCEPT ![c] = x]
      PROVE  pc' \in [Calls -> {"new", "connect", "lock", "tenant", "write", "ended", "failed"}]
  BY <1>3
<1>4. ASSUME NEW c \in Calls, set(c) PROVE StoreTypeOK'
  <2> DEFINE inner == IF heap[keys] = NoKey THEN Made(c) ELSE keys
  <2>1. inner \in Objects
    BY ObjectsAre
  <2>2. [keys |-> inner, creds |-> creds] \in [keys : Objects, creds : Calls \cup {0}]
    BY <2>1
  <2>3. /\ heap' = [heap EXCEPT ![inner] = c] /\ keys' = inner /\ last' = c /\ creds' = creds
        /\ given' = [given EXCEPT ![c] = [keys |-> inner, creds |-> creds]] /\ Begin(c, "set")
    BY <1>4 DEF set
  <2> HIDE DEF inner
  <2> QED BY <2>1, <2>2, <2>3, <1>2
<1>5. ASSUME NEW c \in Calls, saveCreds(c) PROVE StoreTypeOK'
  <2>1. [keys |-> keys, creds |-> creds] \in [keys : Objects, creds : Calls \cup {0}]
    OBVIOUS
  <2> QED BY <2>1, <1>2, <1>5 DEF saveCreds, memory
<1>6. ASSUME NEW c \in Calls, resetState(c) PROVE StoreTypeOK'
  <2>1. [keys |-> Made(c), creds |-> c] \in [keys : Objects, creds : Calls \cup {0}]
    BY ObjectsAre
  <2> QED BY <2>1, <1>2, <1>6, ObjectsAre DEF resetState
<1>7. ASSUME NEW c \in Calls, ConnectPool(c) \/ resolveTenantId(c) PROVE StoreTypeOK'
  BY <1>7, <1>3 DEF ConnectPool, resolveTenantId, memory, history
<1>8. ASSUME NEW c \in Calls, LockRow(c) PROVE StoreTypeOK'
  BY <1>8, <1>3, MergedTyped, ObjectsAre DEF LockRow
<1>9. ASSUME NEW c \in Calls, Forget(c)
      PROVE  /\ given' \in [Calls -> [keys : Objects, creds : Calls \cup {0}]]
             /\ kind' \in [Calls -> {"none", "set", "creds", "reset"}]
  BY <1>9, <1>0 DEF Forget
<1>10. ASSUME NEW c \in Calls, Persist(c) PROVE StoreTypeOK'
  <2>1. given[c].creds \in Calls \cup {0} /\ heap[Merged(c)] \in Calls \cup {0, NoKey}
    BY ObjectsAre
  <2>2. stored' \in [key : Calls \cup {0, NoKey}, creds : Calls \cup {0}]
    BY <2>1, <1>10 DEF Persist
  <2>3. keys' \in Objects /\ creds' \in Calls \cup {0}
    BY <2>1, <1>10, ObjectsAre DEF Persist
  <2>4. unsaved' \in 0..MaxCalls
    BY <1>10, AuthAssumption DEF Persist
  <2> QED BY <2>2, <2>3, <2>4, <1>3, <1>9, <1>10 DEF Persist
<1>11. ASSUME NEW c \in Calls, Fail(c), mishaps' \in 0..MaxTrouble PROVE StoreTypeOK'
  <2>1. unsaved' \in 0..MaxCalls
    BY <1>11, BegunCounted, AuthAssumption DEF Fail
  <2>2. lock' \in Calls \cup {NoCall}
    BY <1>11 DEF Fail
  <2> QED BY <2>1, <2>2, <1>3, <1>9, <1>11 DEF Fail, memory
<1>12. ASSUME NEW c \in Calls, PoolTimesOut(c) PROVE StoreTypeOK'
  BY <1>11, <1>12 DEF PoolTimesOut
<1>13. Happens => mishaps' \in 0..MaxTrouble
  BY AuthAssumption DEF Happens
<1>14. ASSUME NEW c \in Calls, StatementFails(c) PROVE StoreTypeOK'
  BY <1>11, <1>13, <1>14 DEF StatementFails
<1>15. CASE Restart
  <2>1. NoHeap \in [Objects -> Calls \cup {0, NoKey}]
    BY DEF NoHeap
  <2>2. heap' \in [Objects -> Calls \cup {0, NoKey}] /\ keys' \in Objects
    BY <1>15, <2>1, ObjectsAre DEF Restart
  <2>3. pc' \in [Calls -> {"new", "connect", "lock", "tenant", "write", "ended", "failed"}]
    BY <1>15 DEF Restart
  <2>4. unsaved' \in 0..MaxCalls
    BY <1>15, AuthAssumption DEF Restart
  <2>5. raced' \in BOOLEAN
    BY <1>15, ZenonT(30) DEF Restart
  <2> QED BY <1>0, <1>13, <1>15, <2>2, <2>3, <2>4, <2>5 DEF Restart
<1> QED
  BY <1>1, <1>4, <1>5, <1>6, <1>7, <1>8, <1>10, <1>12, <1>14, <1>15 DEF StoreNext, CallStep

-----------------------------------------------------------------------------
(* What a step does to the places of calls.                                *)
BeginStep(c) == set(c) \/ saveCreds(c) \/ resetState(c)
Onward(c) == CallStep(c) \/ StatementFails(c)

LEMMA BeginIs ==
  ASSUME StoreTypeOK, InOrder, NEW c \in Calls, BeginStep(c)
  PROVE  /\ pc[c] = "new" /\ pc' = [pc EXCEPT ![c] = "connect"]
         /\ Begun' = Begun \cup {c} /\ UnderWay' = UnderWay \cup {c}
         /\ \A b \in Begun : b < c
         /\ InOrder' /\ Youngest(c)' /\ \A b \in Calls : Youngest(b)' => b = c
<1>1. pc[c] = "new" /\ pc' = [pc EXCEPT ![c] = "connect"] /\ \A b \in Calls : b < c => pc[b] # "new"
  BY DEF BeginStep, set, saveCreds, resetState, Begin
<1>2. Begun' = Begun \cup {c} /\ UnderWay' = UnderWay \cup {c}
  BY <1>1 DEF Begun, UnderWay, StoreTypeOK
<1>3. PICK n \in 0..MaxCalls : Begun = 1..n
  BY DEF InOrder
<1>4. c = n + 1
  <2>1. c \notin 1..n /\ \A b \in Calls : b < c => b \in 1..n
    BY <1>1, <1>3 DEF Begun
  <2>2. n + 1 <= c
    BY <2>1, AuthAssumption DEF Calls
  <2>3. ~(n + 1 < c)
    BY <2>1, AuthAssumption DEF Calls
  <2> QED BY <2>2, <2>3, AuthAssumption DEF Calls
<1>5. Begun' = 1..(n + 1) /\ n + 1 \in 0..MaxCalls
  BY <1>2, <1>3, <1>4, AuthAssumption DEF Calls
<1>6. InOrder'
  BY <1>5 DEF InOrder
<1>7. \A b \in Begun : b < c
  BY <1>3, <1>4, AuthAssumption DEF Calls
<1>8. Youngest(c)' /\ \A b \in Calls : Youngest(b)' => b = c
  BY <1>4, <1>5, AuthAssumption DEF Youngest, Calls
<1> QED BY <1>1, <1>2, <1>6, <1>7, <1>8

LEMMA OnwardIs ==
  ASSUME StoreTypeOK, NEW c \in Calls, Onward(c)
  PROVE  /\ c \in UnderWay /\ last' = last
         /\ \E x \in {"lock", "tenant", "write", "ended", "failed"} : pc' = [pc EXCEPT ![c] = x]
         /\ Begun' = Begun
         /\ \A b \in Calls : Youngest(b)' <=> Youngest(b)
         /\ UnderWay' \subseteq UnderWay /\ UnderWay \ {c} \subseteq UnderWay'
<1>1. c \in UnderWay /\ last' = last
  BY DEF Onward, CallStep, ConnectPool, LockRow, resolveTenantId, Persist, PoolTimesOut, StatementFails,
     Fail, UnderWay, history
<1>2. \E x \in {"lock", "tenant", "write", "ended", "failed"} : pc' = [pc EXCEPT ![c] = x]
  BY DEF Onward, CallStep, ConnectPool, LockRow, resolveTenantId, Persist, PoolTimesOut, StatementFails,
     Fail
<1>3. Begun' = Begun
  BY <1>1, <1>2 DEF Begun, UnderWay, StoreTypeOK
<1>4. UnderWay' \subseteq UnderWay /\ UnderWay \ {c} \subseteq UnderWay'
  BY <1>1, <1>2 DEF UnderWay, StoreTypeOK
<1> QED BY <1>1, <1>2, <1>3, <1>4 DEF Youngest

LEMMA RestartIs ==
  ASSUME StoreTypeOK, Restart
  PROVE  /\ Begun' = Begun /\ UnderWay' = {} /\ \A c \in Calls : pc'[c] \in {"new", "failed"}
         /\ stored'.key = last'
BY DEF Restart, Begun, UnderWay, StoreTypeOK

LEMMA InOrderStays == StoreTypeOK /\ InOrder /\ [StoreNext]_storeVars => InOrder'
<1> SUFFICES ASSUME StoreTypeOK, InOrder, [StoreNext]_storeVars
             PROVE  InOrder'
  OBVIOUS
<1>1. CASE UNCHANGED storeVars
  BY <1>1 DEF storeVars, calls, InOrder, Begun
<1>2. ASSUME NEW c \in Calls, BeginStep(c) PROVE InOrder'
  BY <1>2, BeginIs
<1>3. ASSUME NEW c \in Calls, Onward(c) PROVE InOrder'
  BY <1>3, OnwardIs DEF InOrder
<1>4. CASE Restart
  BY <1>4, RestartIs DEF InOrder
<1> QED BY <1>1, <1>2, <1>3, <1>4 DEF StoreNext, BeginStep, Onward

(* The lock, and the objects of the memory.                                *)
LEMMA PlacesStay == StoreTypeOK /\ InOrder /\ Places /\ [StoreNext]_storeVars => Places'
<1> SUFFICES ASSUME StoreTypeOK, InOrder, Places, [StoreNext]_storeVars
             PROVE  Places'
  OBVIOUS
<1> USE DEF Places, Saving, UnderWay
<1>1. CASE UNCHANGED storeVars
  BY <1>1 DEF storeVars, calls
<1>2. ASSUME NEW c \in Calls, BeginStep(c) PROVE Places'
  <2>1. /\ pc' = [pc EXCEPT ![c] = "connect"] /\ lock' = lock /\ pc[c] = "new"
        /\ \A b \in Calls \ {c} : kind'[b] = kind[b]
    BY <1>2 DEF BeginStep, set, saveCreds, resetState, Begin, StoreTypeOK
  <2> QED BY <2>1 DEF StoreTypeOK
<1>3. ASSUME NEW c \in Calls, ConnectPool(c) \/ LockRow(c) \/ resolveTenantId(c) PROVE Places'
  BY <1>3, ObjectsAre DEF ConnectPool, LockRow, resolveTenantId, StoreTypeOK
<1>4. ASSUME NEW c \in Calls, Persist(c) PROVE Places'
  BY <1>4, ObjectsAre DEF Persist, Forget, StoreTypeOK
<1>5. ASSUME NEW c \in Calls, Fail(c) PROVE Places'
  BY <1>5, ObjectsAre DEF Fail, Forget, StoreTypeOK
<1>6. CASE Restart
  BY <1>6, ObjectsAre DEF Restart, StoreTypeOK
<1> QED BY <1>1, <1>2, <1>3, <1>4, <1>5, <1>6
        DEF StoreNext, BeginStep, CallStep, PoolTimesOut, StatementFails

LEMMA MergedIsNewStays ==
  StoreTypeOK /\ InOrder /\ MergedIsNew /\ [StoreNext]_storeVars => MergedIsNew'
<1> SUFFICES ASSUME StoreTypeOK, InOrder, MergedIsNew, [StoreNext]_storeVars
             PROVE  MergedIsNew'
  OBVIOUS
<1> USE DEF MergedIsNew
<1>0. \A c \in Calls : Nothing.keys # Merged(c)
  BY ObjectsAre DEF Nothing
<1>1. CASE UNCHANGED storeVars
  BY <1>1 DEF storeVars, memory, calls
<1>2. ASSUME NEW c \in Calls, BeginStep(c) PROVE MergedIsNew'
  <2>1. /\ pc' = [pc EXCEPT ![c] = "connect"] /\ pc[c] = "new"
        /\ keys' \in {keys, Made(c)} /\ given'[c].keys = keys'
        /\ \A b \in Calls \ {c} : given'[b] = given[b]
    BY <1>2 DEF BeginStep, set, saveCreds, resetState, Begin, memory, StoreTypeOK
  <2>2. \A x \in Calls : pc'[x] \in {"new", "connect", "lock"} => pc[x] \in {"new", "connect", "lock"}
    BY <2>1 DEF StoreTypeOK
  <2> QED BY <2>1, <2>2, ObjectsAre
<1>3. ASSUME NEW c \in Calls, ConnectPool(c) \/ LockRow(c) \/ resolveTenantId(c) PROVE MergedIsNew'
  BY <1>3 DEF ConnectPool, LockRow, resolveTenantId, memory, StoreTypeOK
<1>4. ASSUME NEW c \in Calls, Persist(c) PROVE MergedIsNew'
  <2>1. /\ pc' = [pc EXCEPT ![c] = "ended"] /\ keys' \in {keys, Merged(c)}
        /\ given' = [given EXCEPT ![c] = Nothing]
    BY <1>4 DEF Persist, Forget
  <2>2. \A x \in Calls : pc'[x] \in {"new", "connect", "lock"} => x # c /\ pc[x] \in {"new", "connect", "lock"}
    BY <2>1 DEF StoreTypeOK
  <2> QED BY <1>0, <2>1, <2>2, ObjectsAre DEF StoreTypeOK
<1>5. ASSUME NEW c \in Calls, Fail(c) PROVE MergedIsNew'
  BY <1>0, <1>5 DEF Fail, Forget, memory, StoreTypeOK
<1>6. CASE Restart
  BY <1>0, <1>6, ObjectsAre DEF Restart
<1> QED BY <1>1, <1>2, <1>3, <1>4, <1>5, <1>6
        DEF StoreNext, BeginStep, CallStep, PoolTimesOut, StatementFails

-----------------------------------------------------------------------------
(* A call begins beside a memory that is up to date, and alone if a reset  *)
(* is about.                                                               *)
LEMMA KeptByBegin ==
  ASSUME StoreInv, ~raced', NEW c \in Calls, BeginStep(c)
  PROVE  Kept'
<1> USE DEF StoreInv, Kept, Saving
<1>1. /\ ~raced /\ heap[keys] = last /\ unsaved' = unsaved /\ stored' = stored
      /\ \A b \in UnderWay : kind[b] # "reset"
      /\ resetState(c) => UnderWay = {}
  BY DEF BeginStep, set, saveCreds, resetState, Begin
<1>2. SavedInOrder'
  BY <1>1, BeginIs DEF SavedInOrder, StoreTypeOK
<1>3. heap'[given'[c].keys] = last'
  <2>1. CASE set(c)
    <3> DEFINE inner == IF heap[keys] = NoKey THEN Made(c) ELSE keys
    <3>1. inner \in Objects
      BY ObjectsAre DEF StoreTypeOK
    <3>2. /\ heap' = [heap EXCEPT ![inner] = c] /\ last' = c
          /\ given' = [given EXCEPT ![c] = [keys |-> inner, creds |-> creds]]
      BY <2>1 DEF set
    <3> HIDE DEF inner
    <3> QED BY <3>1, <3>2 DEF StoreTypeOK
  <2>2. CASE saveCreds(c)
    BY <2>2, <1>1 DEF saveCreds, memory, StoreTypeOK
  <2>3. CASE resetState(c)
    BY <2>3, ObjectsAre DEF resetState, StoreTypeOK
  <2> QED BY <2>1, <2>2, <2>3 DEF BeginStep
<1>4. pc'[c] = "connect"
  BY BeginIs DEF StoreTypeOK
<1>5. LastInHand'
  BY <1>3, <1>4, BeginIs DEF LastInHand
<1>6. ASSUME unsaved < MaxCalls, last' = NoKey PROVE Emptied'
  <2>1. CASE set(c)
    BY <2>1, <1>6 DEF set, NoKey, Calls
  <2>2. CASE saveCreds(c)
    <3>1. last = NoKey /\ heap' = heap /\ given' = [given EXCEPT ![c] = [keys |-> keys, creds |-> creds]]
      BY <2>2, <1>6 DEF saveCreds, memory
    <3>2. stored.key = NoKey /\ \A b \in UnderWay : heap[given[b].keys] = NoKey /\ (Saving(b) => heap[Merged(b)] = NoKey)
      BY <3>1, <1>1, <1>6 DEF Emptied
    <3>3. \A b \in UnderWay' : b = c \/ (b \in UnderWay /\ pc'[b] = pc[b] /\ given'[b] = given[b])
      BY <3>1, BeginIs DEF StoreTypeOK, UnderWay
    <3>4. heap'[given'[c].keys] = NoKey
      BY <1>3, <1>6
    <3> QED BY <1>1, <1>4, <3>1, <3>2, <3>3, <3>4 DEF Emptied
  <2>3. CASE resetState(c)
    <3>1. kind'[c] = "reset"
      BY <2>3 DEF resetState, Begin, StoreTypeOK
    <3> QED BY <3>1, <2>3, <1>1, BeginIs DEF Emptied
  <2> QED BY <2>1, <2>2, <2>3 DEF BeginStep
<1>7. Begun' # {}
  BY BeginIs
<1> QED BY <1>1, <1>2, <1>5, <1>6, <1>7

(* A step that only moves a call on.                                       *)
LEMMA KeptByWait ==
  ASSUME StoreInv, ~raced', NEW c \in Calls, ConnectPool(c) \/ resolveTenantId(c)
  PROVE  Kept'
<1>1. /\ UNCHANGED <<stored, memory, kind, given, lock, history>>
      /\ \/ pc[c] = "connect" /\ pc' = [pc EXCEPT ![c] = "lock"]
         \/ pc[c] = "tenant" /\ pc' = [pc EXCEPT ![c] = "write"]
  BY DEF ConnectPool, resolveTenantId
<1>2. UnderWay' = UnderWay /\ Begun' = Begun /\ \A b \in Calls : Saving(b)' <=> Saving(b)
  BY <1>1 DEF UnderWay, Begun, Saving, StoreInv, StoreTypeOK
<1>3. SavedInOrder => SavedInOrder'
  BY <1>1, <1>2 DEF SavedInOrder, StoreInv, StoreTypeOK
<1>4. LastInHand => LastInHand'
  BY <1>1, <1>2 DEF LastInHand, Youngest, Saving, StoreInv, StoreTypeOK, memory, history
<1>5. Emptied => Emptied'
  <2>1. UnderWay \subseteq Calls
    BY DEF UnderWay
  <2> QED BY <2>1, <1>1, <1>2 DEF Emptied, Youngest, memory
<1> QED BY <1>1, <1>2, <1>3, <1>4, <1>5 DEF StoreInv, Kept, history

(* The merge: what it makes is what the call was given, or the row.        *)
LEMMA KeptByLock ==
  ASSUME StoreInv, ~raced', NEW c \in Calls, LockRow(c)
  PROVE  Kept'
<1> USE DEF StoreInv, Kept, StoreTypeOK
<1>1. /\ ~raced /\ \A b \in Calls : b > c => pc[b] \notin {"tenant", "write", "ended", "failed"}
      /\ pc[c] = "lock" /\ pc' = [pc EXCEPT ![c] = "tenant"] /\ lock = NoCall
      /\ heap' = [heap EXCEPT ![Merged(c)] = mergeKeys(c)]
      /\ UNCHANGED <<stored, keys, kind, given, last, unsaved>>
  BY DEF LockRow
<1>2. UnderWay' = UnderWay /\ Begun' = Begun /\ c \in UnderWay /\ c \in Begun
  BY <1>1 DEF UnderWay, Begun
<1>3. \A b \in Calls : ~Saving(b)
  BY <1>1, ObjectsAre DEF Places
<1>4. SavedInOrder'
  BY <1>1, <1>3 DEF SavedInOrder, Saving, Calls
<1>5. heap'[Merged(c)] = mergeKeys(c) /\ \A b \in Calls : heap'[given[b].keys] = heap[given[b].keys]
  BY <1>1, ObjectsAre DEF MergedIsNew
<1>6. ASSUME unsaved < MaxCalls, last = NoKey
      PROVE  \/ kind[c] = "reset" /\ Youngest(c) /\ UnderWay = {c}
             \/ stored.key = NoKey /\ \A b \in UnderWay : heap[given[b].keys] = NoKey
  BY <1>1, <1>2, <1>6 DEF Emptied
<1>7. ASSUME unsaved < MaxCalls, Youngest(c) PROVE mergeKeys(c) = last
  <2>1. heap[given[c].keys] = last
    BY <1>1, <1>7 DEF LastInHand
  <2>2. CASE last = NoKey
    BY <1>6, <1>7, <2>1, <2>2 DEF mergeKeys
  <2> QED BY <2>1, <2>2 DEF mergeKeys
<1>8. ASSUME unsaved < MaxCalls PROVE LastInHand'
  <2>1. \A b \in Calls : Youngest(b)' <=> Youngest(b)
    BY <1>2 DEF Youngest
  <2>2. ASSUME NEW b \in Calls, Youngest(b), b = c
        PROVE  pc'[b] = "tenant" /\ heap'[Merged(b)] = last
    BY <2>2, <1>1, <1>5, <1>7, <1>8
  <2>3. ASSUME NEW b \in Calls, Youngest(b), b # c
        PROVE  pc'[b] = pc[b] /\ pc[b] \notin {"tenant", "write", "ended", "failed"}
    <3>1. b > c
      BY <2>3, <1>2 DEF Youngest, Calls
    <3> QED BY <3>1, <2>3, <1>1
  <2> QED BY <1>1, <1>5, <1>8, <2>1, <2>2, <2>3 DEF LastInHand, Saving
<1>9. ASSUME unsaved < MaxCalls, last = NoKey PROVE Emptied'
  <2>1. CASE kind[c] = "reset" /\ Youngest(c) /\ UnderWay = {c}
    BY <2>1, <1>1, <1>2 DEF Emptied, Youngest
  <2>2. CASE stored.key = NoKey /\ \A b \in UnderWay : heap[given[b].keys] = NoKey
    <3>1. mergeKeys(c) = NoKey
      BY <2>2, <1>2 DEF mergeKeys
    <3>2. \A b \in Calls : Saving(b)' => b = c
      BY <1>1, <1>3 DEF Saving
    <3>3. \A b \in UnderWay' : heap'[given'[b].keys] = NoKey
      BY <2>2, <1>1, <1>2, <1>5 DEF UnderWay
    <3>4. UnderWay' \subseteq Calls
      BY DEF UnderWay
    <3>5. \A b \in UnderWay' : Saving(b)' => heap'[Merged(b)] = NoKey
      BY <1>5, <3>1, <3>2, <3>4
    <3> QED BY <2>2, <1>1, <3>3, <3>5 DEF Emptied
  <2> QED BY <1>6, <1>9, <2>1, <2>2
<1> QED BY <1>1, <1>2, <1>4, <1>8, <1>9

(* The save: of the youngest call, what the key was given last; of an      *)
(* older one, something that the youngest will make good.                  *)
LEMMA KeptByPersist ==
  ASSUME StoreInv, ~raced', NEW c \in Calls, Persist(c)
  PROVE  Kept'
<1> USE DEF StoreInv, Kept, StoreTypeOK
<1>1. /\ ~raced /\ pc[c] = "write" /\ pc' = [pc EXCEPT ![c] = "ended"]
      /\ stored'.key = heap[Merged(c)]
      /\ kind' = [kind EXCEPT ![c] = "none"]
      /\ given' = [given EXCEPT ![c] = Nothing]
      /\ unsaved' = IF c > unsaved THEN 0 ELSE unsaved
      /\ UNCHANGED <<heap, last>>
  BY DEF Persist, Forget
<1>2. UnderWay' = UnderWay \ {c} /\ Begun' = Begun /\ c \in UnderWay /\ c \in Begun
  BY <1>1 DEF UnderWay, Begun
<1>3. \A b \in Calls : Saving(b) => b = c
  BY <1>1, ObjectsAre DEF Places, Saving
<1>4. \A b \in Calls : ~Saving(b)'
  BY <1>1, <1>3 DEF Saving
<1>5. SavedInOrder'
  BY <1>4 DEF SavedInOrder
<1>6. unsaved' < MaxCalls => unsaved < MaxCalls
  BY <1>1, AuthAssumption DEF Calls
<1>7. ASSUME unsaved < MaxCalls PROVE LastInHand'
  <2>1. \A b \in Calls : Youngest(b)' <=> Youngest(b)
    BY <1>2 DEF Youngest
  <2>2. ASSUME NEW b \in Calls, Youngest(b), b = c
        PROVE  pc'[b] = "ended" /\ stored'.key = last
    BY <2>2, <1>1, <1>7 DEF LastInHand, Saving
  <2>3. ASSUME NEW b \in Calls, Youngest(b), b # c
        PROVE  /\ pc'[b] = pc[b] /\ heap'[given'[b].keys] = heap[given[b].keys]
               /\ pc[b] # "ended" /\ ~Saving(b)
               /\ pc[b] = "failed" => unsaved' >= b
    <3>1. b > c
      BY <2>3, <1>2 DEF Youngest, Calls
    <3>2. Saving(c)
      BY <1>1 DEF Saving
    <3>3. pc[b] \notin {"tenant", "write", "ended"}
      BY <3>1, <3>2, <1>1 DEF SavedInOrder
    <3>4. pc[b] = "failed" => unsaved >= b
      BY <2>3, <1>1, <1>2, <1>7 DEF LastInHand
    <3>5. unsaved >= b => unsaved' >= b
      BY <3>1, <1>1 DEF Calls
    <3> QED BY <2>3, <3>3, <3>4, <3>5, <1>1 DEF Saving
  <2> QED BY <1>1, <1>4, <1>7, <2>1, <2>2, <2>3 DEF LastInHand, Saving
<1>8. ASSUME unsaved < MaxCalls, last = NoKey PROVE Emptied'
  <2>1. heap[Merged(c)] = NoKey
    <3>1. CASE Youngest(c)
      BY <3>1, <1>1, <1>8 DEF LastInHand, Saving
    <3>2. CASE ~Youngest(c)
      BY <3>2, <1>1, <1>2, <1>8 DEF Emptied, Saving
    <3> QED BY <3>1, <3>2
  <2>2. \A b \in UnderWay' : heap'[given'[b].keys] = NoKey
    <3>1. \A b \in UnderWay' : b \in UnderWay /\ b # c /\ given'[b] = given[b]
      BY <1>1, <1>2 DEF UnderWay
    <3> QED BY <3>1, <1>1, <1>2, <1>8 DEF Emptied
  <2>3. UnderWay' \subseteq Calls
    BY DEF UnderWay
  <2> QED BY <2>1, <2>2, <2>3, <1>1, <1>4 DEF Emptied
<1>9. Begun' # {}
  BY <1>2
<1> QED BY <1>1, <1>5, <1>6, <1>7, <1>8, <1>9

(* A failure is noted against all that have begun.                         *)
LEMMA KeptByFail ==
  ASSUME StoreInv, ~raced', NEW c \in Calls, c \in UnderWay, Fail(c)
  PROVE  Kept'
<1> USE DEF StoreInv, Kept, StoreTypeOK
<1>1. /\ ~raced /\ pc' = [pc EXCEPT ![c] = "failed"]
      /\ kind' = [kind EXCEPT ![c] = "none"]
      /\ given' = [given EXCEPT ![c] = Nothing]
      /\ UNCHANGED <<stored, heap, last>>
      /\ unsaved' = IF kind[c] = "reset" \/ unsaved = MaxCalls THEN MaxCalls ELSE Cardinality(Begun)
  BY DEF Fail, Forget, memory
<1>2. UnderWay' = UnderWay \ {c} /\ Begun' = Begun /\ c \in Begun
  BY <1>1 DEF UnderWay, Begun
<1>3. SavedInOrder'
  BY <1>1 DEF SavedInOrder, Saving
<1>4. unsaved' < MaxCalls => unsaved < MaxCalls /\ kind[c] # "reset"
  BY <1>1, AuthAssumption
<1>5. \A b \in Begun : unsaved' >= b
  BY <1>1, BegunCounted, AuthAssumption DEF Begun, Calls
<1>6. ASSUME unsaved < MaxCalls PROVE LastInHand'
  <2>1. \A b \in Calls : Youngest(b)' <=> Youngest(b)
    BY <1>2 DEF Youngest
  <2>2. \A b \in Calls : Youngest(b) => unsaved' >= b
    BY <1>5 DEF Youngest
  <2>3. \A b \in Calls : b # c => pc'[b] = pc[b] /\ given'[b] = given[b]
    BY <1>1
  <2>4. pc'[c] = "failed"
    BY <1>1
  <2> QED BY <1>1, <1>6, <2>1, <2>2, <2>3, <2>4 DEF LastInHand, Saving
<1>7. ASSUME unsaved < MaxCalls, kind[c] # "reset", last = NoKey PROVE Emptied'
  <2>1. stored.key = NoKey /\ \A b \in UnderWay : heap[given[b].keys] = NoKey /\ (Saving(b) => heap[Merged(b)] = NoKey)
    BY <1>1, <1>2, <1>7 DEF Emptied
  <2>2. \A b \in UnderWay' : b \in UnderWay /\ given'[b] = given[b] /\ pc'[b] = pc[b]
    BY <1>1, <1>2 DEF UnderWay
  <2> QED BY <1>1, <2>1, <2>2 DEF Emptied, Saving
<1>8. Begun' # {}
  BY <1>2
<1> QED BY <1>1, <1>3, <1>4, <1>6, <1>7, <1>8

LEMMA KeptByRestart ==
  ASSUME StoreInv, Restart
  PROVE  Kept'
<1>1. /\ stored'.key = last' /\ UnderWay' = {} /\ \A c \in Calls : pc'[c] \in {"new", "failed"}
  BY RestartIs DEF StoreInv
<1>2. SavedInOrder'
  BY <1>1 DEF SavedInOrder, Saving
<1>3. LastInHand'
  BY <1>1 DEF LastInHand, Saving
<1>4. last' = NoKey => Emptied'
  BY <1>1 DEF Emptied
<1> QED BY <1>1, <1>2, <1>3, <1>4 DEF Kept

LEMMA StoreInvStays == StoreInv /\ [StoreNext]_storeVars => StoreInv'
<1> SUFFICES ASSUME StoreInv, [StoreNext]_storeVars
             PROVE  StoreInv'
  OBVIOUS
<1>1. StoreTypeOK' /\ InOrder' /\ Places' /\ MergedIsNew'
  BY StoreTypesKept, InOrderStays, PlacesStay, MergedIsNewStays DEF StoreInv
<1>2. ASSUME ~raced' PROVE Kept'
  <2>1. CASE UNCHANGED storeVars
    <3>1. SavedInOrder' = SavedInOrder
      BY <2>1 DEF storeVars, calls, SavedInOrder, Saving
    <3>2. LastInHand' = LastInHand /\ Emptied' = Emptied
      BY <2>1 DEF storeVars, memory, calls, history, LastInHand, Emptied, Youngest, Begun, UnderWay, Saving
    <3> QED BY <1>2, <2>1, <3>1, <3>2 DEF StoreInv, Kept, storeVars, calls, history, Begun
  <2>2. ASSUME NEW c \in Calls, BeginStep(c) PROVE Kept'
    BY <1>2, <2>2, KeptByBegin
  <2>3. ASSUME NEW c \in Calls, ConnectPool(c) \/ resolveTenantId(c) PROVE Kept'
    BY <1>2, <2>3, KeptByWait
  <2>4. ASSUME NEW c \in Calls, LockRow(c) PROVE Kept'
    BY <1>2, <2>4, KeptByLock
  <2>5. ASSUME NEW c \in Calls, Persist(c) PROVE Kept'
    BY <1>2, <2>5, KeptByPersist
  <2>6. ASSUME NEW c \in Calls, PoolTimesOut(c) \/ StatementFails(c) PROVE Kept'
    <3>1. c \in UnderWay /\ Fail(c)
      BY <2>6 DEF PoolTimesOut, StatementFails, UnderWay
    <3> QED BY <1>2, <3>1, KeptByFail
  <2>7. CASE Restart
    BY <2>7, KeptByRestart
  <2> QED BY <2>1, <2>2, <2>3, <2>4, <2>5, <2>6, <2>7 DEF StoreNext, BeginStep, CallStep
<1> QED BY <1>1, <1>2 DEF StoreInv

LEMMA StoreInvInit == StoreInit => StoreInv
<1> SUFFICES ASSUME StoreInit PROVE StoreInv
  OBVIOUS
<1> USE DEF StoreInit
<1>1. Begun = {} /\ UnderWay = {}
  BY DEF Begun, UnderWay
<1>2. StoreTypeOK
  <2>1. NoHeap \in [Objects -> Calls \cup {0, NoKey}]
    BY DEF NoHeap
  <2>2. Nothing \in [keys : Objects, creds : Calls \cup {0}]
    BY ObjectsAre DEF Nothing
  <2>3. raced \in BOOLEAN
    BY ZenonT(30)
  <2> QED BY <2>1, <2>2, <2>3, ObjectsAre, AuthAssumption DEF StoreTypeOK
<1>3. InOrder
  BY <1>1, AuthAssumption DEF InOrder
<1>4. Places
  BY ObjectsAre DEF Places, Saving
<1>5. MergedIsNew
  BY ObjectsAre DEF MergedIsNew, Nothing
<1>6. Kept
  BY <1>1, ObjectsAre DEF Kept, SavedInOrder, LastInHand, Saving, Youngest, NoKey
<1> QED BY <1>2, <1>3, <1>4, <1>5, <1>6 DEF StoreInv

(* The inductive invariant of the key store.                               *)
THEOREM StoreInvariant == StoreSpec => []StoreInv
BY StoreInvInit, StoreInvStays, PTL DEF StoreSpec

(* Type correctness of the key store: its objects, calls and row.          *)
THEOREM StoreTyped == StoreSpec => []StoreTypeOK
<1>1. StoreInv => StoreTypeOK
  BY DEF StoreInv
<1> QED BY StoreInvariant, <1>1, PTL

(* When no call is under way the row has what the key was given last,      *)
(* except after the overlaps and failures that KeysPersisted names.        *)
THEOREM KeysStay == StoreSpec => []KeysPersisted
<1>1. ASSUME StoreInv PROVE KeysPersisted
  <2> SUFFICES ASSUME UnderWay = {}, ~raced, unsaved = 0
               PROVE  stored.key = last
    BY DEF KeysPersisted
  <2>1. Kept /\ unsaved < MaxCalls
    BY <1>1, AuthAssumption DEF StoreInv
  <2>2. CASE Begun = {}
    BY <2>1, <2>2 DEF Kept
  <2>3. CASE Begun # {}
    <3> DEFINE n == Cardinality(Begun)
    <3>1. n \in 0..MaxCalls /\ Begun = 1..n
      BY <1>1, BegunCounted DEF StoreInv
    <3> HIDE DEF n
    <3>2. n \in Calls /\ Youngest(n)
      BY <2>3, <3>1, AuthAssumption DEF Calls, Youngest
    <3>3. pc[n] \in {"ended", "failed"}
      BY <1>1, <3>2 DEF Youngest, Begun, UnderWay, StoreInv, StoreTypeOK
    <3> QED BY <2>1, <3>2, <3>3, AuthAssumption DEF Kept, LastInHand, Calls
  <2> QED BY <2>2, <2>3
<1> QED BY StoreInvariant, <1>1, PTL

=============================================================================
