-------------------------- MODULE AutoAssignProofs --------------------------
(***************************************************************************)
(* Theorems about AutoAssign, for any chats, agents, sockets and runs: the *)
(* runs of the cycle keep each other out, and a cycle takes no chat from   *)
(* anybody and gives nobody more than the limit.                           *)
(***************************************************************************)
EXTENDS AutoAssign, FiniteSetTheorems, TLAPS

Steps == {"idle", "agents", "sessions", "chats", "loads", "each", "assign", "unlock"}

-----------------------------------------------------------------------------
(* The invariant.  A run is under way just when it has the lock.           *)
Exclusive == \A r \in Runs : pc[r] # "idle" <=> lock = r

(* A run about to assign has an agent and a chat.                          *)
TurnTaken == \A r \in Runs : pc[r] = "assign" => list # <<>> /\ queue # <<>>

Distinct(s) == \A i, k \in 1..Len(s) : s[i] = s[k] => i = k

(* Without a manual operation since, the chats left are still waiting, each*)
(* once, and the loads read, plus what the cycle has given, are the loads. *)
QueueIsTrue == Distinct(queue) /\ \A i \in 1..Len(queue) : agent[queue[i]] = NoAgent
LoadsAreTrue == \A a \in Agents : load[a] = Load(a)

ReadsAreTrue ==
  \A r \in Runs :
    /\ pc[r] \in {"loads", "each", "assign"} => QueueIsTrue
    /\ pc[r] \in {"each", "assign"} => LoadsAreTrue
    /\ pc[r] = "assign" => HasRoom(Head(list))

Inv == TypeOK /\ Exclusive /\ TurnTaken /\ (meddled \/ ReadsAreTrue)

-----------------------------------------------------------------------------
(* Orders and loads.                                                       *)
LEMMA OrderIs ==
  ASSUME NEW S, IsFiniteSet(S), NEW s \in SetToSeqs(S)
  PROVE  s \in Seq(S) /\ Distinct(s)
<1>1. Cardinality(S) \in Nat  BY FS_CardinalityType
<1> QED BY <1>1 DEF SetToSeqs, Distinct

LEMMA HeadAndTail ==
  ASSUME NEW S, NEW s \in Seq(S), s # <<>>
  PROVE  /\ Head(s) \in S /\ Tail(s) \in Seq(S)
         /\ Len(s) \in Nat \ {0} /\ Len(Tail(s)) = Len(s) - 1 /\ Head(s) = s[1]
         /\ \A i \in 1..Len(Tail(s)) : Tail(s)[i] = s[i + 1] /\ i + 1 \in 1..Len(s)
OBVIOUS

LEMMA TailDistinct ==
  ASSUME NEW S, NEW s \in Seq(S), s # <<>>, Distinct(s)
  PROVE  /\ Distinct(Tail(s))
         /\ \A i \in 1..Len(Tail(s)) : Tail(s)[i] # Head(s)
BY HeadAndTail DEF Distinct

(* The first chat, put to the end, is there once.                          *)
Rotation(s) == Append(Tail(s), Head(s))

LEMMA Rotated ==
  ASSUME NEW S, NEW s \in Seq(S), s # <<>>, Distinct(s)
  PROVE  /\ Distinct(Rotation(s))
         /\ \A i \in 1..Len(Rotation(s)) : \E k \in 1..Len(s) : Rotation(s)[i] = s[k]
<1>0. PICK t : t = Rotation(s)  OBVIOUS
<1>1. /\ Tail(s) \in Seq(S) /\ Head(s) \in S /\ Len(s) \in Nat \ {0}
      /\ Len(Tail(s)) = Len(s) - 1 /\ Head(s) = s[1]
  BY HeadAndTail
<1>2. /\ t \in Seq(S) /\ Len(t) = Len(s) /\ t[Len(s)] = s[1]
      /\ \A i \in 1..(Len(s) - 1) : t[i] = s[i + 1]
  BY <1>0, <1>1 DEF Rotation
<1>3. PICK n \in Nat \ {0} : n = Len(s) /\ n = Len(t)  BY <1>1, <1>2
<1>4. \A i \in 1..n :
        \/ i = n /\ t[i] = s[1]
        \/ i + 1 \in 1..n /\ t[i] = s[i + 1]
  <2>1. \A i \in 1..(n - 1) : t[i] = s[i + 1]  BY <1>2, <1>3
  <2>2. TAKE i \in 1..n
  <2>3. CASE i = n
    <3>1. t[n] = s[1]  BY <1>2, <1>3
    <3> QED BY <2>3, <3>1
  <2>4. CASE i # n
    <3>1. i + 1 \in 1..n /\ i \in 1..(n - 1)  BY <2>4
    <3> QED BY <2>1, <3>1
  <2> QED BY <2>3, <2>4
<1>5. 1 \in 1..n  OBVIOUS
<1>6. ASSUME NEW i \in 1..n, NEW k \in 1..n, t[i] = t[k] PROVE i = k
  <2>1. \A x, y \in 1..n : s[x] = s[y] => x = y  BY <1>3 DEF Distinct
  <2>2. CASE i + 1 \in 1..n /\ t[i] = s[i + 1] /\ k + 1 \in 1..n /\ t[k] = s[k + 1]
    <3>1. i + 1 = k + 1  BY <1>6, <2>1, <2>2
    <3> QED BY <3>1
  <2>3. CASE i + 1 \in 1..n /\ t[i] = s[i + 1] /\ k = n /\ t[k] = s[1]
    <3>1. i + 1 = 1  BY <1>5, <1>6, <2>1, <2>3
    <3> QED BY <3>1
  <2>4. CASE k + 1 \in 1..n /\ t[k] = s[k + 1] /\ i = n /\ t[i] = s[1]
    <3>1. k + 1 = 1  BY <1>5, <1>6, <2>1, <2>4
    <3> QED BY <3>1
  <2> QED BY <1>4, <2>2, <2>3, <2>4
<1>7. Distinct(t)  BY <1>3, <1>6 DEF Distinct
<1>8. \A i \in 1..Len(t) : \E k \in 1..Len(s) : t[i] = s[k]  BY <1>3, <1>4, <1>5
<1> QED BY <1>0, <1>7, <1>8

LEMMA LoadType == \A a \in Agents : Load(a) \in Nat
<1>1. \A a \in Agents : IsFiniteSet({c \in Chats : agent[c] = a})
  BY AutoAssumption, FS_Subset
<1> QED BY <1>1, FS_CardinalityType DEF Load

(* A waiting chat given to an agent is one more of his, and of no other.   *)
LEMMA LoadGrows ==
  ASSUME TypeOK, NEW c \in Chats, NEW a \in Agents,
         agent[c] = NoAgent, agent' = [agent EXCEPT ![c] = a]
  PROVE  /\ Load(a)' = Load(a) + 1
         /\ \A b \in Agents : b # a => Load(b)' = Load(b)
<1> DEFINE Of(b) == {d \in Chats : agent[d] = b}
<1>1. a # NoAgent /\ NoAgent \notin Agents  BY AutoAssumption
<1>2. {d \in Chats : agent'[d] = a} = Of(a) \cup {c} /\ c \notin Of(a)
  BY <1>1 DEF TypeOK
<1>3. IsFiniteSet(Of(a))  BY AutoAssumption, FS_Subset
<1>4. Cardinality(Of(a) \cup {c}) = Cardinality(Of(a)) + 1  BY <1>2, <1>3, FS_AddElement
<1>5. ASSUME NEW b \in Agents, b # a PROVE {d \in Chats : agent'[d] = b} = Of(b)
  BY <1>1, <1>5 DEF TypeOK
<1> QED BY <1>2, <1>4, <1>5 DEF Load

-----------------------------------------------------------------------------
(* The steps of presence and of the agents change nothing of the runs.     *)
Outside ==
  \/ \E s \in Sockets : \/ Connect(s) \/ RegisterConnection(s) \/ RejectConnection(s)
                        \/ Disconnect(s) \/ RegisterDisconnect(s)
  \/ \E a \in Agents : LogIn(a) \/ LogOut(a) \/ MarkDisconnectedByUser(a)

LEMMA OutsideKeeps ==
  ASSUME Inv, Outside
  PROVE  TypeOK' /\ UNCHANGED <<agent, runVars, meddled>>
<1> USE DEF Inv, TypeOK, runVars
<1>1. ASSUME NEW s \in Sockets, Connect(s) PROVE TypeOK' /\ UNCHANGED <<agent, runVars, meddled>>
  BY <1>1 DEF Connect
<1>2. ASSUME NEW s \in Sockets, RegisterConnection(s) PROVE TypeOK' /\ UNCHANGED <<agent, runVars, meddled>>
  BY <1>2 DEF RegisterConnection
<1>3. ASSUME NEW s \in Sockets, RejectConnection(s) PROVE TypeOK' /\ UNCHANGED <<agent, runVars, meddled>>
  BY <1>3 DEF RejectConnection
<1>4. ASSUME NEW s \in Sockets, Disconnect(s) PROVE TypeOK' /\ UNCHANGED <<agent, runVars, meddled>>
  BY <1>4 DEF Disconnect
<1>5. ASSUME NEW s \in Sockets, RegisterDisconnect(s) PROVE TypeOK' /\ UNCHANGED <<agent, runVars, meddled>>
  BY <1>5 DEF RegisterDisconnect
<1>6. ASSUME NEW a \in Agents, LogIn(a) PROVE TypeOK' /\ UNCHANGED <<agent, runVars, meddled>>
  BY <1>6 DEF LogIn
<1>7. ASSUME NEW a \in Agents, LogOut(a) PROVE TypeOK' /\ UNCHANGED <<agent, runVars, meddled>>
  BY <1>7 DEF LogOut
<1>8. ASSUME NEW a \in Agents, MarkDisconnectedByUser(a)
      PROVE  TypeOK' /\ UNCHANGED <<agent, runVars, meddled>>
  BY <1>8 DEF MarkDisconnectedByUser
<1> QED BY <1>1, <1>2, <1>3, <1>4, <1>5, <1>6, <1>7, <1>8 DEF Outside

LEMMA UnchangedKeeps ==
  ASSUME Inv, TypeOK', UNCHANGED <<agent, runVars, meddled>>
  PROVE  Inv'
<1>1. Exclusive' /\ TurnTaken'  BY DEF Inv, Exclusive, TurnTaken, runVars
<1>2. ReadsAreTrue' <=> ReadsAreTrue
  BY DEF ReadsAreTrue, QueueIsTrue, LoadsAreTrue, HasRoom, Load, Distinct, runVars
<1> QED BY <1>1, <1>2 DEF Inv

(* A run goes from one step of the cycle to another: it has the lock, and  *)
(* the others are idle.                                                    *)
LEMMA Moved ==
  ASSUME Inv, NEW r \in Runs, pc[r] # "idle", NEW l \in Steps \ {"idle"}, Goto(r, l), lock' = lock
  PROVE  /\ pc' \in [Runs -> Steps] /\ Exclusive'
         /\ pc'[r] = l /\ \A q \in Runs : q # r => pc'[q] = "idle"
<1>1. pc \in [Runs -> Steps] /\ Exclusive  BY DEF Inv, TypeOK, Steps
<1>2. pc' = [pc EXCEPT ![r] = l]  BY DEF Goto
<1>3. lock = r /\ \A q \in Runs : q # r => pc[q] = "idle"  BY <1>1 DEF Exclusive
<1> QED BY <1>1, <1>2, <1>3 DEF Exclusive

LEMMA Ended ==
  ASSUME Inv, NEW r \in Runs, pc[r] # "idle", End(r), TypeOK', lock' = lock
  PROVE  Inv'
<1>1. Exclusive' /\ pc'[r] = "unlock" /\ \A q \in Runs : q # r => pc'[q] = "idle"
  BY Moved DEF End, Steps
<1>2. \A q \in Runs : pc'[q] \notin {"loads", "each", "assign"}  BY <1>1
<1> QED BY <1>1, <1>2 DEF Inv, TurnTaken, ReadsAreTrue

LEMMA LockTaken ==
  ASSUME Inv, NEW r \in Runs, TryLock(r)
  PROVE  Inv'
<1>1. pc \in [Runs -> Steps] /\ Exclusive /\ lock = NoRun /\ NoRun \notin Runs
  BY AutoAssumption DEF Inv, TypeOK, Steps, TryLock
<1>2. pc' = [pc EXCEPT ![r] = "agents"] /\ lock' = r  BY DEF TryLock, Goto
<1>3. \A q \in Runs : pc[q] = "idle"  BY <1>1 DEF Exclusive
<1>4. \A q \in Runs : pc'[q] = IF q = r THEN "agents" ELSE "idle"  BY <1>1, <1>2, <1>3
<1>5. TypeOK'
  BY <1>1, <1>2 DEF TryLock, Inv, TypeOK, presenceVars, Steps
<1>6. Exclusive'  BY <1>2, <1>4 DEF Exclusive
<1> QED BY <1>4, <1>5, <1>6 DEF Inv, TurnTaken, ReadsAreTrue

LEMMA ManualKeeps ==
  ASSUME Inv, NEW c \in Chats, NEW a \in Agents \cup {NoAgent}, Manual(c, a)
  PROVE  Inv'
<1>1. agent' = [agent EXCEPT ![c] = a] /\ manual < MaxManual /\ manual' = manual + 1
  BY DEF Manual
<1>2. TypeOK'
  <2>1. manual' \in 0..MaxManual  BY <1>1, AutoAssumption DEF Inv, TypeOK
  <2>2. agent' \in [Chats -> Agents \cup {NoAgent}]  BY <1>1 DEF Inv, TypeOK
  <2> QED BY <2>1, <2>2 DEF Manual, Inv, TypeOK, presenceVars, runVars
<1>3. Exclusive' /\ TurnTaken'  BY DEF Manual, Inv, Exclusive, TurnTaken, runVars
<1>4. CASE lock # NoRun  BY <1>2, <1>3, <1>4 DEF Inv, Manual
<1>5. CASE lock = NoRun
  <2>1. \A r \in Runs : pc'[r] = "idle"
    BY <1>5, AutoAssumption DEF Manual, runVars, Inv, Exclusive
  <2> QED BY <1>2, <1>3, <2>1 DEF Inv, ReadsAreTrue
<1> QED BY <1>4, <1>5

-----------------------------------------------------------------------------
(* The cycle reads.                                                        *)
LEMMA ConnectedListed ==
  ASSUME Inv, NEW r \in Runs, ListConnectedRows(r)
  PROVE  Inv'
<1>1. pc[r] = "agents" /\ lock' = lock  BY DEF ListConnectedRows
<1>2. CASE End(r)
  <2>1. pc' \in [Runs -> Steps]  BY <1>1, <1>2, Moved DEF End, Steps
  <2>2. TypeOK'  BY <2>1 DEF ListConnectedRows, Inv, TypeOK, presenceVars, Steps
  <2> QED BY <1>1, <1>2, <2>2, Ended
<1>3. CASE Goto(r, "sessions")
  <2>1. /\ pc' \in [Runs -> Steps] /\ Exclusive'
        /\ pc'[r] = "sessions" /\ \A q \in Runs : q # r => pc'[q] = "idle"
    BY <1>1, <1>3, Moved DEF Steps
  <2>2. TypeOK'  BY <2>1 DEF ListConnectedRows, Inv, TypeOK, presenceVars, Steps
  <2>3. \A q \in Runs : pc'[q] \notin {"loads", "each", "assign"}  BY <2>1
  <2> QED BY <2>1, <2>2, <2>3 DEF Inv, TurnTaken, ReadsAreTrue
<1> QED BY <1>2, <1>3 DEF ListConnectedRows

LEMMA ActiveKept ==
  ASSUME Inv, NEW r \in Runs, KeepActive(r)
  PROVE  Inv'
<1>1. pc[r] = "sessions" /\ lock' = lock  BY DEF KeepActive
<1>2. listed' \subseteq Sockets /\ connected' \subseteq Sockets
  BY DEF KeepActive, Inv, TypeOK
<1>3. CASE End(r)
  <2>1. pc' \in [Runs -> Steps]  BY <1>1, <1>3, Moved DEF End, Steps
  <2>2. TypeOK'  BY <1>2, <2>1 DEF KeepActive, Inv, TypeOK, Steps
  <2> QED BY <1>1, <1>3, <2>2, Ended
<1>4. CASE Goto(r, "chats")
  <2>1. /\ pc' \in [Runs -> Steps] /\ Exclusive'
        /\ pc'[r] = "chats" /\ \A q \in Runs : q # r => pc'[q] = "idle"
    BY <1>1, <1>4, Moved DEF Steps
  <2>2. TypeOK'  BY <1>2, <2>1 DEF KeepActive, Inv, TypeOK, Steps
  <2>3. \A q \in Runs : pc'[q] \notin {"loads", "each", "assign"}  BY <2>1
  <2> QED BY <2>1, <2>2, <2>3 DEF Inv, TurnTaken, ReadsAreTrue
<1> QED BY <1>3, <1>4 DEF KeepActive

LEMMA UnassignedListed ==
  ASSUME Inv, NEW r \in Runs, ListUnassigned(r)
  PROVE  Inv'
<1>1. pc[r] = "chats" /\ lock' = lock /\ agent' = agent /\ meddled' = meddled  BY DEF ListUnassigned
<1>2. queue' \in Seq(Waiting) /\ Distinct(queue')
  <2>1. IsFiniteSet(Waiting)  BY AutoAssumption, FS_Subset DEF Waiting
  <2> QED BY <2>1, OrderIs DEF ListUnassigned
<1>3. queue' \in Seq(Chats) /\ \A i \in 1..Len(queue') : agent[queue'[i]] = NoAgent
  BY <1>2 DEF Waiting
<1>4. CASE End(r)
  <2>1. pc' \in [Runs -> Steps]  BY <1>1, <1>4, Moved DEF End, Steps
  <2>2. TypeOK'  BY <1>3, <2>1 DEF ListUnassigned, Inv, TypeOK, presenceVars, Steps
  <2> QED BY <1>1, <1>4, <2>2, Ended
<1>5. CASE Goto(r, "loads")
  <2>1. /\ pc' \in [Runs -> Steps] /\ Exclusive'
        /\ pc'[r] = "loads" /\ \A q \in Runs : q # r => pc'[q] = "idle"
    BY <1>1, <1>5, Moved DEF Steps
  <2>2. TypeOK'  BY <1>3, <2>1 DEF ListUnassigned, Inv, TypeOK, presenceVars, Steps
  <2>3. \A q \in Runs : pc'[q] \notin {"each", "assign"}  BY <2>1
  <2>4. QueueIsTrue'  BY <1>1, <1>2, <1>3 DEF QueueIsTrue
  <2> QED BY <2>1, <2>2, <2>3, <2>4 DEF Inv, TurnTaken, ReadsAreTrue
<1> QED BY <1>4, <1>5 DEF ListUnassigned

LEMMA LoadsRead ==
  ASSUME Inv, NEW r \in Runs, ReadLoads(r)
  PROVE  Inv'
<1>1. /\ pc[r] = "loads" /\ Goto(r, "each")
      /\ lock' = lock /\ agent' = agent /\ meddled' = meddled /\ queue' = queue
      /\ load' = [a \in Agents |-> Load(a)]
  BY DEF ReadLoads
<1>2. /\ pc' \in [Runs -> Steps] /\ Exclusive'
      /\ pc'[r] = "each" /\ \A q \in Runs : q # r => pc'[q] = "idle"
  BY <1>1, Moved DEF Steps
<1>3. list' \in Seq(Agents)
  <2>1. PICK order \in SetToSeqs(listed) : list' = [i \in DOMAIN order |-> Owner[order[i]]]
    BY DEF ReadLoads
  <2>2. IsFiniteSet(listed)  BY AutoAssumption, FS_Subset DEF Inv, TypeOK
  <2>3. order \in Seq(listed) /\ listed \subseteq Sockets  BY <2>2, OrderIs DEF Inv, TypeOK
  <2>4. \A i \in 1..Len(order) : Owner[order[i]] \in Agents  BY <2>3, AutoAssumption
  <2>5. PICK n \in Nat : n = Len(order) /\ DOMAIN order = 1..n  BY <2>3
  <2>6. list' \in [1..n -> Agents]  BY <2>1, <2>4, <2>5
  <2> QED BY <2>5, <2>6
<1>4. TypeOK'
  BY <1>1, <1>2, <1>3, LoadType DEF ReadLoads, Inv, TypeOK, presenceVars, Steps
<1>5. LoadsAreTrue'  BY <1>1 DEF LoadsAreTrue, Load
<1>6. ~meddled' => QueueIsTrue'  BY <1>1 DEF Inv, ReadsAreTrue, QueueIsTrue
<1>7. \A q \in Runs : pc'[q] # "assign"  BY <1>2
<1> QED BY <1>2, <1>4, <1>5, <1>6, <1>7 DEF Inv, TurnTaken, ReadsAreTrue

-----------------------------------------------------------------------------
(* The cycle decides and writes.                                           *)
LEMMA Considered ==
  ASSUME Inv, NEW r \in Runs, Consider(r)
  PROVE  Inv'
<1> DEFINE a == Head(list)
<1>1. /\ pc[r] = "each" /\ list # <<>> /\ queue # <<>>
      /\ UNCHANGED <<agent, presenceVars, lock, listed, load, given, manual, meddled>>
  BY DEF Consider
<1>2. /\ list \in Seq(Agents) /\ Tail(list) \in Seq(Agents) /\ a \in Agents
      /\ queue \in Seq(Chats) /\ pc \in [Runs -> Steps]
  BY <1>1, HeadAndTail DEF Inv, TypeOK, Steps
<1>3. ~meddled => QueueIsTrue /\ LoadsAreTrue  BY <1>1 DEF Inv, ReadsAreTrue
<1>4. ~meddled => LoadsAreTrue'  BY <1>1, <1>3 DEF LoadsAreTrue, Load
<1>5. CASE ~HasRoom(a) /\ list' = Tail(list) /\ UNCHANGED <<pc, queue>>
  <2>1. TypeOK'  BY <1>1, <1>2, <1>5 DEF Inv, TypeOK, presenceVars
  <2>2. Exclusive' /\ TurnTaken'
    <3>1. \A q \in Runs : pc[q] # "assign"  BY <1>1 DEF Inv, Exclusive
    <3> QED BY <1>1, <1>5, <3>1 DEF Inv, Exclusive, TurnTaken
  <2>3. ~meddled => QueueIsTrue'  BY <1>1, <1>3, <1>5 DEF QueueIsTrue
  <2>4. \A q \in Runs : pc'[q] # "assign"  BY <1>1, <1>5 DEF Inv, Exclusive
  <2> QED BY <1>1, <1>4, <2>1, <2>2, <2>3, <2>4 DEF Inv, ReadsAreTrue
<1>6. CASE list' = Tail(list) /\ queue' = Append(Tail(queue), Head(queue)) /\ UNCHANGED pc
  <2>1. queue' \in Seq(Chats)  BY <1>1, <1>2, <1>6, HeadAndTail
  <2>2. TypeOK'  BY <1>1, <1>2, <1>6, <2>1 DEF Inv, TypeOK, presenceVars
  <2>3. \A q \in Runs : pc'[q] # "assign"  BY <1>1, <1>6 DEF Inv, Exclusive
  <2>4. Exclusive' /\ TurnTaken'  BY <1>1, <1>6, <2>3 DEF Inv, Exclusive, TurnTaken
  <2>5. ~meddled => QueueIsTrue'
    <3> SUFFICES ASSUME ~meddled PROVE QueueIsTrue'
      OBVIOUS
    <3>1. QueueIsTrue  BY <1>3
    <3>2. queue \in Seq(Chats) /\ queue # <<>> /\ Distinct(queue)
      BY <1>1, <1>2, <3>1 DEF QueueIsTrue
    <3>3. /\ Distinct(Rotation(queue))
          /\ \A i \in 1..Len(Rotation(queue)) : \E k \in 1..Len(queue) : Rotation(queue)[i] = queue[k]
      BY <3>2, Rotated
    <3>4. queue' = Rotation(queue)  BY <1>6 DEF Rotation
    <3> QED BY <1>1, <3>1, <3>3, <3>4 DEF QueueIsTrue
  <2> QED BY <1>1, <1>4, <2>2, <2>3, <2>4, <2>5 DEF Inv, ReadsAreTrue
<1>7. CASE HasRoom(a) /\ Goto(r, "assign") /\ UNCHANGED <<list, queue>>
  <2>1. /\ pc' \in [Runs -> Steps] /\ Exclusive'
        /\ pc'[r] = "assign" /\ \A q \in Runs : q # r => pc'[q] = "idle"
    BY <1>1, <1>7, Moved DEF Steps
  <2>2. TypeOK'  BY <1>1, <1>7, <2>1 DEF Inv, TypeOK, presenceVars, Steps
  <2>3. TurnTaken'  BY <1>1, <1>7 DEF TurnTaken
  <2>4. ~meddled => QueueIsTrue'  BY <1>1, <1>3, <1>7 DEF QueueIsTrue
  <2>5. HasRoom(Head(list))'  BY <1>1, <1>7 DEF HasRoom
  <2> QED BY <1>1, <1>4, <2>1, <2>2, <2>3, <2>4, <2>5 DEF Inv, ReadsAreTrue
<1> QED BY <1>5, <1>6, <1>7 DEF Consider

LEMMA Assigned ==
  ASSUME Inv, NEW r \in Runs, Assign(r)
  PROVE  Inv'
<1>1. pc[r] = "assign" /\ lock' = lock /\ meddled' = meddled /\ list # <<>> /\ queue # <<>>
  BY DEF Assign, Inv, TurnTaken
<1>2. PICK a \in Agents : a = Head(list)  BY <1>1, HeadAndTail DEF Inv, TypeOK
<1>3. PICK c \in Chats : c = Head(queue)  BY <1>1, HeadAndTail DEF Inv, TypeOK
<1>4. /\ agent' = [agent EXCEPT ![c] = a] /\ load' = [load EXCEPT ![a] = load[a] + 1]
      /\ given' = [given EXCEPT ![a] = given[a] + 1]
      /\ list' = Tail(list) /\ queue' = Tail(queue) /\ Goto(r, "each")
      /\ UNCHANGED <<presenceVars, listed, manual>>
  BY <1>2, <1>3 DEF Assign
<1>5. /\ pc' \in [Runs -> Steps] /\ Exclusive'
      /\ pc'[r] = "each" /\ \A q \in Runs : q # r => pc'[q] = "idle"
  BY <1>1, <1>4, Moved DEF Steps
<1>6. TypeOK'
  <2>1. list' \in Seq(Agents) /\ queue' \in Seq(Chats)
    BY <1>1, <1>4, HeadAndTail DEF Inv, TypeOK
  <2>2. load' \in [Agents -> Nat] /\ given' \in [Agents -> Nat]  BY <1>4 DEF Inv, TypeOK
  <2>3. agent' \in [Chats -> Agents \cup {NoAgent}]  BY <1>4 DEF Inv, TypeOK
  <2> QED BY <1>1, <1>4, <1>5, <2>1, <2>2, <2>3 DEF Inv, TypeOK, presenceVars, Steps
<1>7. ASSUME ~meddled PROVE QueueIsTrue' /\ LoadsAreTrue'
  <2>1. QueueIsTrue /\ LoadsAreTrue /\ queue \in Seq(Chats)
    BY <1>1, <1>7 DEF Inv, TypeOK, ReadsAreTrue
  <2>2. /\ Distinct(Tail(queue)) /\ \A i \in 1..Len(Tail(queue)) : Tail(queue)[i] # c
    BY <1>1, <1>3, <2>1, TailDistinct DEF QueueIsTrue
  <2>3. \A i \in 1..Len(Tail(queue)) : Tail(queue)[i] = queue[i + 1] /\ i + 1 \in 1..Len(queue)
    BY <1>1, <2>1, HeadAndTail
  <2>4. \A i \in 1..Len(Tail(queue)) : agent[Tail(queue)[i]] = NoAgent /\ Tail(queue)[i] \in Chats
    BY <2>1, <2>3 DEF QueueIsTrue
  <2>5. \A i \in 1..Len(Tail(queue)) : agent'[Tail(queue)[i]] = NoAgent
    BY <1>4, <2>2, <2>4 DEF Inv, TypeOK
  <2>6. QueueIsTrue'  BY <1>4, <2>2, <2>5 DEF QueueIsTrue
  <2>7. agent[c] = NoAgent
    <3>1. c = queue[1] /\ 1 \in 1..Len(queue)  BY <1>1, <1>3, <2>1, HeadAndTail
    <3> QED BY <2>1, <3>1 DEF QueueIsTrue
  <2>8. /\ Load(a)' = Load(a) + 1 /\ \A b \in Agents : b # a => Load(b)' = Load(b)
    BY <1>4, <2>7, LoadGrows DEF Inv
  <2>9. \A b \in Agents : load'[b] = Load(b)'
    <3>1. load \in [Agents -> Nat] /\ \A b \in Agents : load[b] = Load(b)
      BY <2>1 DEF Inv, TypeOK, LoadsAreTrue
    <3> QED BY <1>4, <2>8, <3>1
  <2> QED BY <2>6, <2>9 DEF LoadsAreTrue
<1>8. \A q \in Runs : pc'[q] # "assign"  BY <1>5
<1> QED BY <1>1, <1>5, <1>6, <1>7, <1>8 DEF Inv, TurnTaken, ReadsAreTrue

LEMMA Over ==
  ASSUME Inv, NEW r \in Runs, CycleEnds(r) \/ Fail(r)
  PROVE  Inv'
<1>1. /\ pc[r] # "idle" /\ End(r) /\ lock' = lock
      /\ UNCHANGED <<agent, presenceVars, lock, listed, list, queue, load, given, manual, meddled>>
  BY DEF CycleEnds, Fail
<1>2. pc' \in [Runs -> Steps]  BY <1>1, Moved DEF End, Steps
<1>3. TypeOK'  BY <1>1, <1>2 DEF Inv, TypeOK, presenceVars, Steps
<1> QED BY <1>1, <1>3, Ended

LEMMA Unlocked ==
  ASSUME Inv, NEW r \in Runs, Unlock(r)
  PROVE  Inv'
<1>1. pc \in [Runs -> Steps] /\ Exclusive /\ pc[r] = "unlock" /\ NoRun \notin Runs
  BY AutoAssumption DEF Inv, TypeOK, Steps, Unlock
<1>2. pc' = [pc EXCEPT ![r] = "idle"] /\ lock' = NoRun  BY DEF Unlock, Goto
<1>3. \A q \in Runs : pc'[q] = "idle"  BY <1>1, <1>2 DEF Exclusive
<1>4. TypeOK'
  <2>1. list' \in Seq(Agents) /\ queue' \in Seq(Chats)  BY DEF Unlock
  <2>2. load' \in [Agents -> Nat] /\ given' \in [Agents -> Nat]  BY DEF Unlock, NoneGiven
  <2> QED BY <1>1, <1>2, <2>1, <2>2 DEF Unlock, Inv, TypeOK, presenceVars, Steps
<1>5. Exclusive'  BY <1>1, <1>2, <1>3 DEF Exclusive
<1> QED BY <1>3, <1>4, <1>5 DEF Inv, TurnTaken, ReadsAreTrue

-----------------------------------------------------------------------------
(* The results.                                                            *)
LEMMA InvInit == Init => Inv
<1> SUFFICES ASSUME Init PROVE Inv
  OBVIOUS
<1>1. TypeOK
  <2>1. list \in Seq(Agents) /\ queue \in Seq(Chats)  BY DEF Init
  <2>2. manual \in 0..MaxManual  BY AutoAssumption DEF Init
  <2> QED BY <2>1, <2>2 DEF Init, TypeOK, NoneGiven
<1>2. \A r \in Runs : pc[r] = "idle"  BY DEF Init
<1>3. Exclusive  BY <1>2, AutoAssumption DEF Init, Exclusive
<1> QED BY <1>1, <1>2, <1>3 DEF Inv, TurnTaken, ReadsAreTrue

(* One run of chatAutoAssignmentService.js is under way at a time, and     *)
(* without a manual operation in its middle what it has read stays true:   *)
(* its chats wait, each once, and its loads count what it gives.           *)
THEOREM Invariant == Spec => []Inv
<1>1. Inv /\ [Next]_vars => Inv'
  <2> SUFFICES ASSUME Inv, [Next]_vars PROVE Inv'
    OBVIOUS
  <2>1. CASE Outside  BY <2>1, OutsideKeeps, UnchangedKeeps
  <2>2. CASE \E c \in Chats, a \in Agents \cup {NoAgent} : Manual(c, a)  BY <2>2, ManualKeeps
  <2>3. CASE \E r \in Runs : TryLock(r) \/ RunStep(r) \/ Fail(r)
    BY <2>3, LockTaken, ConnectedListed, ActiveKept, UnassignedListed, LoadsRead, Considered,
       Assigned, Over, Unlocked DEF RunStep
  <2>4. CASE UNCHANGED vars
    <3>1. TypeOK' /\ UNCHANGED <<agent, runVars, meddled>>
      BY <2>4 DEF vars, presenceVars, runVars, Inv, TypeOK
    <3> QED BY <3>1, UnchangedKeeps
  <2> QED BY <2>1, <2>2, <2>3, <2>4 DEF Next, Outside
<1> QED BY InvInit, <1>1, PTL DEF Spec

(* Every variable of the cycle and of presence keeps its type.             *)
THEOREM Typed == Spec => []TypeOK
<1>1. Inv => TypeOK  BY DEF Inv
<1> QED BY Invariant, <1>1, PTL

(* Two runs of the cycle, in any processes, are never under way together   *)
(* (pg_try_advisory_lock 'chat_auto_assign').                              *)
THEOREM OneCycle == Spec => []Exclusive
<1>1. Inv => Exclusive  BY DEF Inv
<1> QED BY Invariant, <1>1, PTL

(* A cycle gives away only chats that nobody has, and to agents below      *)
(* maxChatsPerAgent, unless a manual operation came in its middle.         *)
THEOREM CyclesNeverClash == Spec => CyclesDoNotClash
<1>1. Inv => [\A r \in Runs : Assign(r) /\ ~meddled =>
                 /\ agent[Head(queue)] = NoAgent
                 /\ Load(Head(list)) < MaxChats]_vars
  <2> SUFFICES ASSUME Inv, NEW r \in Runs, Assign(r), ~meddled
               PROVE  agent[Head(queue)] = NoAgent /\ Load(Head(list)) < MaxChats
    OBVIOUS
  <2>1. /\ pc[r] = "assign" /\ list # <<>> /\ queue # <<>>
        /\ QueueIsTrue /\ LoadsAreTrue /\ HasRoom(Head(list))
    BY DEF Assign, Inv, TurnTaken, ReadsAreTrue
  <2>2. /\ Head(list) \in Agents /\ Head(queue) = queue[1] /\ 1 \in 1..Len(queue)
    BY <2>1, HeadAndTail DEF Inv, TypeOK
  <2> QED BY <2>1, <2>2 DEF QueueIsTrue, LoadsAreTrue, HasRoom
<1> QED BY Invariant, <1>1, PTL DEF CyclesDoNotClash

=============================================================================
