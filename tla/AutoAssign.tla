----------------------------- MODULE AutoAssign -----------------------------
(***************************************************************************)
(* The assignment cycle (services/chatAutoAssignmentService.js) and the    *)
(* presence it feeds on (services/userConnectionService.js, table          *)
(* user_connections).  A timer, an inbound message and a connecting agent  *)
(* all call runAutoAssignmentLocked, in any process, so several runs are   *)
(* in flight; an advisory lock of PostgreSQL lets one in and sends the     *)
(* others away.  Meanwhile agents and supervisors take and release chats,  *)
(* which ChatLifecycle describes in detail: here they are the one action   *)
(* Manual.  A step of a run is what it does between two awaits.            *)
(***************************************************************************)
EXTENDS Naturals, Sequences, SequencesExt

CONSTANTS
  Chats, Agents,
  Members,       \* Members[c]: the agents linked to the queue of chat c
  Sockets,       \* Socket.IO connections over time
  Owner,         \* Owner[s]: the agent whose browser opened socket s
  Runs, NoRun,   \* calls of runAutoAssignmentLocked
  NoAgent,
  MaxChats,      \* settings.maxChatsPerAgent
  MaxManual      \* bound on the manual operations

ASSUME AutoAssumption ==
  /\ IsFiniteSet(Chats) /\ IsFiniteSet(Sockets)
  /\ Owner \in [Sockets -> Agents]
  /\ \A c \in Chats : Members[c] \subseteq Agents
  /\ NoRun \notin Runs /\ NoAgent \notin Agents
  /\ MaxChats \in Nat \ {0} /\ MaxManual \in Nat

VARIABLES
  agent,     \* agent[c]: the agent of an OPEN chat, NoAgent if it is UNASSIGNED
  socket,    \* life of a socket: "new", "open", "closed"
  join,      \* registerConnection: "no", "verify" (token check under way), "done"
  part,      \* registerDisconnect: "no", "update" (statement under way), "done"
  connected, \* sockets whose row in user_connections says so
  sessions,  \* agents with a session key in Redis
  lock,      \* holder of the advisory lock 'chat_auto_assign'
  pc,        \* where each run is
  listed,    \* the holder's local variables: sockets listed (eligibleAgents),
  list, queue, load,         \* turns left, chats left, loadMap,
  given,     \* and what it has given to each agent
  manual,    \* manual operations so far
  meddled    \* history: one came between the reads of the present cycle and now

presenceVars == <<socket, join, part, connected, sessions>>
runVars == <<lock, pc, listed, list, queue, load, given>>
vars == <<agent, presenceVars, runVars, manual, meddled>>

Waiting == {c \in Chats : agent[c] = NoAgent}
Load(a) == Cardinality({c \in Chats : agent[c] = a})
NoneGiven == [a \in Agents |-> 0]

Init ==
  /\ agent = [c \in Chats |-> NoAgent]
  /\ socket = [s \in Sockets |-> "new"]
  /\ join = [s \in Sockets |-> "no"]
  /\ part = [s \in Sockets |-> "no"]
  /\ connected = {}
  /\ sessions = Agents
  /\ lock = NoRun
  /\ pc = [r \in Runs |-> "idle"]
  /\ listed = {} /\ list = <<>> /\ queue = <<>>
  /\ load = NoneGiven /\ given = NoneGiven
  /\ manual = 0 /\ meddled = FALSE

-----------------------------------------------------------------------------
(* Presence: connecting verifies the token and then upserts the row of the *)
(* socket; disconnecting updates it, if there is one.                      *)
Connect(s) ==
  /\ socket[s] = "new" /\ Owner[s] \in sessions
  /\ socket' = [socket EXCEPT ![s] = "open"]
  /\ join' = [join EXCEPT ![s] = "verify"]
  /\ UNCHANGED <<agent, part, connected, sessions, runVars, manual, meddled>>

RegisterConnection(s) ==
  /\ join[s] = "verify"
  /\ join' = [join EXCEPT ![s] = "done"]
  /\ connected' = connected \cup {s}
  /\ UNCHANGED <<agent, socket, part, sessions, runVars, manual, meddled>>

(* The token is not that of the user's session any more, or a statement    *)
(* fails: the server closes the socket, if it is still open.               *)
RejectConnection(s) ==
  /\ join[s] = "verify"
  /\ join' = [join EXCEPT ![s] = "done"]
  /\ socket' = [socket EXCEPT ![s] = "closed"]
  /\ part' = [part EXCEPT ![s] = IF @ = "no" THEN "update" ELSE @]
  /\ UNCHANGED <<agent, connected, sessions, runVars, manual, meddled>>

Disconnect(s) ==
  /\ socket[s] = "open"
  /\ socket' = [socket EXCEPT ![s] = "closed"]
  /\ part' = [part EXCEPT ![s] = "update"]
  /\ UNCHANGED <<agent, join, connected, sessions, runVars, manual, meddled>>

RegisterDisconnect(s) ==
  /\ part[s] = "update"
  /\ part' = [part EXCEPT ![s] = "done"]
  /\ connected' = connected \ {s}
  /\ UNCHANGED <<agent, socket, join, sessions, runVars, manual, meddled>>

(* login stores a session key in Redis; logout, forceLogout and its TTL    *)
(* remove it, and the first two then try to mark the user's rows.          *)
LogIn(a) ==
  /\ a \notin sessions
  /\ sessions' = sessions \cup {a}
  /\ UNCHANGED <<agent, socket, join, part, connected, runVars, manual, meddled>>

LogOut(a) ==
  /\ a \in sessions
  /\ sessions' = sessions \ {a}
  /\ UNCHANGED <<agent, socket, join, part, connected, runVars, manual, meddled>>

MarkDisconnectedByUser(a) ==
  /\ a \notin sessions
  /\ connected' = {s \in connected : Owner[s] # a}
  /\ UNCHANGED <<agent, socket, join, part, sessions, runVars, manual, meddled>>

-----------------------------------------------------------------------------
(* Somebody takes a chat, is handed one, releases one.                     *)
Manual(c, a) ==
  /\ manual < MaxManual
  /\ agent[c] # a
  /\ a # NoAgent => a \in Members[c]
  /\ agent' = [agent EXCEPT ![c] = a]
  /\ manual' = manual + 1
  /\ meddled' = (lock # NoRun)
  /\ UNCHANGED <<presenceVars, runVars>>

-----------------------------------------------------------------------------
(* runAutoAssignmentLocked.  The local variables of a run are those of the *)
(* lock's holder, there being no other.                                    *)
Goto(r, l) == pc' = [pc EXCEPT ![r] = l]

TryLockAnyway(r) ==  \* mutant
  /\ pc[r] = "idle"
  /\ lock' = r
  /\ Goto(r, "agents")
  /\ meddled' = FALSE
  /\ UNCHANGED <<agent, presenceVars, listed, list, queue, load, given, manual>>

(* pg_try_advisory_lock answers at once; a run that does not get the lock  *)
(* returns without a trace, so only the other answer is a step.            *)
TryLock(r) ==
  /\ pc[r] = "idle" /\ lock = NoRun
  /\ lock' = r
  /\ Goto(r, "agents")
  /\ meddled' = FALSE
  /\ UNCHANGED <<agent, presenceVars, listed, list, queue, load, given, manual>>

End(r) == Goto(r, "unlock")

(* listConnectedAgents: the rows that say connected, one per socket; then  *)
(* those of users with a session in Redis, the others being marked         *)
(* disconnected if that update works.  Without Redis the rows stand.       *)
ListConnectedRows(r) ==
  /\ pc[r] = "agents"
  /\ listed' = connected
  /\ IF connected = {} THEN End(r) ELSE Goto(r, "sessions")
  /\ UNCHANGED <<agent, presenceVars, lock, list, queue, load, given, manual, meddled>>

KeepActive(r) ==
  /\ pc[r] = "sessions"
  /\ LET active == {s \in listed : Owner[s] \in sessions}
         stale == {Owner[s] : s \in listed \ active} IN
     \/ /\ listed' = active
        /\ connected' \in {connected, {s \in connected : Owner[s] \notin stale}}
        /\ IF active = {} THEN End(r) ELSE Goto(r, "chats")
     \/ /\ Goto(r, "chats")
        /\ UNCHANGED <<listed, connected>>
  /\ UNCHANGED <<agent, socket, join, part, sessions, lock, list, queue, load, given, manual, meddled>>

(* listUnassignedChats: by last message, an order the cycle does not       *)
(* choose.                                                                 *)
ListUnassigned(r) ==
  /\ pc[r] = "chats"
  /\ queue' \in SetToSeqs(Waiting)
  /\ IF Waiting = {} THEN End(r) ELSE Goto(r, "loads")
  /\ UNCHANGED <<agent, presenceVars, lock, listed, list, load, given, manual, meddled>>

(* getOpenChatCountsByAgent and the sort of the agents by load.            *)
ReadLoads(r) ==
  /\ pc[r] = "loads"
  /\ load' = [a \in Agents |-> Load(a)]
  /\ \E order \in SetToSeqs(listed) :
       /\ \A i, k \in DOMAIN order : i < k => Load(Owner[order[i]]) <= Load(Owner[order[k]])
       /\ list' = [i \in DOMAIN order |-> Owner[order[i]]]
  /\ Goto(r, "each")
  /\ UNCHANGED <<agent, presenceVars, lock, listed, queue, given, manual, meddled>>

HasRoomOneMore(a) ==  \* mutant
  load[a] <= MaxChats

HasRoom(a) == load[a] < MaxChats

ConsiderRetries(r) ==  \* mutant
  /\ pc[r] = "each"
  /\ list # <<>> /\ queue # <<>>
  /\ LET a == Head(list) IN
     \/ /\ ~HasRoom(a)
        /\ list' = Tail(list)
        /\ UNCHANGED <<pc, queue>>
     \/ /\ HasRoom(a) /\ a \notin Members[Head(queue)]
        /\ queue' = Append(Tail(queue), Head(queue))
        /\ UNCHANGED <<pc, list>>
     \/ /\ HasRoom(a) /\ a \in Members[Head(queue)]
        /\ Goto(r, "assign")
        /\ UNCHANGED <<list, queue>>
  /\ UNCHANGED <<agent, presenceVars, lock, listed, load, given, manual, meddled>>

(* One turn of the loop, up to the update: an agent at its limit is passed *)
(* over; the first chat goes to the end of the queue when the agent is not *)
(* in its queue, and the agent's turn is over either way.                  *)
Consider(r) ==
  /\ pc[r] = "each"
  /\ list # <<>> /\ queue # <<>>
  /\ LET a == Head(list) IN
     \/ /\ ~HasRoom(a)
        /\ list' = Tail(list)
        /\ UNCHANGED <<pc, queue>>
     \/ /\ HasRoom(a) /\ a \notin Members[Head(queue)]
        /\ list' = Tail(list)
        /\ queue' = Append(Tail(queue), Head(queue))
        /\ UNCHANGED pc
     \/ /\ HasRoom(a) /\ a \in Members[Head(queue)]
        /\ Goto(r, "assign")
        /\ UNCHANGED <<list, queue>>
  /\ UNCHANGED <<agent, presenceVars, lock, listed, load, given, manual, meddled>>

(* maxAssignmentsThisCycle is at least the number of turns, or of chats:   *)
(* the break it controls never comes before the loop's own end.            *)
Assign(r) ==
  /\ pc[r] = "assign"
  /\ LET a == Head(list) IN
     /\ agent' = [agent EXCEPT ![Head(queue)] = a]
     /\ load' = [load EXCEPT ![a] = @ + 1]
     /\ given' = [given EXCEPT ![a] = @ + 1]
  /\ list' = Tail(list)
  /\ queue' = Tail(queue)
  /\ Goto(r, "each")
  /\ UNCHANGED <<presenceVars, lock, listed, manual, meddled>>

CycleEnds(r) ==
  /\ pc[r] = "each"
  /\ list = <<>> \/ queue = <<>>
  /\ End(r)
  /\ UNCHANGED <<agent, presenceVars, lock, listed, list, queue, load, given, manual, meddled>>

(* A statement or an audit insert fails: the catch unlocks too.  (If the   *)
(* process dies PostgreSQL releases the lock with the connection, which is *)
(* the same step.)                                                         *)
Fail(r) ==
  /\ pc[r] \in {"agents", "sessions", "chats", "loads", "each", "assign"}
  /\ End(r)
  /\ UNCHANGED <<agent, presenceVars, lock, listed, list, queue, load, given, manual, meddled>>

Unlock(r) ==
  /\ pc[r] = "unlock"
  /\ lock' = NoRun
  /\ Goto(r, "idle")
  /\ listed' = {} /\ list' = <<>> /\ queue' = <<>>
  /\ load' = NoneGiven /\ given' = NoneGiven
  /\ UNCHANGED <<agent, presenceVars, manual, meddled>>

-----------------------------------------------------------------------------
RunStep(r) ==
  \/ ListConnectedRows(r) \/ KeepActive(r) \/ ListUnassigned(r) \/ ReadLoads(r)
  \/ Consider(r) \/ Assign(r) \/ CycleEnds(r) \/ Unlock(r)

Next ==
  \/ \E s \in Sockets : \/ Connect(s) \/ RegisterConnection(s) \/ RejectConnection(s)
                        \/ Disconnect(s) \/ RegisterDisconnect(s)
  \/ \E a \in Agents : LogIn(a) \/ LogOut(a) \/ MarkDisconnectedByUser(a)
  \/ \E c \in Chats, a \in Agents \cup {NoAgent} : Manual(c, a)
  \/ \E r \in Runs : TryLock(r) \/ RunStep(r) \/ Fail(r)

Spec == Init /\ [][Next]_vars

(* A run goes on to its end: its statements are answered.                  *)
FairSpec == Spec /\ \A r \in Runs : WF_vars(RunStep(r))

-----------------------------------------------------------------------------
(* Type invariant.                                                         *)
TypeOK ==
  /\ agent \in [Chats -> Agents \cup {NoAgent}]
  /\ socket \in [Sockets -> {"new", "open", "closed"}]
  /\ join \in [Sockets -> {"no", "verify", "done"}]
  /\ part \in [Sockets -> {"no", "update", "done"}]
  /\ connected \subseteq Sockets /\ sessions \subseteq Agents
  /\ lock \in Runs \cup {NoRun}
  /\ pc \in [Runs -> {"idle", "agents", "sessions", "chats", "loads", "each", "assign", "unlock"}]
  /\ listed \subseteq Sockets /\ list \in Seq(Agents) /\ queue \in Seq(Chats)
  /\ load \in [Agents -> Nat] /\ given \in [Agents -> Nat]
  /\ manual \in 0..MaxManual /\ meddled \in BOOLEAN

(* The cycle on its own never takes a chat from the agent that has it and  *)
(* never gives an agent more than maxChatsPerAgent, whatever other runs do *)
(* at the same time: only a manual operation in the middle of the cycle    *)
(* can make its reads stale.                                               *)
CyclesDoNotClash ==
  [][\A r \in Runs : Assign(r) /\ ~meddled =>
       /\ agent[Head(queue)] = NoAgent
       /\ Load(Head(list)) < MaxChats]_vars

(* Every cycle ends and lets the next one in, also when it fails           *)
(* half-way: no run waits for a lock that nobody is going to release.      *)
CyclesGoOn == \A r \in Runs : []<>(lock # r)

=============================================================================
