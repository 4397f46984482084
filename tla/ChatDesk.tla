------------------------------ MODULE ChatDesk ------------------------------
(***************************************************************************)
(* What the chat desk promises: the abstract specification that            *)
(* ChatLifecycle implements.  Every operation is one step on the row of    *)
(* one chat, allowed by the rules of the desk.  The only other step is     *)
(* Overtaken: a write whose author had read the chat before somebody else  *)
(* changed it, and which is not what that author would have done had they  *)
(* seen the present row.  The chat is then marked suspect, until an        *)
(* operation that writes the whole row repairs it.                         *)
(***************************************************************************)
EXTENDS ChatRows

VARIABLES row,      \* row[c]: the committed row of chat c
          users,    \* the users that have not been deleted
          by,       \* on whose behalf the last write was made (NoAgent: the system)
          suspect   \* the chats whose row an overtaken write has touched

vars == <<row, users, by, suspect>>

IsSupervisor(u) == u \in Supervisors

Init ==
  /\ row = [c \in Chats |-> Absent]
  /\ users = Users
  /\ by = NoAgent
  /\ suspect = {}

(* A write of the whole row: what was wrong with it is repaired.           *)
Replace(c, r) ==
  /\ row' = [row EXCEPT ![c] = r]
  /\ suspect' = suspect \ {c}
  /\ UNCHANGED users

(* A write of a part of the row: what was wrong with it may stay wrong.    *)
Patch(c, r) ==
  /\ row' = [row EXCEPT ![c] = r]
  /\ UNCHANGED <<users, suspect>>

(* A user takes a chat: an agent only one of its queue that nobody else    *)
(* works on.                                                               *)
Take(c, u) ==
  /\ Exists(row[c])
  /\ u \in users
  /\ IsSupervisor(u) \/ (isUserInQueue(u, c) /\ row[c].agent \in {NoAgent, u})
  /\ Replace(c, assignChatDb(u))

(* A user hands a chat to another one, an agent only a chat of its own.    *)
Transfer(c, u, to) ==
  /\ Exists(row[c])
  /\ to \in users
  /\ row[c].agent # to
  /\ isUserInQueue(to, c)
  /\ row[c].agent # NoAgent => isUserInQueue(row[c].agent, c)
  /\ IsSupervisor(u) \/ (row[c].agent = u /\ c \in Queued /\ isUserInQueue(u, c))
  /\ Replace(c, assignChatDb(to))

(* The assignment job hands a waiting chat to an agent of its queue.       *)
Dispatch(c, to) ==
  /\ row[c].status = "UNASSIGNED"
  /\ to \in users \cap Agents
  /\ isUserInQueue(to, c)
  /\ Replace(c, assignChatDb(to))

(* A new outgoing chat: never one that is already being worked on.         *)
Begin(c, u) ==
  /\ row[c].status \in {"NONE", "CLOSED"}
  /\ u \in users
  /\ Replace(c, assignChatDb(u))

MayEnd(c, u) ==
  /\ Exists(row[c])
  /\ isUserInQueue(u, c)
  /\ IsSupervisor(u) \/ row[c].agent = u

Release(c, u) == MayEnd(c, u) /\ Replace(c, unassignChatDb)

Close(c, u) == MayEnd(c, u) /\ Replace(c, closedRow)

(* The inactivity monitor closes chats that are being worked on.           *)
Expire(c) == row[c].status = "OPEN" /\ Replace(c, closedRow)

Reopen(c, u) ==
  /\ Exists(row[c])
  /\ isUserInQueue(u, c)
  /\ Patch(c, reopenedRow(row[c], row[c]))

(* A WhatsApp message moves the status of its chat.  It never gives the    *)
(* chat an agent, and takes the agent away only when the chat goes back to *)
(* the pool.                                                               *)
Arrive(c, s) ==
  /\ <<row[c].status, s>> \in {<<"NONE", "UNASSIGNED">>, <<"NONE", "CLOSED">>,
                               <<"UNASSIGNED", "UNASSIGNED">>, <<"UNASSIGNED", "CLOSED">>,
                               <<"OPEN", "OPEN">>, <<"OPEN", "CLOSED">>,
                               <<"CLOSED", "UNASSIGNED">>, <<"CLOSED", "CLOSED">>}
  /\ \/ row[c].status \in {"OPEN", "CLOSED"} /\ Patch(c, touchChatOnInbound(row[c], s))
     \/ row[c].status \in {"NONE", "UNASSIGNED"} /\ Patch(c, createChatRecord(row[c], s))

(* A user is deleted.  The chats in K go back to the pool (closed ones     *)
(* stay closed); the others only lose the reference to the user, and the   *)
(* open ones among them are suspect.                                       *)
RemoveUser(a, K) ==
  LET held == {c \in Chats : row[c].agent = a} IN
  /\ a \in users
  /\ users' = users \ {a}
  /\ K \subseteq held
  /\ row' = [c \in Chats |-> IF c \in K THEN bulkUnassignChatsByUser(row[c])
                             ELSE IF c \in held THEN [row[c] EXCEPT !.agent = NoAgent]
                             ELSE row[c]]
  /\ suspect' = (suspect \ K) \cup {c \in held \ K : row[c].status = "OPEN"}

Overtaken(c) ==
  /\ suspect' = suspect \cup {c}
  /\ Exists(row[c])
  /\ \E a \in users \cup {NoAgent}, s \in Status :
       row' = [row EXCEPT ![c] = [status |-> s, agent |-> a]]
  /\ UNCHANGED users

(* The operations of a user, and those of the system.                      *)
ByUser(u) ==
  \/ \E c \in Chats :
       \/ Take(c, u) \/ Begin(c, u) \/ Release(c, u) \/ Close(c, u) \/ Reopen(c, u)
       \/ \E to \in Users : Transfer(c, u, to)
  \/ u \in Admins /\ (\E a \in Users, K \in SUBSET Chats : RemoveUser(a, K))

BySystem ==
  \E c \in Chats :
    Expire(c) \/ (\E a \in Agents : Dispatch(c, a)) \/ (\E s \in Status : Arrive(c, s))

Next ==
  \E u \in Owner :
    /\ by' = u
    /\ \/ u \in Users /\ ByUser(u)
       \/ u = NoAgent /\ BySystem
       \/ \E c \in Chats : Overtaken(c)

Spec == Init /\ [][Next]_vars

-----------------------------------------------------------------------------
DeskTypeOK ==
  /\ row \in [Chats -> Row]
  /\ users \in SUBSET Users
  /\ by \in Owner
  /\ suspect \in SUBSET Chats

(* A chat is OPEN without an agent, or waits in the pool with one, only if *)
(* an overtaken write has touched it; and no row names a deleted user.     *)
DeskSound ==
  /\ \A c \in Chats \ suspect : WellFormed(row[c])
  /\ \A c \in Chats : row[c].agent \in users \cup {NoAgent}

(* No step on behalf of an agent takes an OPEN chat away from the agent    *)
(* that works on it, unless it is an overtaken one.                        *)
KeepsAgents ==
  \A c \in Chats :
    /\ row[c].status = "OPEN" /\ row[c].agent # NoAgent
    /\ row'[c].agent # row[c].agent
    /\ by' \in Agents
    /\ c \notin suspect'
    => by' = row[c].agent

=============================================================================
