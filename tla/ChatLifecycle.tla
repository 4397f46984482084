--------------------------- MODULE ChatLifecycle ---------------------------
(***************************************************************************)
(* The handlers that move a chat through its life: assignChat,             *)
(* unassignChat, closeChat, reopenChat, createOrReopenChat                 *)
(* (services/chatService.js), reassignChat (chatReassignmentService.js),   *)
(* the assignment job, the inactivity monitor, the inbound message handler *)
(* and deleteUser.  Each request runs in a process whose steps are the     *)
(* parts between two awaits: a Redis command, one SQL statement, the       *)
(* statements of a transaction.  The guards of a handler look at the chat  *)
(* it has READ, often from the cache and always some awaits before its     *)
(* UPDATE, which has no guard of its own.                                  *)
(*                                                                         *)
(* PostgreSQL is external: an UPDATE is atomic and waits for a row locked  *)
(* by a transaction, FOR UPDATE locks the row it returns, a transaction's  *)
(* writes become visible at COMMIT, READ COMMITTED.                        *)
(***************************************************************************)
EXTENDS ChatRows

CONSTANTS Procs,         \* requests that can be in flight together
          NoProc,
          OpNames,       \* the operations this instance exercises
          CacheEnabled   \* env.cache.chatTtlSeconds > 0

ASSUME ProcsAssumption ==
  /\ NoProc \notin Procs
  /\ CacheEnabled \in BOOLEAN

VARIABLES row,      \* committed rows of table chats
          users,    \* rows of table users
          by,       \* executed_by_user_id of the last write
          suspect,  \* history: chats written by somebody who had been overtaken
          cache,    \* Redis, key cache:chat:<id>; Absent is a miss
          lock,     \* row locks (and unique-key locks) held by open transactions
          session,  \* holder of pg_advisory_xact_lock(sessionName)
          pc, req, seen,  \* where a request is, what it asks, the row it holds in memory
          todo      \* deleteUser: its chats; before "inval": whose cache keys to drop

deskVars == <<row, users, by, suspect>>
lockVars == <<lock, session>>
procVars == <<pc, req, seen, todo>>
vars == <<row, users, by, suspect, cache, lock, session, pc, req, seen, todo>>

-----------------------------------------------------------------------------
(* Requests.                                                               *)

Inbound == {"live", "history", "fromMe"}  \* handleIncomingWhatsAppMessage: isHistory, fromMe
ById    == {"assign", "unassign", "close", "reopen", "transfer", "autoclose"}
Systemic == Inbound \cup {"auto", "autoclose"}  \* executed_by_user_id IS NULL

Requests ==
  {r \in [op : OpNames, chat : Chats, user : Owner, to : Owner] :
     /\ r.user = NoAgent <=> r.op \in Systemic
     /\ r.to = NoAgent <=> r.op \notin {"transfer", "auto", "delete"}
     /\ r.op = "auto" => r.to \in Agents
     /\ r.op = "delete" => r.user \in Admins}

NoRequest == [op |-> "none", chat |-> CHOOSE c \in Chats : TRUE, user |-> NoAgent, to |-> NoAgent]

Chat(p) == req[p].chat
Op(p)   == req[p].op

isSupervisor(u) == u \in Supervisors

(* The checks of a handler, on the row it has read.  (Forms named "mutant" *)
(* below are what a bug would make of the next definition; nothing uses    *)
(* them but the sensitivity checks.)  hasOpenChatConflict                  *)
(* looks for another chat with the same session and number, which the      *)
(* unique key rules out: it never refuses.                                 *)
MayTakeAny(r, read) ==  \* mutant
  isSupervisor(r.user) \/ isUserInQueue(r.user, r.chat)

MayTake(r, read) ==
  isSupervisor(r.user) \/ (isUserInQueue(r.user, r.chat) /\ read.agent \in {NoAgent, r.user})

MayEnd(r, read) ==
  isUserInQueue(r.user, r.chat) /\ (isSupervisor(r.user) \/ read.agent = r.user)

MayTransferOutside(r, read) ==  \* mutant
  /\ read.agent # r.to
  /\ isSupervisor(r.user) \/ (read.agent = r.user /\ r.chat \in Queued /\ isUserInQueue(r.user, r.chat))

MayTransfer(r, read) ==
  /\ read.agent # r.to
  /\ isSupervisor(r.user) \/ (read.agent = r.user /\ r.chat \in Queued /\ isUserInQueue(r.user, r.chat))
  /\ isUserInQueue(r.to, r.chat)
  /\ read.agent # NoAgent => isUserInQueue(read.agent, r.chat)

MayExpire(read) == read.status = "OPEN"

Permitted(r, read) ==
  CASE r.op = "assign"                -> MayTake(r, read)
    [] r.op \in {"unassign", "close"} -> MayEnd(r, read)
    [] r.op = "reopen"                -> isUserInQueue(r.user, r.chat)
    [] r.op = "transfer"              -> MayTransfer(r, read)
    [] r.op = "auto"                  -> read.status = "UNASSIGNED" /\ isUserInQueue(r.to, r.chat)
    [] r.op = "autoclose"             -> MayExpire(read)
    [] OTHER                          -> TRUE

(* The status a message gives to a chat it found with status s.            *)
nextStatus(op, s) ==
  CASE op = "fromMe"  -> s
    [] op = "history" -> "CLOSED"
    [] OTHER          -> IF s = "CLOSED" THEN "UNASSIGNED" ELSE s

(* The status of a chat the two lookups of the message handler did not     *)
(* find: there is none, or it is UNASSIGNED and the INSERT hits its key.   *)
firstStatus(op) == IF op = "live" THEN "UNASSIGNED" ELSE "CLOSED"

handleIncomingWhatsAppMessage(op, read, cur) ==
  IF read.status \in {"OPEN", "CLOSED"}
  THEN touchChatOnInbound(cur, nextStatus(op, read.status))
  ELSE createChatRecord(cur, firstStatus(op))

(* The row that request r, having read `read`, writes over row `cur`.      *)
Written(r, read, cur) ==
  CASE r.op \in {"assign", "create"}   -> assignChatDb(r.user)
    [] r.op \in {"transfer", "auto"}   -> assignChatDb(r.to)
    [] r.op = "unassign"               -> unassignChatDb
    [] r.op \in {"close", "autoclose"} -> closedRow
    [] r.op = "reopen"                 -> reopenedRow(cur, read)
    [] OTHER                           -> handleIncomingWhatsAppMessage(r.op, read, cur)

(* r, having read `read`, is overtaken: with the present row in hand it    *)
(* would have refused, or written something else.                          *)
WasOvertaken(r, read, cur) ==
  \/ ~Permitted(r, cur)
  \/ Written(r, read, cur) # Written(r, cur, cur)

(* Handlers that write the status and the agent together.                  *)
WholeRow == {"assign", "unassign", "close", "transfer", "auto", "autoclose"}

-----------------------------------------------------------------------------
Init ==
  /\ row = [c \in Chats |-> Absent]
  /\ users = Users
  /\ by = NoAgent
  /\ suspect = {}
  /\ cache = [c \in Chats |-> Absent]
  /\ lock = [c \in Chats |-> NoProc]
  /\ session = NoProc
  /\ pc = [p \in Procs |-> "idle"]
  /\ req = [p \in Procs |-> NoRequest]
  /\ seen = [p \in Procs |-> Absent]
  /\ todo = [p \in Procs |-> {}]

Goto(p, l) ==
  /\ pc' = [pc EXCEPT ![p] = l]
  /\ UNCHANGED <<req, todo>>

Finish(p) ==
  /\ pc' = [pc EXCEPT ![p] = "idle"]
  /\ req' = [req EXCEPT ![p] = NoRequest]
  /\ seen' = [seen EXCEPT ![p] = Absent]
  /\ todo' = [todo EXCEPT ![p] = {}]

FirstStep(op) ==
  CASE op \in ById    -> "read"
    [] op = "auto"    -> "write"
    [] op \in Inbound -> "findOpen"
    [] op = "create"  -> "lockSession"
    [] op = "delete"  -> "bulk"
    [] OTHER          -> "idle"

(* A request arrives.  Its author still exists; a request that names a     *)
(* chat by id names a row that exists; the assignment job and the monitor  *)
(* take theirs from a SELECT on the status; deleteUser finds its target    *)
(* and another administrator before its transaction; the connection and    *)
(* queue checks of createOrReopenChat come before its own.                 *)
Start(p, r) ==
  /\ pc[p] = "idle"
  /\ r.user \in users \cup {NoAgent}
  /\ r.op \in ById => Exists(row[r.chat])
  /\ r.op = "auto" => row[r.chat].status = "UNASSIGNED" /\ r.to \in users
  /\ r.op = "autoclose" => row[r.chat].status = "OPEN"
  /\ r.op = "delete" =>
       /\ r.to \in users
       /\ r.to \in Admins => (users \cap Admins) \ {r.to} # {}   \* countActiveAdminsExcluding
  /\ r.op = "create" => isSupervisor(r.user) \/ isUserInQueue(r.user, r.chat)
  /\ req' = [req EXCEPT ![p] = r]
  /\ pc' = [pc EXCEPT ![p] = FirstStep(r.op)]
  /\ seen' = [seen EXCEPT ![p] = IF r.op = "auto" THEN row[r.chat] ELSE Absent]
  /\ UNCHANGED <<deskVars, lockVars, cache, todo>>

-----------------------------------------------------------------------------
(* getChatById: the cache, else the table and then the cache again.        *)

ReadCache(p) ==
  /\ pc[p] = "read"
  /\ IF cache[Chat(p)] # Absent
     THEN seen' = [seen EXCEPT ![p] = cache[Chat(p)]] /\ Goto(p, "write")
     ELSE Goto(p, "select") /\ UNCHANGED seen
  /\ UNCHANGED <<deskVars, lockVars, cache>>

SelectChat(p) ==
  /\ pc[p] = "select"
  /\ seen' = [seen EXCEPT ![p] = row[Chat(p)]]
  /\ Goto(p, IF CacheEnabled THEN "fill" ELSE "write")
  /\ UNCHANGED <<deskVars, lockVars, cache>>

FillCache(p) ==
  /\ pc[p] = "fill"
  /\ cache' = [cache EXCEPT ![Chat(p)] = seen[p]]
  /\ Goto(p, "write")
  /\ UNCHANGED <<deskVars, lockVars, seen>>

(* Redis drops a key when its TTL has passed (EX ttlChat).                 *)
Expire(c) ==
  /\ cache[c] # Absent
  /\ cache' = [cache EXCEPT ![c] = Absent]
  /\ UNCHANGED <<deskVars, lockVars, procVars>>

-----------------------------------------------------------------------------
(* One UPDATE ... WHERE id, by a request that has read seen[p].            *)

UpdateRow(p, next) ==
  LET c == Chat(p)
      new == Written(req[p], seen[p], row[c])
  IN
  /\ pc[p] = "write"
  /\ Permitted(req[p], seen[p])
  /\ lock[c] = NoProc
  /\ new.agent \in users \cup {NoAgent}          \* FK assigned_agent_id
  /\ row' = [row EXCEPT ![c] = new]
  /\ by' = req[p].user
  /\ suspect' = IF WasOvertaken(req[p], seen[p], row[c]) THEN suspect \cup {c}
                ELSE IF Op(p) \in WholeRow THEN suspect \ {c}
                ELSE suspect
  /\ seen' = [seen EXCEPT ![p] = IF next = "put" THEN new ELSE Absent]
  /\ pc' = [pc EXCEPT ![p] = next]
  /\ todo' = [todo EXCEPT ![p] = {c}]
  /\ UNCHANGED <<users, cache, lockVars, req>>

assignChat(p)    == Op(p) = "assign" /\ UpdateRow(p, "put")
unassignChat(p)  == Op(p) = "unassign" /\ UpdateRow(p, "put")
closeChat(p)     == Op(p) = "close" /\ UpdateRow(p, "inval")
reopenChat(p)    == Op(p) = "reopen" /\ UpdateRow(p, "inval")
reassignChat(p)  == Op(p) = "transfer" /\ UpdateRow(p, "put")
runAutoAssignment(p)        == Op(p) = "auto" /\ UpdateRow(p, "put")
closeChatForInactivityDb(p) == Op(p) = "autoclose" /\ UpdateRow(p, "put")
recordInbound(p) == Op(p) \in Inbound /\ UpdateRow(p, "put")

(* The handler refuses, or the foreign key does: the target was deleted.   *)
Refuse(p) ==
  /\ pc[p] = "write"
  /\ \/ ~Permitted(req[p], seen[p])
     \/ Written(req[p], seen[p], row[Chat(p)]).agent \notin users \cup {NoAgent}
  /\ Finish(p)
  /\ UNCHANGED <<deskVars, lockVars, cache>>

(* cacheChat(updated), inside assignChatDb, unassignChatDb, touchChat...   *)
PutCache(p) ==
  /\ pc[p] = "put"
  /\ cache' = IF CacheEnabled THEN [cache EXCEPT ![Chat(p)] = seen[p]] ELSE cache
  /\ IF Op(p) \in {"assign", "unassign"}
     THEN Goto(p, "inval") /\ seen' = [seen EXCEPT ![p] = Absent]
     ELSE Finish(p)
  /\ UNCHANGED <<deskVars, lockVars>>

(* invalidateChat, after the audit inserts; deleteUser does it chat by     *)
(* chat.                                                                   *)
InvalidateChat(p) ==
  /\ pc[p] = "inval"
  /\ \E c \in todo[p] :
       /\ cache' = [cache EXCEPT ![c] = Absent]
       /\ IF todo[p] = {c} THEN Finish(p)
          ELSE todo' = [todo EXCEPT ![p] = @ \ {c}] /\ UNCHANGED <<pc, req, seen>>
  /\ UNCHANGED <<deskVars, lockVars>>

-----------------------------------------------------------------------------
(* handleIncomingWhatsAppMessage looks for an OPEN chat, then for a CLOSED *)
(* one, in two statements.                                                 *)

InboundFindOpen(p) ==
  /\ pc[p] = "findOpen" /\ Op(p) \in Inbound
  /\ IF row[Chat(p)].status = "OPEN"
     THEN seen' = [seen EXCEPT ![p] = row[Chat(p)]] /\ Goto(p, "write")
     ELSE Goto(p, "findClosed") /\ UNCHANGED seen
  /\ UNCHANGED <<deskVars, lockVars, cache>>

InboundFindClosed(p) ==
  /\ pc[p] = "findClosed" /\ Op(p) \in Inbound
  /\ seen' = [seen EXCEPT ![p] = IF row[Chat(p)].status = "CLOSED" THEN row[Chat(p)] ELSE Absent]
  /\ Goto(p, "write")
  /\ UNCHANGED <<deskVars, lockVars, cache>>

-----------------------------------------------------------------------------
(* createOrReopenChat: one transaction under the advisory lock of the      *)
(* session.                                                                *)

ReleaseRowLocks(p) ==  \* mutant
  /\ lock' = [c \in Chats |-> IF lock[c] = p THEN NoProc ELSE lock[c]]
  /\ UNCHANGED session

ReleaseLocks(p) ==
  /\ lock' = [c \in Chats |-> IF lock[c] = p THEN NoProc ELSE lock[c]]
  /\ session' = IF session = p THEN NoProc ELSE session

LockSession(p) ==
  /\ pc[p] = "lockSession"
  /\ session = NoProc
  /\ session' = p
  /\ Goto(p, "findOpen")
  /\ UNCHANGED <<deskVars, lock, cache, seen>>

CreateFindOpen(p) ==
  /\ pc[p] = "findOpen" /\ Op(p) = "create"
  /\ IF row[Chat(p)].status = "OPEN"
     THEN /\ lock[Chat(p)] = NoProc      \* FOR UPDATE waits
          /\ ReleaseLocks(p)             \* ROLLBACK, 409
          /\ Finish(p)
     ELSE Goto(p, "findClosed") /\ UNCHANGED <<lockVars, seen>>
  /\ UNCHANGED <<deskVars, cache>>

CreateFindClosed(p) ==
  /\ pc[p] = "findClosed" /\ Op(p) = "create"
  /\ IF row[Chat(p)].status = "CLOSED"
     THEN /\ lock[Chat(p)] = NoProc
          /\ lock' = [lock EXCEPT ![Chat(p)] = p]
     ELSE UNCHANGED lock
  /\ Goto(p, "createWrite")
  /\ UNCHANGED <<deskVars, session, cache, seen>>

(* reopenChatRecord on the locked row, or createChatForConnection; then    *)
(* assignChatDb.  The INSERT of a chat that exists after all breaks the    *)
(* unique key, a deleted creator the foreign key: ROLLBACK.                *)
CreateUpsert(p) ==  \* mutant
  /\ pc[p] = "createWrite"
  /\ lock[Chat(p)] \in {p, NoProc}
  /\ lock' = [lock EXCEPT ![Chat(p)] = p]
  /\ req[p].user \in users
  /\ Goto(p, "commit")
  /\ UNCHANGED <<deskVars, session, cache, seen>>

CreateWrite(p) ==
  /\ pc[p] = "createWrite"
  /\ lock[Chat(p)] = p \/ (lock[Chat(p)] = NoProc /\ row[Chat(p)] = Absent)
  /\ lock' = [lock EXCEPT ![Chat(p)] = p]
  /\ req[p].user \in users
  /\ Goto(p, "commit")
  /\ UNCHANGED <<deskVars, session, cache, seen>>

CreateFails(p) ==
  /\ pc[p] = "createWrite"
  /\ \/ lock[Chat(p)] # p /\ Exists(row[Chat(p)])
     \/ req[p].user \notin users
  /\ ReleaseLocks(p)
  /\ Finish(p)
  /\ UNCHANGED <<deskVars, cache>>

CreateCommit(p) ==
  /\ pc[p] = "commit"
  /\ row' = [row EXCEPT ![Chat(p)] = Written(req[p], seen[p], row[Chat(p)])]
  /\ by' = req[p].user
  /\ suspect' = suspect \ {Chat(p)}
  /\ ReleaseLocks(p)
  /\ pc' = [pc EXCEPT ![p] = "inval"]
  /\ todo' = [todo EXCEPT ![p] = {Chat(p)}]
  /\ UNCHANGED <<users, cache, req, seen>>

-----------------------------------------------------------------------------
(* deleteUser: one transaction that first releases the user's chats and at *)
(* the end deletes the user, whose foreign key (ON DELETE SET NULL) clears *)
(* what was assigned to it in between.                                     *)

BulkUnassignUnlocked(p) ==  \* mutant
  LET held == {c \in Chats : row[c].agent = req[p].to} IN
  /\ pc[p] = "bulk"
  /\ \A c \in held : lock[c] = NoProc
  /\ pc' = [pc EXCEPT ![p] = "deleteRow"]
  /\ todo' = [todo EXCEPT ![p] = held]
  /\ UNCHANGED <<deskVars, lockVars, cache, req, seen>>

BulkUnassign(p) ==
  LET held == {c \in Chats : row[c].agent = req[p].to} IN
  /\ pc[p] = "bulk"
  /\ \A c \in held : lock[c] = NoProc
  /\ lock' = [c \in Chats |-> IF c \in held THEN p ELSE lock[c]]
  /\ pc' = [pc EXCEPT ![p] = "deleteRow"]
  /\ todo' = [todo EXCEPT ![p] = held]
  /\ UNCHANGED <<deskVars, session, cache, req, seen>>

DeleteCommit(p) ==
  LET u == req[p].to
      late == {c \in Chats : row[c].agent = u} \ todo[p]
  IN
  /\ pc[p] = "deleteRow"
  /\ u \in users
  /\ \A c \in late : lock[c] = NoProc
  /\ \A q \in Procs : pc[q] = "commit" => req[q].user # u   \* their FK share-locks the user
  /\ row' = [c \in Chats |-> IF c \in todo[p] THEN bulkUnassignChatsByUser(row[c])
                             ELSE IF c \in late THEN [row[c] EXCEPT !.agent = NoAgent]
                             ELSE row[c]]
  /\ users' = users \ {u}
  /\ by' = req[p].user
  /\ suspect' = (suspect \ todo[p]) \cup {c \in late : row[c].status = "OPEN"}
  /\ ReleaseLocks(p)
  /\ IF todo[p] = {} THEN Finish(p)
     ELSE pc' = [pc EXCEPT ![p] = "inval"] /\ UNCHANGED <<req, seen, todo>>
  /\ UNCHANGED cache

(* Somebody else has deleted the user meanwhile: ROLLBACK.                 *)
DeleteFails(p) ==
  /\ pc[p] = "deleteRow"
  /\ req[p].to \notin users
  /\ ReleaseLocks(p)
  /\ Finish(p)
  /\ UNCHANGED <<deskVars, cache>>

-----------------------------------------------------------------------------
(* A statement or an audit insert fails, or the server restarts: the       *)
(* request ends where it is and its transaction is rolled back.            *)
Fail(p) ==
  /\ pc[p] # "idle"
  /\ ReleaseLocks(p)
  /\ Finish(p)
  /\ UNCHANGED <<deskVars, cache>>

Update(p) ==
  \/ assignChat(p) \/ unassignChat(p) \/ closeChat(p) \/ reopenChat(p) \/ reassignChat(p)
  \/ runAutoAssignment(p) \/ closeChatForInactivityDb(p) \/ recordInbound(p)

Step(p) ==
  \/ ReadCache(p) \/ SelectChat(p) \/ FillCache(p)
  \/ Update(p) \/ Refuse(p) \/ PutCache(p) \/ InvalidateChat(p)
  \/ InboundFindOpen(p) \/ InboundFindClosed(p)
  \/ LockSession(p) \/ CreateFindOpen(p) \/ CreateFindClosed(p)
  \/ CreateWrite(p) \/ CreateFails(p) \/ CreateCommit(p)
  \/ BulkUnassign(p) \/ DeleteCommit(p) \/ DeleteFails(p)

Next ==
  \/ \E p \in Procs : Step(p) \/ Fail(p) \/ (\E r \in Requests : Start(p, r))
  \/ \E c \in Chats : Expire(c)

Spec == Init /\ [][Next]_vars

(* A request that can go on does.  Strong fairness, because one that waits *)
(* for a lock is enabled only between two holders of it, and PostgreSQL    *)
(* serves the waiters of a lock in order.                                  *)
FairSpec == Spec /\ \A p \in Procs : SF_vars(Step(p))

-----------------------------------------------------------------------------
(* Properties.                                                             *)

TypeOK ==
  /\ row \in [Chats -> Row]
  /\ users \in SUBSET Users
  /\ by \in Owner
  /\ suspect \in SUBSET Chats
  /\ cache \in [Chats -> Row]
  /\ lock \in [Chats -> Procs \cup {NoProc}]
  /\ session \in Procs \cup {NoProc}
  /\ pc \in [Procs -> {"idle", "read", "select", "fill", "write", "put", "inval",
                       "findOpen", "findClosed", "lockSession", "createWrite", "commit",
                       "bulk", "deleteRow"}]
  /\ req \in [Procs -> Requests \cup {NoRequest}]
  /\ seen \in [Procs -> Row]
  /\ todo \in [Procs -> SUBSET Chats]

(* The handlers implement the desk: each write is one legal operation on   *)
(* the present row, or is marked as overtaken.                             *)
Desk == INSTANCE ChatDesk
DeskSpec == Desk!Spec

(* A chat is OPEN without an agent, or waits in the pool with one, only if *)
(* some handler wrote it from a stale read: whatever the interleaving of   *)
(* the unguarded UPDATEs, nothing else spoils a row.  And no row ever      *)
(* names a deleted user, though handlers go on holding its id.             *)
RowsSound == Desk!DeskSound

(* Locks are held only by the transactions of createOrReopenChat and       *)
(* deleteUser while they run, also when these fail half-way: none leaks    *)
(* into the rest of the request, where it would block the chat for good.   *)
LocksInTransactions ==
  /\ \A c \in Chats : lock[c] # NoProc => pc[lock[c]] \in {"createWrite", "commit", "deleteRow"}
  /\ session # NoProc => pc[session] \in {"findOpen", "findClosed", "createWrite", "commit"}

(* An agent's request never takes an OPEN chat away from the agent that    *)
(* works on it, unless the row was no longer what the request had read.    *)
OpenChatKeepsItsAgent == [][Desk!KeepsAgents]_vars

(* What every request in flight relies on across its awaits: chats do not  *)
(* disappear, and a transaction's locks keep what it has read under them.  *)
RequestSound(p) ==
  /\ pc[p] # "idle" => req[p] \in Requests
  /\ pc[p] \in {"read", "select", "fill"} => Op(p) \in ById /\ Exists(row[Chat(p)])
  /\ pc[p] = "write" =>
       /\ Op(p) \in ById \cup Inbound \cup {"auto"}
       /\ (Op(p) \in Inbound /\ ~Exists(seen[p])) \/ Exists(row[Chat(p)])
  /\ pc[p] \in {"findOpen", "findClosed"} => Op(p) \in Inbound \cup {"create"}
  /\ pc[p] \in {"lockSession", "createWrite", "commit"} => Op(p) = "create"
  /\ pc[p] \in {"bulk", "deleteRow"} => Op(p) = "delete"
  /\ session = p => Op(p) = "create"
  /\ pc[p] = "createWrite" /\ lock[Chat(p)] = p => row[Chat(p)].status = "CLOSED"
  /\ pc[p] = "commit" =>
       /\ lock[Chat(p)] = p /\ req[p].user \in users
       /\ row[Chat(p)].status \in {"NONE", "CLOSED"}
  /\ pc[p] = "deleteRow" =>
       \A c \in todo[p] : lock[c] = p /\ row[c].agent = req[p].to

RequestsSound == \A p \in Procs : RequestSound(p)

Inv == TypeOK /\ LocksInTransactions /\ RequestsSound

(* Of the requests to start a conversation with a number none takes over a *)
(* chat somebody already works on, however they interleave with each other *)
(* and with the handlers that take no lock.                                *)
CreateNeverSteals ==
  [][\A p \in Procs : CreateCommit(p) => row[Chat(p)].status \in {"NONE", "CLOSED"}]_vars

(* Every request ends: no cycle of row locks, session lock and foreign-key *)
(* waits.                                                                  *)
RequestsEnd == \A p \in Procs : pc[p] # "idle" ~> pc[p] = "idle"

-----------------------------------------------------------------------------
(* What a comment of the code says, and an interleaving refutes.           *)

(* "Desasigna todos los chats del usuario: quedan en estado UNASSIGNED     *)
(* salvo los cerrados" (userService.js:160).                               *)
DeletedUsersChatsReturn ==
  [][\A c \in Chats :
       row[c].agent \in users \ users' => row'[c].status \in {"UNASSIGNED", "CLOSED"}]_vars

=============================================================================
