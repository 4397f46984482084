------------------------ MODULE ChatLifecycleProofs ------------------------
(* The handlers implement the desk, for any number of chats, users and     *)
(* concurrent requests and any set of operations; and the list of chats    *)
(* shows the desk, for any number of chats and users, any page size and    *)
(* any bound on what happens.                                              *)
EXTENDS ChatLifecycle, ChatListScreen, FiniteSetTheorems, SequenceTheorems, TLAPS

USE ProcsAssumption

(* Rows put together from a status and an owner are rows.                  *)
LEMMA RowTypes ==
  /\ Absent \in Row
  /\ \A s \in Status, a \in Owner : [status |-> s, agent |-> a] \in Row
BY DEF Row, Owner, Absent, Status

(* What a request writes is a row, and one that exists.                    *)
LEMMA WrittenType ==
  ASSUME NEW r \in Requests, NEW read \in Row, NEW cur \in Row,
         r.op \in ById \cup Inbound \cup {"auto", "create"}
  PROVE  Written(r, read, cur) \in Row /\ Exists(Written(r, read, cur))
<1>1. r.user \in Owner /\ r.to \in Owner
  BY DEF Requests
<1>2. CASE r.op \in Inbound
  <2>1. Written(r, read, cur) = handleIncomingWhatsAppMessage(r.op, read, cur)
    BY <1>2 DEF Written, Inbound
  <2>2. read.status \in {"OPEN", "CLOSED"} => nextStatus(r.op, read.status) \in Status
    BY DEF nextStatus, Status
  <2>3. firstStatus(r.op) \in Status
    BY DEF firstStatus, Status
  <2> QED BY <2>1, <2>2, <2>3
          DEF handleIncomingWhatsAppMessage, touchChatOnInbound, createChatRecord, Exists, Row, Owner, Status
<1>3. CASE r.op \notin Inbound
  BY <1>1, <1>3 DEF Written, ById, assignChatDb, unassignChatDb, closedRow, reopenedRow,
                    Exists, Row, Owner, Status
<1> QED BY <1>2, <1>3

-----------------------------------------------------------------------------
(* A step of request p leaves the other requests where they are, and what  *)
(* they rely on as it was.                                                 *)
Frame(p) ==
  \A q \in Procs \ {p} :
    pc'[q] = pc[q] /\ req'[q] = req[q] /\ seen'[q] = seen[q] /\ todo'[q] = todo[q]

Kept(p) ==
  /\ \A c \in Chats : Exists(row[c]) => Exists(row'[c])
  /\ \A q \in Procs \ {p} :
       /\ \A c \in Chats : (lock'[c] = q <=> lock[c] = q) /\ (lock[c] = q => row'[c] = row[c])
       /\ session' = q => session = q
       /\ pc[q] = "commit" => req[q].user \in users'

LockPCs    == {"createWrite", "commit", "deleteRow"}
SessionPCs == {"findOpen", "findClosed", "createWrite", "commit"}

(* So only p itself has to be looked at.                                   *)
LEMMA OneRequest ==
  ASSUME Inv, NEW p \in Procs, TypeOK', Frame(p), Kept(p), RequestSound(p)',
         \A c \in Chats : lock'[c] = p => pc'[p] \in LockPCs,
         session' = p => pc'[p] \in SessionPCs
  PROVE  Inv'
<1>1. ASSUME NEW q \in Procs \ {p} PROVE RequestSound(q)'
  <2>1. /\ pc'[q] = pc[q] /\ req'[q] = req[q] /\ seen'[q] = seen[q] /\ todo'[q] = todo[q]
        /\ \A c \in Chats : Exists(row[c]) => Exists(row'[c])
        /\ \A c \in Chats : (lock'[c] = q <=> lock[c] = q) /\ (lock[c] = q => row'[c] = row[c])
        /\ session' = q => session = q
        /\ pc[q] = "commit" => req[q].user \in users'
    BY DEF Frame, Kept
  <2>2. RequestSound(q)
    BY DEF Inv, RequestsSound
  <2>3. req[q] \in Requests => Chat(q) \in Chats
    BY DEF Requests, Chat
  <2>4. pc[q] # "idle" => Chat(q) \in Chats
    BY <2>2, <2>3 DEF RequestSound
  <2>5. todo[q] \subseteq Chats
    BY DEF Inv, TypeOK
  <2> QED BY <2>1, <2>2, <2>4, <2>5 DEF RequestSound, Chat, Op
<1>2. LocksInTransactions'
  BY DEF Inv, TypeOK, LocksInTransactions, Frame, Kept, LockPCs, SessionPCs
<1> QED BY <1>1, <1>2 DEF Inv, RequestsSound

(* What a request owns of the locks, by where it is.                       *)
LEMMA Holdings ==
  ASSUME Inv, NEW p \in Procs
  PROVE  /\ RequestSound(p)
         /\ p # NoProc
         /\ pc[p] # "idle" => Chat(p) \in Chats /\ req[p].user \in Owner /\ req[p].to \in Owner
         /\ \A c \in Chats : lock[c] = p => pc[p] \in LockPCs
         /\ session = p => pc[p] \in SessionPCs /\ Op(p) = "create"
BY DEF Inv, RequestsSound, RequestSound, LocksInTransactions, LockPCs, SessionPCs, TypeOK, Requests, Chat

(* A step that moves p alone and touches neither rows nor locks, outside   *)
(* the transactions.                                                       *)
LEMMA Quiet ==
  ASSUME Inv, NEW p \in Procs, UNCHANGED <<deskVars, lockVars>>, TypeOK', Frame(p),
         RequestSound(p)',
         pc[p] \notin LockPCs,
         pc[p] \notin SessionPCs \/ Op(p) # "create"
  PROVE  Inv'
<1>1. Kept(p)
  BY Holdings DEF Kept, deskVars, lockVars, RequestSound
<1> QED BY <1>1, OneRequest, Holdings DEF lockVars

(* The invariant that the steps of the requests preserve.                  *)
THEOREM Invariant == Spec => []Inv
<1>1. Init => Inv
  BY RowTypes DEF Init, Inv, TypeOK, LocksInTransactions, RequestsSound, RequestSound, Owner
<1>2. Inv /\ [Next]_vars => Inv'
  <2> SUFFICES ASSUME Inv, [Next]_vars PROVE Inv'
    OBVIOUS
  <2> USE DEF Inv
  <2>1. ASSUME NEW p \in Procs, NEW r \in Requests, Start(p, r) PROVE Inv'
    <3>1. TypeOK'
      BY <2>1, RowTypes DEF Start, TypeOK, FirstStep, deskVars, lockVars, Requests
    <3>2. Frame(p)
      BY <2>1 DEF Start, Frame, TypeOK
    <3>3. RequestSound(p)'
      BY <2>1, Holdings DEF Start, TypeOK, RequestSound, FirstStep, deskVars, lockVars, ById, Inbound, Chat, Op, Exists, SessionPCs, LockPCs
    <3> QED BY <2>1, <3>1, <3>2, <3>3, Quiet DEF Start, LockPCs, SessionPCs
  <2>2. ASSUME NEW p \in Procs, ReadCache(p) PROVE Inv'
    <3>1. TypeOK' /\ Frame(p)
      BY <2>2, Holdings DEF ReadCache, TypeOK, Frame, Goto, deskVars, lockVars, RequestSound, Requests, Chat
    <3>2. RequestSound(p)'
      BY <2>2, Holdings DEF ReadCache, TypeOK, RequestSound, Goto, deskVars, lockVars, Chat, Op, SessionPCs, LockPCs
    <3> QED BY <2>2, <3>1, <3>2, Quiet DEF ReadCache, LockPCs, SessionPCs
  <2>3. ASSUME NEW p \in Procs, SelectChat(p) PROVE Inv'
    <3>1. TypeOK' /\ Frame(p)
      BY <2>3, Holdings, RowTypes DEF SelectChat, TypeOK, Frame, Goto, Finish, deskVars, lockVars, RequestSound, Requests, Chat
    <3>2. RequestSound(p)'
      BY <2>3, Holdings DEF SelectChat, TypeOK, RequestSound, Goto, Finish, deskVars, lockVars, Chat, Op, SessionPCs, LockPCs, Exists, Absent
    <3> QED BY <2>3, <3>1, <3>2, Quiet, Holdings DEF SelectChat, LockPCs, SessionPCs, RequestSound, ById, Inbound
  <2>4. ASSUME NEW p \in Procs, FillCache(p) PROVE Inv'
    <3>1. TypeOK' /\ Frame(p)
      BY <2>4, Holdings, RowTypes DEF FillCache, TypeOK, Frame, Goto, Finish, deskVars, lockVars, RequestSound, Requests, Chat
    <3>2. RequestSound(p)'
      BY <2>4, Holdings DEF FillCache, TypeOK, RequestSound, Goto, Finish, deskVars, lockVars, Chat, Op, SessionPCs, LockPCs, Exists, Absent
    <3> QED BY <2>4, <3>1, <3>2, Quiet, Holdings DEF FillCache, LockPCs, SessionPCs, RequestSound, ById, Inbound
  <2>5. ASSUME NEW p \in Procs, Refuse(p) PROVE Inv'
    <3>1. TypeOK' /\ Frame(p)
      BY <2>5, Holdings, RowTypes DEF Refuse, TypeOK, Frame, Goto, Finish, deskVars, lockVars, RequestSound, Requests, Chat
    <3>2. RequestSound(p)'
      BY <2>5, Holdings DEF Refuse, TypeOK, RequestSound, Goto, Finish, deskVars, lockVars, Chat, Op, SessionPCs, LockPCs, Exists, Absent
    <3> QED BY <2>5, <3>1, <3>2, Quiet, Holdings DEF Refuse, LockPCs, SessionPCs, RequestSound, ById, Inbound
  <2>6. ASSUME NEW p \in Procs, PutCache(p) PROVE Inv'
    <3>1. cache' \in [Chats -> Row]
      BY <2>6, Holdings DEF PutCache, TypeOK
    <3>2. TypeOK' /\ Frame(p)
      BY <2>6, <3>1, RowTypes DEF PutCache, TypeOK, Frame, Goto, Finish, deskVars, lockVars
    <3>3. RequestSound(p)'
      BY <2>6, Holdings DEF PutCache, TypeOK, RequestSound, Goto, Finish, deskVars, lockVars, Chat, Op, SessionPCs, LockPCs
    <3> QED BY <2>6, <3>2, <3>3, Quiet DEF PutCache, LockPCs, SessionPCs
  <2>7. ASSUME NEW p \in Procs, InvalidateChat(p) PROVE Inv'
    <3>1. PICK c \in todo[p] :
            /\ cache' = [cache EXCEPT ![c] = Absent]
            /\ IF todo[p] = {c} THEN Finish(p)
               ELSE todo' = [todo EXCEPT ![p] = @ \ {c}] /\ UNCHANGED <<pc, req, seen>>
      BY <2>7 DEF InvalidateChat
    <3>2. CASE Finish(p)
      <4>1. TypeOK' /\ Frame(p)
        BY <2>7, <3>1, <3>2, RowTypes DEF InvalidateChat, TypeOK, Frame, Finish, deskVars, lockVars
      <4>2. RequestSound(p)'
        BY <2>7, <3>2, Holdings DEF InvalidateChat, TypeOK, RequestSound, Finish, lockVars, SessionPCs, LockPCs
      <4> QED BY <2>7, <4>1, <4>2, Quiet DEF InvalidateChat, LockPCs, SessionPCs
    <3>3. CASE todo' = [todo EXCEPT ![p] = @ \ {c}] /\ UNCHANGED <<pc, req, seen>>
      <4>1. TypeOK' /\ Frame(p)
        BY <2>7, <3>1, <3>3, RowTypes DEF InvalidateChat, TypeOK, Frame, deskVars, lockVars
      <4>2. RequestSound(p)'
        BY <2>7, <3>3, Holdings DEF InvalidateChat, RequestSound, deskVars, lockVars, Chat, Op, SessionPCs, LockPCs
      <4> QED BY <2>7, <4>1, <4>2, Quiet DEF InvalidateChat, LockPCs, SessionPCs
    <3> QED BY <3>1, <3>2, <3>3
  <2>8. ASSUME NEW p \in Procs, InboundFindOpen(p) PROVE Inv'
    <3>1. TypeOK' /\ Frame(p)
      BY <2>8, Holdings, RowTypes DEF InboundFindOpen, TypeOK, Frame, Goto, Finish, deskVars, lockVars, RequestSound, Requests, Chat
    <3>2. RequestSound(p)'
      BY <2>8, Holdings DEF InboundFindOpen, TypeOK, RequestSound, Goto, Finish, deskVars, lockVars, Chat, Op, SessionPCs, LockPCs, Exists, Absent, Inbound, ById
    <3> QED BY <2>8, <3>1, <3>2, Quiet, Holdings DEF InboundFindOpen, LockPCs, SessionPCs, RequestSound, ById, Inbound
  <2>9. ASSUME NEW p \in Procs, InboundFindClosed(p) PROVE Inv'
    <3>1. TypeOK' /\ Frame(p)
      BY <2>9, Holdings, RowTypes DEF InboundFindClosed, TypeOK, Frame, Goto, Finish, deskVars, lockVars, RequestSound, Requests, Chat
    <3>2. RequestSound(p)'
      BY <2>9, Holdings DEF InboundFindClosed, TypeOK, RequestSound, Goto, Finish, deskVars, lockVars, Chat, Op, SessionPCs, LockPCs, Exists, Absent, Inbound, ById
    <3> QED BY <2>9, <3>1, <3>2, Quiet, Holdings DEF InboundFindClosed, LockPCs, SessionPCs, RequestSound, ById, Inbound
  <2>10. ASSUME NEW p \in Procs, LockSession(p) PROVE Inv'
    <3>1. TypeOK' /\ Frame(p)
      BY <2>10, Holdings, RowTypes DEF LockSession, TypeOK, Frame, Goto, Finish, ReleaseLocks, deskVars, lockVars, RequestSound, Requests, Chat
    <3>2. Kept(p)
      BY <2>10, Holdings DEF LockSession, TypeOK, Kept, RequestSound, Goto, Finish, ReleaseLocks, deskVars, lockVars, Chat
    <3>3. RequestSound(p)'
      BY <2>10, Holdings DEF LockSession, TypeOK, RequestSound, Goto, Finish, ReleaseLocks, deskVars, lockVars, Chat, Op, SessionPCs, LockPCs, Exists, Absent
    <3>4. /\ \A c \in Chats : lock'[c] = p => pc'[p] \in LockPCs
          /\ session' = p => pc'[p] \in SessionPCs
      BY <2>10, Holdings DEF LockSession, TypeOK, Goto, Finish, ReleaseLocks, deskVars, lockVars, LockPCs, SessionPCs
    <3> QED BY <3>1, <3>2, <3>3, <3>4, OneRequest
  <2>11. ASSUME NEW p \in Procs, CreateFindOpen(p) PROVE Inv'
    <3>1. TypeOK' /\ Frame(p)
      BY <2>11, Holdings, RowTypes DEF CreateFindOpen, TypeOK, Frame, Goto, Finish, ReleaseLocks, deskVars, lockVars, RequestSound, Requests, Chat
    <3>2. Kept(p)
      BY <2>11, Holdings DEF CreateFindOpen, TypeOK, Kept, RequestSound, Goto, Finish, ReleaseLocks, deskVars, lockVars, Chat
    <3>3. RequestSound(p)'
      BY <2>11, Holdings DEF CreateFindOpen, TypeOK, RequestSound, Goto, Finish, ReleaseLocks, deskVars, lockVars, Chat, Op, SessionPCs, LockPCs, Exists, Absent
    <3>4. /\ \A c \in Chats : lock'[c] = p => pc'[p] \in LockPCs
          /\ session' = p => pc'[p] \in SessionPCs
      BY <2>11, Holdings DEF CreateFindOpen, TypeOK, Goto, Finish, ReleaseLocks, deskVars, lockVars, LockPCs, SessionPCs
    <3> QED BY <3>1, <3>2, <3>3, <3>4, OneRequest
  <2>12. ASSUME NEW p \in Procs, CreateFindClosed(p) PROVE Inv'
    <3>1. TypeOK' /\ Frame(p)
      BY <2>12, Holdings DEF CreateFindClosed, TypeOK, Frame, Goto, deskVars
    <3>2. Kept(p)
      BY <2>12, Holdings DEF CreateFindClosed, TypeOK, Kept, RequestSound, Goto, deskVars
    <3>3. RequestSound(p)'
      <4>1. lock[Chat(p)] # p /\ Chat(p) \in Chats /\ req[p] \in Requests
        BY <2>12, Holdings DEF CreateFindClosed, LockPCs, RequestSound
      <4>2. lock'[Chat(p)] = p => row[Chat(p)].status = "CLOSED"
        BY <2>12, <4>1 DEF CreateFindClosed, TypeOK
      <4> QED BY <2>12, <4>1, <4>2, Holdings DEF CreateFindClosed, RequestSound, Goto, deskVars, Chat, Op, TypeOK
    <3>4. /\ \A c \in Chats : lock'[c] = p => pc'[p] \in LockPCs
          /\ session' = p => pc'[p] \in SessionPCs
      BY <2>12, Holdings DEF CreateFindClosed, TypeOK, Goto, LockPCs, SessionPCs
    <3> QED BY <3>1, <3>2, <3>3, <3>4, OneRequest
  <2>13. ASSUME NEW p \in Procs, CreateWrite(p) PROVE Inv'
    <3>1. TypeOK' /\ Frame(p)
      BY <2>13, Holdings DEF CreateWrite, TypeOK, Frame, Goto, deskVars
    <3>2. Kept(p)
      BY <2>13, Holdings DEF CreateWrite, TypeOK, Kept, RequestSound, Goto, deskVars
    <3>3. RequestSound(p)'
      <4>1. Chat(p) \in Chats /\ req[p] \in Requests /\ Op(p) = "create"
        BY <2>13, Holdings DEF CreateWrite, RequestSound
      <4>2. lock'[Chat(p)] = p /\ row[Chat(p)].status \in {"NONE", "CLOSED"}
        BY <2>13, <4>1, Holdings DEF CreateWrite, TypeOK, RequestSound, Absent
      <4> QED BY <2>13, <4>1, <4>2 DEF CreateWrite, RequestSound, Goto, deskVars, Chat, Op, TypeOK
    <3>4. /\ \A c \in Chats : lock'[c] = p => pc'[p] \in LockPCs
          /\ session' = p => pc'[p] \in SessionPCs
      BY <2>13, Holdings DEF CreateWrite, TypeOK, Goto, LockPCs, SessionPCs
    <3> QED BY <3>1, <3>2, <3>3, <3>4, OneRequest
  <2>14. ASSUME NEW p \in Procs, CreateFails(p) PROVE Inv'
    <3>1. TypeOK' /\ Frame(p)
      BY <2>14, Holdings, RowTypes DEF CreateFails, TypeOK, Frame, Goto, Finish, ReleaseLocks, deskVars, lockVars, RequestSound, Requests, Chat
    <3>2. Kept(p)
      BY <2>14, Holdings DEF CreateFails, TypeOK, Kept, RequestSound, Goto, Finish, ReleaseLocks, deskVars, lockVars, Chat
    <3>3. RequestSound(p)'
      BY <2>14, Holdings DEF CreateFails, TypeOK, RequestSound, Goto, Finish, ReleaseLocks, deskVars, lockVars, Chat, Op, SessionPCs, LockPCs, Exists, Absent
    <3>4. /\ \A c \in Chats : lock'[c] = p => pc'[p] \in LockPCs
          /\ session' = p => pc'[p] \in SessionPCs
      BY <2>14, Holdings DEF CreateFails, TypeOK, Goto, Finish, ReleaseLocks, deskVars, lockVars, LockPCs, SessionPCs
    <3> QED BY <3>1, <3>2, <3>3, <3>4, OneRequest
  <2>15. ASSUME NEW p \in Procs, CreateCommit(p) PROVE Inv'
    <3> DEFINE c == Chat(p)
               new == Written(req[p], seen[p], row[c])
    <3>1. /\ req[p] \in Requests /\ c \in Chats /\ Op(p) = "create" /\ lock[c] = p
          /\ req[p].user \in Owner
      BY <2>15, Holdings DEF CreateCommit, RequestSound
    <3>2. new \in Row /\ Exists(new)
      BY <3>1, WrittenType DEF TypeOK, Op
    <3>3. /\ row' = [row EXCEPT ![c] = new]
          /\ by' = req[p].user /\ suspect' = suspect \ {c} /\ UNCHANGED <<users, cache, req, seen>>
          /\ ReleaseLocks(p)
          /\ pc' = [pc EXCEPT ![p] = "inval"] /\ todo' = [todo EXCEPT ![p] = {c}]
      BY <2>15 DEF CreateCommit
    <3> HIDE DEF new, c
    <3>4. TypeOK' /\ Frame(p)
      BY <3>1, <3>2, <3>3 DEF TypeOK, Frame, ReleaseLocks
    <3>5. Kept(p)
      BY <3>1, <3>2, <3>3, Holdings DEF TypeOK, Kept, ReleaseLocks, RequestSound
    <3>6. RequestSound(p)'
      BY <3>1, <3>3, Holdings DEF TypeOK, RequestSound, ReleaseLocks
    <3>7. (\A d \in Chats : lock'[d] # p) /\ session' # p
      BY <3>3, Holdings DEF ReleaseLocks, TypeOK
    <3> QED BY <3>4, <3>5, <3>6, <3>7, OneRequest
  <2>16. ASSUME NEW p \in Procs, BulkUnassign(p) PROVE Inv'
    <3>1. TypeOK' /\ Frame(p)
      BY <2>16, Holdings, RowTypes DEF BulkUnassign, TypeOK, Frame, Goto, Finish, ReleaseLocks, deskVars, lockVars, RequestSound, Requests, Chat
    <3>2. Kept(p)
      BY <2>16, Holdings DEF BulkUnassign, TypeOK, Kept, RequestSound, Goto, Finish, ReleaseLocks, deskVars, lockVars, Chat
    <3>3. RequestSound(p)'
      BY <2>16, Holdings DEF BulkUnassign, TypeOK, RequestSound, Goto, Finish, ReleaseLocks, deskVars, lockVars, Chat, Op, SessionPCs, LockPCs, Exists, Absent
    <3>4. /\ \A c \in Chats : lock'[c] = p => pc'[p] \in LockPCs
          /\ session' = p => pc'[p] \in SessionPCs
      BY <2>16, Holdings DEF BulkUnassign, TypeOK, Goto, Finish, ReleaseLocks, deskVars, lockVars, LockPCs, SessionPCs
    <3> QED BY <3>1, <3>2, <3>3, <3>4, OneRequest
  <2>17. ASSUME NEW p \in Procs, DeleteCommit(p) PROVE Inv'
    <3> DEFINE u == req[p].to
               late == {c \in Chats : row[c].agent = u} \ todo[p]
    <3>1. /\ row' = [c \in Chats |-> IF c \in todo[p] THEN bulkUnassignChatsByUser(row[c])
                                     ELSE IF c \in late THEN [row[c] EXCEPT !.agent = NoAgent]
                                     ELSE row[c]]
          /\ \A c \in late : lock[c] = NoProc
          /\ \A q \in Procs : pc[q] = "commit" => req[q].user # u
          /\ users' = users \ {u} /\ by' = req[p].user
          /\ suspect' = (suspect \ todo[p]) \cup {c \in late : row[c].status = "OPEN"}
          /\ ReleaseLocks(p) /\ UNCHANGED cache
          /\ \/ Finish(p)
             \/ pc' = [pc EXCEPT ![p] = "inval"] /\ UNCHANGED <<req, seen, todo>>
      BY <2>17 DEF DeleteCommit
    <3>2. /\ req[p] \in Requests /\ req[p].user \in Owner
          /\ pc[p] = "deleteRow" /\ Op(p) = "delete"
          /\ todo[p] \in SUBSET Chats
          /\ \A c \in todo[p] : lock[c] = p
      BY <2>17, Holdings DEF DeleteCommit, RequestSound, TypeOK
    <3>3. /\ row' \in [Chats -> Row]
          /\ \A c \in Chats : Exists(row[c]) => Exists(row'[c])
      <4>1. ASSUME NEW c \in Chats
            PROVE  /\ bulkUnassignChatsByUser(row[c]) \in Row
                   /\ Exists(bulkUnassignChatsByUser(row[c]))
                   /\ [row[c] EXCEPT !.agent = NoAgent] \in Row
                   /\ [row[c] EXCEPT !.agent = NoAgent].status = row[c].status
        BY DEF TypeOK, bulkUnassignChatsByUser, Exists, Row, Status, Owner
      <4> QED BY <3>1, <4>1 DEF TypeOK, Exists
    <3>4. TypeOK'
      <4>1. /\ users' \in SUBSET Users /\ by' \in Owner /\ suspect' \in SUBSET Chats
            /\ lock' \in [Chats -> Procs \cup {NoProc}] /\ session' \in Procs \cup {NoProc}
        BY <3>1, <3>2 DEF TypeOK, ReleaseLocks
      <4>2. seen' \in [Procs -> Row] /\ req' \in [Procs -> Requests \cup {NoRequest}]
            /\ todo' \in [Procs -> SUBSET Chats]
        BY <3>1, RowTypes DEF TypeOK, Finish
      <4> QED BY <3>1, <3>3, <4>1, <4>2 DEF TypeOK, Finish
    <3>5. Frame(p)
      BY <3>1 DEF Frame, TypeOK, Finish
    <3>6. Kept(p)
      <4>1. ASSUME NEW q \in Procs \ {p}, NEW c \in Chats
            PROVE  (lock'[c] = q <=> lock[c] = q) /\ (lock[c] = q => row'[c] = row[c])
        <5>1. q # NoProc
          BY Holdings
        <5> QED BY <5>1, <3>1, <3>2 DEF ReleaseLocks, TypeOK
      <4>2. ASSUME NEW q \in Procs \ {p}
            PROVE  (session' = q => session = q) /\ (pc[q] = "commit" => req[q].user \in users')
        BY <3>1, Holdings DEF ReleaseLocks, RequestSound
      <4> QED BY <3>3, <4>1, <4>2 DEF Kept
    <3>7. (\A c \in Chats : lock'[c] # p) /\ session' # p
      BY <3>1, Holdings DEF ReleaseLocks, TypeOK
    <3>8. pc'[p] \in {"idle", "inval"} /\ (pc'[p] = "inval" => req'[p] = req[p])
      BY <3>1 DEF Finish, TypeOK
    <3>9. RequestSound(p)'
      BY <3>2, <3>7, <3>8 DEF RequestSound
    <3> QED BY <3>4, <3>5, <3>6, <3>7, <3>9, OneRequest
  <2>18. ASSUME NEW p \in Procs, DeleteFails(p) PROVE Inv'
    <3>1. TypeOK' /\ Frame(p)
      BY <2>18, Holdings, RowTypes DEF DeleteFails, TypeOK, Frame, Goto, Finish, ReleaseLocks, deskVars, lockVars, RequestSound, Requests, Chat
    <3>2. Kept(p)
      BY <2>18, Holdings DEF DeleteFails, TypeOK, Kept, RequestSound, Goto, Finish, ReleaseLocks, deskVars, lockVars, Chat
    <3>3. RequestSound(p)'
      BY <2>18, Holdings DEF DeleteFails, TypeOK, RequestSound, Goto, Finish, ReleaseLocks, deskVars, lockVars, Chat, Op, SessionPCs, LockPCs, Exists, Absent
    <3>4. /\ \A c \in Chats : lock'[c] = p => pc'[p] \in LockPCs
          /\ session' = p => pc'[p] \in SessionPCs
      BY <2>18, Holdings DEF DeleteFails, TypeOK, Goto, Finish, ReleaseLocks, deskVars, lockVars, LockPCs, SessionPCs
    <3> QED BY <3>1, <3>2, <3>3, <3>4, OneRequest
  <2>19. ASSUME NEW p \in Procs, Fail(p) PROVE Inv'
    <3>1. TypeOK' /\ Frame(p)
      BY <2>19, Holdings, RowTypes DEF Fail, TypeOK, Frame, Goto, Finish, ReleaseLocks, deskVars, lockVars, RequestSound, Requests, Chat
    <3>2. Kept(p)
      BY <2>19, Holdings DEF Fail, TypeOK, Kept, RequestSound, Goto, Finish, ReleaseLocks, deskVars, lockVars, Chat
    <3>3. RequestSound(p)'
      BY <2>19, Holdings DEF Fail, TypeOK, RequestSound, Goto, Finish, ReleaseLocks, deskVars, lockVars, Chat, Op, SessionPCs, LockPCs, Exists, Absent
    <3>4. /\ \A c \in Chats : lock'[c] = p => pc'[p] \in LockPCs
          /\ session' = p => pc'[p] \in SessionPCs
      BY <2>19, Holdings DEF Fail, TypeOK, Goto, Finish, ReleaseLocks, deskVars, lockVars, LockPCs, SessionPCs
    <3> QED BY <3>1, <3>2, <3>3, <3>4, OneRequest
  <2>20. ASSUME NEW p \in Procs, Update(p) PROVE Inv'
    <3> DEFINE c == Chat(p)
               new == Written(req[p], seen[p], row[c])
    <3>1. PICK next \in {"put", "inval"} : UpdateRow(p, next)
      BY <2>20 DEF Update, assignChat, unassignChat, closeChat, reopenChat, reassignChat,
                   runAutoAssignment, closeChatForInactivityDb, recordInbound
    <3>2. /\ pc[p] = "write" /\ req[p] \in Requests /\ c \in Chats /\ req[p].user \in Owner
          /\ Op(p) \in ById \cup Inbound \cup {"auto"}
      BY <3>1, Holdings DEF UpdateRow, RequestSound
    <3>3. new \in Row /\ Exists(new)
      BY <3>2, WrittenType DEF TypeOK, Op
    <3>4. /\ lock[c] = NoProc
          /\ row' = [row EXCEPT ![c] = new]
          /\ by' = req[p].user
          /\ suspect' \in {suspect, suspect \cup {c}, suspect \ {c}}
          /\ seen' = [seen EXCEPT ![p] = IF next = "put" THEN new ELSE Absent]
          /\ pc' = [pc EXCEPT ![p] = next] /\ todo' = [todo EXCEPT ![p] = {c}]
          /\ UNCHANGED <<users, cache, lock, session, req>>
      BY <3>1 DEF UpdateRow, lockVars
    <3> HIDE DEF new, c
    <3>5. TypeOK' /\ Frame(p)
      BY <3>2, <3>3, <3>4, RowTypes DEF TypeOK, Frame
    <3>6. Kept(p)
      BY <3>2, <3>3, <3>4, Holdings DEF TypeOK, Kept, RequestSound
    <3>7. RequestSound(p)'
      BY <3>2, <3>4, Holdings DEF TypeOK, RequestSound, SessionPCs
    <3>8. (\A d \in Chats : lock'[d] # p) /\ session' # p
      BY <3>2, <3>4, Holdings DEF LockPCs, SessionPCs
    <3> QED BY <3>5, <3>6, <3>7, <3>8, OneRequest
  <2>21. ASSUME NEW c \in Chats, Expire(c) PROVE Inv'
    <3>1. TypeOK'
      BY <2>21, RowTypes DEF Expire, TypeOK, deskVars, lockVars, procVars
    <3> QED BY <2>21, <3>1 DEF Expire, LocksInTransactions, RequestsSound, RequestSound,
                               deskVars, lockVars, procVars, Chat, Op
  <2>22. CASE UNCHANGED vars
    BY <2>22 DEF vars, TypeOK, LocksInTransactions, RequestsSound, RequestSound, Chat, Op
  <2> HIDE DEF Inv
  <2> QED BY <2>1, <2>2, <2>3, <2>4, <2>5, <2>6, <2>7, <2>8, <2>9, <2>10, <2>11, <2>12, <2>13,
             <2>14, <2>15, <2>16, <2>17, <2>18, <2>19, <2>20, <2>21, <2>22 DEF Next, Step
<1> QED BY <1>1, <1>2, PTL DEF Spec

(* Type correctness.                                                       *)
THEOREM TypesCorrect == Spec => []TypeOK
BY Invariant, PTL DEF Inv

(* No lock outlives the transaction that took it.                          *)
THEOREM LocksReleased == Spec => []LocksInTransactions
BY Invariant, PTL DEF Inv

(* What a request relies on between two statements stays so: no chat it    *)
(* works on disappears, and under its locks the rows are as it read them.  *)
THEOREM RequestsStaySound == Spec => []RequestsSound
BY Invariant, PTL DEF Inv

-----------------------------------------------------------------------------
(* The refinement.  The desk speaks of rows in the same terms.             *)
LEMMA SameTerms ==
  /\ Desk!Users = Users /\ Desk!Owner = Owner /\ Desk!Status = Status /\ Desk!Row = Row
  /\ Desk!Absent = Absent /\ Desk!unassignChatDb = unassignChatDb /\ Desk!closedRow = closedRow
  /\ \A x : Desk!Exists(x) <=> Exists(x)
  /\ \A x : Desk!assignChatDb(x) = assignChatDb(x)
  /\ \A x : Desk!IsSupervisor(x) <=> isSupervisor(x)
  /\ \A x : Desk!bulkUnassignChatsByUser(x) = bulkUnassignChatsByUser(x)
  /\ \A x, y : Desk!isUserInQueue(x, y) <=> isUserInQueue(x, y)
  /\ \A x, y : Desk!reopenedRow(x, y) = reopenedRow(x, y)
  /\ \A x, y : Desk!touchChatOnInbound(x, y) = touchChatOnInbound(x, y)
  /\ \A x, y : Desk!createChatRecord(x, y) = createChatRecord(x, y)
BY DEF Desk!Users, Users, Desk!Owner, Owner, Desk!Status, Status, Desk!Row, Row, Desk!Absent, Absent,
       Desk!unassignChatDb, unassignChatDb, Desk!closedRow, closedRow, Desk!Exists, Exists,
       Desk!assignChatDb, assignChatDb, Desk!IsSupervisor, isSupervisor,
       Desk!bulkUnassignChatsByUser, bulkUnassignChatsByUser, Desk!isUserInQueue, isUserInQueue,
       Desk!reopenedRow, reopenedRow, Desk!touchChatOnInbound, touchChatOnInbound,
       Desk!createChatRecord, createChatRecord

(* A request that was not overtaken: with the row of now in hand it would  *)
(* have been let through and would have written the same.                  *)
LEMMA UpdateIsLegal ==
  ASSUME Inv, NEW p \in Procs, NEW next \in {"put", "inval"}, UpdateRow(p, next),
         ~WasOvertaken(req[p], seen[p], row[Chat(p)])
  PROVE  Desk!Next
<1> DEFINE c == Chat(p)
           r == req[p]
           cur == row[c]
           new == Written(r, cur, cur)
<1>1. /\ r \in Requests /\ c \in Chats /\ r.chat = c /\ cur \in Row
      /\ r.op \in ById \cup Inbound \cup {"auto"}
      /\ r.op \in ById \cup {"auto"} => Exists(cur)
      /\ by' = r.user /\ r.user \in Owner /\ r.to \in Owner /\ UNCHANGED users
      /\ r.user = NoAgent <=> r.op \in Systemic
      /\ r.to = NoAgent <=> r.op \notin {"transfer", "auto", "delete"}
      /\ r.op = "auto" => r.to \in Agents
      /\ Permitted(r, cur)
      /\ row' = [row EXCEPT ![c] = new]
      /\ new.agent \in users \cup {NoAgent}
      /\ suspect' = IF r.op \in WholeRow THEN suspect \ {c} ELSE suspect
  <2>1. r \in Requests /\ c \in Chats /\ cur \in Row /\ RequestSound(p)
    BY Holdings DEF UpdateRow, RequestSound, Inv, TypeOK
  <2>2. Permitted(r, cur) /\ Written(r, seen[p], cur) = Written(r, cur, cur)
    BY DEF WasOvertaken
  <2> QED BY <2>1, <2>2 DEF UpdateRow, RequestSound, Op, ById, Inbound, Requests, Chat
<1>2. users \subseteq Users /\ NoAgent \notin Users
  BY RolesAssumption DEF Inv, TypeOK, Users
<1> HIDE DEF c, r, cur, new
<1> USE SameTerms
<1> SUFFICES \/ r.user \in Users /\ Desk!ByUser(r.user)
             \/ r.user = NoAgent /\ Desk!BySystem
  BY <1>1 DEF Desk!Next
<1>3. ASSUME r.op \in WholeRow PROVE Desk!Replace(c, new)
  BY <1>1, <1>3 DEF Desk!Replace
<1>4. ASSUME r.op \notin WholeRow PROVE Desk!Patch(c, new)
  BY <1>1, <1>4 DEF Desk!Patch
<1>5. r.op \in {"assign", "unassign", "close", "reopen", "transfer"} => r.user \in Users
  BY <1>1 DEF Systemic, Inbound, Owner
<1>6. CASE r.op = "assign"
  <2>1. new = assignChatDb(r.user) /\ MayTake(r, cur)
    BY <1>1, <1>6 DEF Written, Permitted, new
  <2>2. r.user \in users
    BY <1>1, <1>2, <1>5, <1>6, <2>1 DEF assignChatDb
  <2>3. Desk!Take(c, r.user)
    BY <1>1, <1>3, <1>6, <2>1, <2>2 DEF Desk!Take, MayTake, ById, WholeRow, cur
  <2> QED BY <1>1, <1>5, <1>6, <2>3 DEF Desk!ByUser
<1>7. CASE r.op \in {"unassign", "close"}
  <2>1. MayEnd(r, cur) /\ new = IF r.op = "unassign" THEN unassignChatDb ELSE closedRow
    BY <1>1, <1>7 DEF Written, Permitted, new
  <2>2. Desk!MayEnd(c, r.user)
    BY <1>1, <1>7, <2>1 DEF Desk!MayEnd, MayEnd, ById, cur
  <2>3. Desk!Release(c, r.user) \/ Desk!Close(c, r.user)
    BY <1>3, <1>7, <2>1, <2>2 DEF Desk!Release, Desk!Close, WholeRow
  <2> QED BY <1>1, <1>5, <1>7, <2>3 DEF Desk!ByUser
<1>8. CASE r.op = "reopen"
  <2>1. isUserInQueue(r.user, c) /\ new = reopenedRow(cur, cur)
    BY <1>1, <1>8 DEF Written, Permitted, new
  <2>2. Desk!Reopen(c, r.user)
    BY <1>1, <1>4, <1>8, <2>1 DEF Desk!Reopen, WholeRow, ById, cur
  <2> QED BY <1>1, <1>5, <1>8, <2>2 DEF Desk!ByUser
<1>9. CASE r.op = "transfer"
  <2>1. new = assignChatDb(r.to) /\ MayTransfer(r, cur)
    BY <1>1, <1>9 DEF Written, Permitted, new
  <2>2. r.to \in users /\ r.to \in Users
    BY <1>1, <1>2, <1>9, <2>1 DEF assignChatDb
  <2>3. Desk!Transfer(c, r.user, r.to)
    BY <1>1, <1>3, <1>9, <2>1, <2>2 DEF Desk!Transfer, MayTransfer, ById, WholeRow, cur
  <2> QED BY <1>1, <1>5, <1>9, <2>2, <2>3 DEF Desk!ByUser
<1>10. CASE r.op = "auto"
  <2>1. new = assignChatDb(r.to) /\ cur.status = "UNASSIGNED" /\ isUserInQueue(r.to, c)
    BY <1>1, <1>10 DEF Written, Permitted, new
  <2>2. r.to \in users \cap Agents
    BY <1>1, <1>2, <1>10, <2>1 DEF assignChatDb
  <2>3. Desk!Dispatch(c, r.to)
    BY <1>1, <1>3, <1>10, <2>1, <2>2 DEF Desk!Dispatch, WholeRow, cur
  <2> QED BY <1>1, <1>10, <2>2, <2>3 DEF Desk!BySystem, Systemic
<1>11. CASE r.op = "autoclose"
  <2>1. new = closedRow /\ cur.status = "OPEN"
    BY <1>1, <1>11 DEF Written, Permitted, MayExpire, new
  <2>2. Desk!Expire(c)
    BY <1>3, <1>11, <2>1 DEF Desk!Expire, WholeRow, cur
  <2> QED BY <1>1, <1>11, <2>2 DEF Desk!BySystem, Systemic
<1>12. CASE r.op \in Inbound
  <2>1. new = handleIncomingWhatsAppMessage(r.op, cur, cur)
    BY <1>12 DEF Written, Inbound, new
  <2>2. Desk!Patch(c, new)
    BY <1>4, <1>12 DEF Inbound, WholeRow
  <2>3. \E s \in Status : Desk!Arrive(c, s)
    <3>1. CASE cur.status \in {"OPEN", "CLOSED"}
      <4> DEFINE s == nextStatus(r.op, cur.status)
      <4>1. /\ s \in Status
            /\ <<cur.status, s>> \in {<<"OPEN", "OPEN">>, <<"OPEN", "CLOSED">>,
                                      <<"CLOSED", "UNASSIGNED">>, <<"CLOSED", "CLOSED">>}
        BY <1>12, <3>1 DEF nextStatus, Status, Inbound
      <4>2. new = touchChatOnInbound(cur, s)
        BY <2>1, <3>1 DEF handleIncomingWhatsAppMessage
      <4> HIDE DEF s
      <4>3. Desk!Arrive(c, s)
        BY <2>2, <3>1, <4>1, <4>2 DEF Desk!Arrive, cur
      <4> QED BY <4>1, <4>3
    <3>2. CASE cur.status \in {"NONE", "UNASSIGNED"}
      <4> DEFINE s == firstStatus(r.op)
      <4>1. s \in {"UNASSIGNED", "CLOSED"} /\ s \in Status
        BY DEF firstStatus, Status
      <4>2. new = createChatRecord(cur, s)
        BY <2>1, <3>2 DEF handleIncomingWhatsAppMessage
      <4> HIDE DEF s
      <4>3. Desk!Arrive(c, s)
        BY <2>2, <3>2, <4>1, <4>2 DEF Desk!Arrive, cur
      <4> QED BY <4>1, <4>3
    <3> QED BY <1>1, <3>1, <3>2 DEF Row, Status
  <2> QED BY <1>1, <1>12, <2>3 DEF Desk!BySystem, Systemic
<1> QED BY <1>1, <1>6, <1>7, <1>8, <1>9, <1>10, <1>11, <1>12 DEF ById

(* A request that was overtaken writes some row over one that exists.      *)
LEMMA UpdateIsOvertaken ==
  ASSUME Inv, NEW p \in Procs, NEW next \in {"put", "inval"}, UpdateRow(p, next),
         WasOvertaken(req[p], seen[p], row[Chat(p)])
  PROVE  Desk!Next
<1> DEFINE c == Chat(p)
           new == Written(req[p], seen[p], row[c])
<1>1. /\ req[p] \in Requests /\ c \in Chats /\ RequestSound(p) /\ pc[p] = "write"
      /\ req[p].op \in ById \cup Inbound \cup {"auto"}
  BY Holdings DEF UpdateRow, RequestSound, Op
<1>2. new \in Row /\ Exists(new)
  BY <1>1, WrittenType DEF Inv, TypeOK
<1>3. /\ suspect' = suspect \cup {c} /\ UNCHANGED users /\ by' = req[p].user /\ by' \in Owner
      /\ row' = [row EXCEPT ![c] = new]
      /\ new.agent \in users \cup {NoAgent}
  BY <1>1 DEF UpdateRow, Requests
<1>4. Exists(row[c])
  <2>1. CASE Op(p) \in Inbound /\ ~Exists(seen[p])
    <3>1. /\ seen[p] \in Row /\ row[c] \in Row /\ seen[p].status = "NONE" /\ Permitted(req[p], row[c])
      BY <1>1, <2>1 DEF Inv, TypeOK, Exists, Permitted, Inbound, Op
    <3>2. Written(req[p], seen[p], row[c]) # Written(req[p], row[c], row[c])
      BY <3>1 DEF WasOvertaken
    <3>3. ASSUME NEW x PROVE Written(req[p], x, row[c]) = handleIncomingWhatsAppMessage(Op(p), x, row[c])
      BY <2>1 DEF Written, Inbound, Op
    <3> QED BY <3>1, <3>2, <3>3 DEF handleIncomingWhatsAppMessage, Exists
  <2> QED BY <1>1, <2>1 DEF RequestSound
<1> HIDE DEF c, new
<1>5. new = [status |-> new.status, agent |-> new.agent] /\ new.status \in Status
  BY <1>2 DEF Row, Exists
<1>6. Desk!Overtaken(c)
  BY <1>2, <1>3, <1>4, <1>5, SameTerms DEF Desk!Overtaken
<1> QED BY <1>1, <1>3, <1>6, SameTerms DEF Desk!Next

(* The commit of createOrReopenChat is the desk's Begin: the locks kept    *)
(* the row as it was read.                                                 *)
LEMMA CreateIsLegal == ASSUME Inv, NEW p \in Procs, CreateCommit(p) PROVE Desk!Next
<1> DEFINE c == Chat(p)
           u == req[p].user
<1>1. /\ c \in Chats /\ Op(p) = "create" /\ u \in users /\ users \subseteq Users
      /\ row[c].status \in {"NONE", "CLOSED"}
  BY Holdings DEF CreateCommit, RequestSound, Inv, TypeOK
<1>2. row' = [row EXCEPT ![c] = assignChatDb(u)] /\ by' = u /\ suspect' = suspect \ {c} /\ UNCHANGED users
  BY <1>1 DEF CreateCommit, Written, Op
<1> HIDE DEF c, u
<1>3. Desk!Begin(c, u)
  BY <1>1, <1>2, SameTerms DEF Desk!Begin, Desk!Replace
<1> QED BY <1>1, <1>2, <1>3, SameTerms DEF Desk!Next, Desk!ByUser, Owner

(* The commit of deleteUser is the desk's removal of a user, whose chats   *)
(* assigned in between are marked.                                         *)
LEMMA DeleteIsLegal == ASSUME Inv, NEW p \in Procs, DeleteCommit(p) PROVE Desk!Next
<1> DEFINE a == req[p].to
           K == todo[p]
           held == {c \in Chats : row[c].agent = a}
<1>1. /\ req[p] \in Requests /\ Op(p) = "delete" /\ K \in SUBSET Chats /\ a \in users /\ users \subseteq Users
      /\ \A c \in K : row[c].agent = a
  BY Holdings DEF DeleteCommit, RequestSound, Inv, TypeOK
<1>2. by' = req[p].user /\ req[p].user \in Admins
  BY <1>1 DEF DeleteCommit, Requests, Op
<1>3. /\ row' = [c \in Chats |-> IF c \in K THEN bulkUnassignChatsByUser(row[c])
                                 ELSE IF c \in held THEN [row[c] EXCEPT !.agent = NoAgent]
                                 ELSE row[c]]
      /\ users' = users \ {a}
      /\ suspect' = (suspect \ K) \cup {c \in held \ K : row[c].status = "OPEN"}
  BY DEF DeleteCommit
<1>4. Desk!RemoveUser(a, K)
  BY <1>1, <1>3, SameTerms DEF Desk!RemoveUser
<1>5. req[p].user \in Users /\ req[p].user \in Owner /\ a \in Users
  BY <1>1, <1>2, RolesAssumption DEF Users, Owner
<1> HIDE DEF a, K
<1> QED BY <1>1, <1>2, <1>4, <1>5, SameTerms DEF Desk!Next, Desk!ByUser

(* Every handler, interleaved with any others, implements the desk.        *)
THEOREM Implements == Spec => DeskSpec
<1>1. Init => Desk!Init
  BY SameTerms DEF Init, Desk!Init
<1>2. Inv /\ [Next]_vars => [Desk!Next]_(Desk!vars)
  <2> SUFFICES ASSUME Inv, [Next]_vars PROVE Desk!Next \/ UNCHANGED deskVars
    BY DEF deskVars, Desk!vars
  <2>1. ASSUME NEW p \in Procs, Update(p) PROVE Desk!Next
    <3>1. PICK next \in {"put", "inval"} : UpdateRow(p, next)
      BY <2>1 DEF Update, assignChat, unassignChat, closeChat, reopenChat, reassignChat,
                  runAutoAssignment, closeChatForInactivityDb, recordInbound
    <3> QED BY <3>1, UpdateIsLegal, UpdateIsOvertaken
  <2>2. ASSUME NEW p \in Procs, Step(p), ~Update(p), ~CreateCommit(p), ~DeleteCommit(p)
        PROVE  UNCHANGED deskVars
    BY <2>2 DEF Step, ReadCache, SelectChat, FillCache, Refuse, PutCache, InvalidateChat,
                InboundFindOpen, InboundFindClosed, LockSession, CreateFindOpen, CreateFindClosed,
                CreateWrite, CreateFails, BulkUnassign, DeleteFails
  <2>3. ASSUME NEW p \in Procs, Fail(p) \/ (\E r \in Requests : Start(p, r)) PROVE UNCHANGED deskVars
    BY <2>3 DEF Fail, Start
  <2>4. ASSUME NEW c \in Chats, Expire(c) PROVE UNCHANGED deskVars
    BY <2>4 DEF Expire
  <2>5. CASE UNCHANGED vars
    BY <2>5 DEF vars, deskVars
  <2> QED BY <2>1, <2>2, <2>3, <2>4, <2>5, CreateIsLegal, DeleteIsLegal DEF Next
<1> QED BY <1>1, <1>2, Invariant, PTL DEF Spec, DeskSpec, Desk!Spec

(* So what holds of the desk holds of the handlers.                        *)
DeskP == INSTANCE ChatDeskProofs

(* The desk the handlers implement is the one ChatDeskProofs is about.     *)
LEMMA SameDesk == DeskSpec => DeskP!Spec
<1>1. Desk!Init <=> DeskP!Init
  BY DEF Desk!Init, DeskP!Init, Desk!Absent, DeskP!Absent, Desk!Users, DeskP!Users
<1>2. [Desk!Next]_(Desk!vars) <=> [DeskP!Next]_(DeskP!vars)
  BY DEF Desk!Next, DeskP!Next, Desk!Owner, DeskP!Owner, Desk!Users, DeskP!Users,
         Desk!ByUser, DeskP!ByUser, Desk!BySystem, DeskP!BySystem, Desk!Overtaken,
         DeskP!Overtaken, Desk!Take, DeskP!Take, Desk!Begin, DeskP!Begin,
         Desk!Release, DeskP!Release, Desk!Close, DeskP!Close, Desk!Reopen,
         DeskP!Reopen, Desk!Transfer, DeskP!Transfer, Desk!RemoveUser,
         DeskP!RemoveUser, Desk!Expire, DeskP!Expire, Desk!Dispatch, DeskP!Dispatch,
         Desk!Arrive, DeskP!Arrive, Desk!Replace, DeskP!Replace, Desk!Patch,
         DeskP!Patch, Desk!MayEnd, DeskP!MayEnd, Desk!Exists, DeskP!Exists,
         Desk!assignChatDb, DeskP!assignChatDb, Desk!unassignChatDb,
         DeskP!unassignChatDb, Desk!closedRow, DeskP!closedRow, Desk!reopenedRow,
         DeskP!reopenedRow, Desk!touchChatOnInbound, DeskP!touchChatOnInbound,
         Desk!createChatRecord, DeskP!createChatRecord, Desk!bulkUnassignChatsByUser,
         DeskP!bulkUnassignChatsByUser, Desk!isUserInQueue, DeskP!isUserInQueue,
         Desk!IsSupervisor, DeskP!IsSupervisor, Desk!Status, DeskP!Status, Desk!vars,
         DeskP!vars
<1> QED BY <1>1, <1>2, PTL DEF DeskSpec, Desk!Spec, DeskP!Spec

(* Only overtaken writes spoil a row, and no row names a deleted user.     *)
THEOREM RowsStaySound == Spec => []RowsSound
<1>1. DeskP!DeskSound <=> RowsSound
  BY DEF DeskP!DeskSound, RowsSound, Desk!DeskSound, Desk!WellFormed, DeskP!WellFormed
<1>2. DeskP!Spec => []DeskP!DeskSound
  BY DeskP!DeskIsSound, RolesAssumption
<1> QED BY Implements, SameDesk, <1>1, <1>2, PTL

(* No request of an agent takes an OPEN chat from another one, unless it   *)
(* was overtaken.                                                          *)
THEOREM AgentsKeepChats == Spec => OpenChatKeepsItsAgent
<1>1. [DeskP!KeepsAgents]_(DeskP!vars) => [Desk!KeepsAgents]_vars
  BY DEF DeskP!KeepsAgents, Desk!KeepsAgents, DeskP!vars
<1>2. DeskP!Spec => [][DeskP!KeepsAgents]_(DeskP!vars)
  BY DeskP!DeskKeepsAgents, RolesAssumption
<1> QED BY Implements, SameDesk, <1>1, <1>2, PTL DEF OpenChatKeepsItsAgent

(* Starting a conversation never takes over one that is going on.          *)
THEOREM CreateIsExclusive == Spec => CreateNeverSteals
<1>1. Inv => [\A p \in Procs : CreateCommit(p) => row[Chat(p)].status \in {"NONE", "CLOSED"}]_vars
  BY Holdings DEF CreateCommit, RequestSound
<1> QED BY Invariant, <1>1, PTL DEF CreateNeverSteals

-----------------------------------------------------------------------------
HIDE ProcsAssumption

(* The list of chats (ChatListScreen): types.                              *)
Rows    == {unassignChatDb, closedRow} \cup {assignChatDb(u) : u \in Users}
Card    == [status : Status, agent : Owner]
Shelves == UNION {[S -> Card] : S \in SUBSET Chats}
Word    == [name : {"message:new", "chat:auto-closed", "chat:update"}, chat : Chats, row : Rows,
            hidden : BOOLEAN, old : BOOLEAN]
Reading == {"list", "more"}
Writing == {"assign", "close", "transfer", "create"}
Calls   == [kind : Reading \cup Writing, at : {"asked", "read", "refused"}, tab : Tabs,
            sel : Chats \cup {NoChat}, cursor : SUBSET Chats, to : Users \cup {NoAgent},
            got : Shelves, next : SUBSET Chats, missed : SUBSET Chats, late : BOOLEAN]

ListTypes ==
  /\ me \in Users /\ table \in [Chats -> Rows]
  /\ older \in [Chats -> SUBSET Chats] /\ \A c \in Chats : c \notin older[c]
  /\ events \in Seq(Word) /\ reqs \in Seq(Calls) /\ chats \in Shelves
  /\ activeTab \in Tabs /\ activeChatId \in Chats \cup {NoChat}
  /\ chatCursor \in SUBSET Chats /\ outdated \in BOOLEAN

(* An agent sees chats of his own, and no other tab.                       *)
Mine(list) == \A c \in DOMAIN list : list[c] = assignChatDb(me)
AgentSound == ~Leads => activeTab = "OPEN" /\ Mine(chats)

(* A page that was read is the table's, but for what was written since.    *)
Shown(c, tab) == InTab(table[c], tab) /\ Listed(table[c])
Ahead(cursor) == IF cursor = NoCursor THEN {} ELSE cursor
PageSound(q) ==
  /\ \A c \in DOMAIN q.got \ q.missed : q.got[c] = table[c] /\ Shown(c, q.tab)
  /\ \A c \in q.cursor \ q.missed : Shown(c, q.tab) /\ c \notin Ahead(q.next) => c \in DOMAIN q.got

(* A request for a list begins at its head; nothing is late for what has   *)
(* not been read; the answer to a write is the row it made.                *)
CallSound(q) ==
  /\ q.kind = "list" => q.cursor = NoCursor
  /\ q.at # "read" => q.missed = {}
  /\ q.kind \in Writing => q.sel \in Chats
  /\ q.kind = "transfer" => q.to \in Users
  /\ q.kind \in Writing /\ q.at = "read" => q.got = [d \in {q.sel} |-> RowMade(q)]
  /\ q.kind \in Writing /\ q.at = "read" /\ q.sel \notin q.missed => table[q.sel] = RowMade(q)
  /\ ~Leads => q.tab = "OPEN" /\ (q.kind \in Reading => Mine(q.got))
  /\ q.kind \in Reading /\ q.at = "read" => PageSound(q)
CallsSound == \A i \in DOMAIN reqs : CallSound(reqs[i])

(* The last word on a chat leaves it as the table has it.                  *)
Tells(e) ==
  IF Leads \/ table[e.chat] = assignChatDb(me)
  THEN e.name # "chat:auto-closed" /\ ~e.hidden /\ e.row = table[e.chat]
  ELSE e.name = "chat:auto-closed" \/ (e.name = "chat:update" /\ e.hidden) \/ e.row # assignChatDb(me)
WordsSound ==
  \A i \in DOMAIN events : ~events[i].old =>
    \/ Tells(events[i])
    \/ \E k \in DOMAIN events : k > i /\ events[k].chat = events[i].chat /\ ~events[k].old

(* Of a chat that the list has wrong, word is on its way or an answer.     *)
Told(c) == \E i \in DOMAIN events : events[i].chat = c /\ ~events[i].old
Answered(c) == \E j \in DOMAIN reqs : reqs[j].at = "read" /\ reqs[j].kind \in Writing /\ reqs[j].sel = c
HasIt(c) == c \in DOMAIN chats => chats[c] = table[c] /\ Shown(c, activeTab)
Holds(c, cursor) == Shown(c, activeTab) /\ c \notin cursor => c \in DOMAIN chats

(* It stays so as long as no load is on its way and nothing is lost.       *)
Loading == \E j \in DOMAIN reqs : reqs[j].kind = "list"
Steady == ~outdated /\ ~Loading /\ \A i \in DOMAIN events : ~events[i].old
ListSound ==
  Steady => \A c \in Chats : Told(c) \/ Answered(c) \/ (HasIt(c) /\ Holds(c, Ahead(chatCursor)))
MoreSound ==
  Steady => \A j \in DOMAIN reqs :
    reqs[j].kind = "more" /\ ~reqs[j].late /\ reqs[j].tab = activeTab =>
      \A c \in Chats : Told(c) \/ Answered(c) \/ Holds(c, reqs[j].cursor)

ListInv == ListTypes /\ AgentSound /\ CallsSound /\ WordsSound /\ ListSound /\ MoreSound


-----------------------------------------------------------------------------
(* Sequences: what is in one.                                              *)
In(x, s) == \E j \in DOMAIN s : s[j] = x

LEMMA InParts ==
  ASSUME NEW S, NEW s \in Seq(S), NEW t \in Seq(S)
  PROVE  /\ s \o t \in Seq(S)
         /\ \A j \in DOMAIN (s \o t) : In((s \o t)[j], s) \/ In((s \o t)[j], t)
         /\ \A x : In(x, s) \/ In(x, t) => In(x, s \o t)
<1>1. /\ s \o t \in Seq(S) /\ Len(s \o t) = Len(s) + Len(t)
      /\ \A i \in 1..(Len(s) + Len(t)) : (s \o t)[i] = IF i <= Len(s) THEN s[i] ELSE t[i - Len(s)]
  BY ConcatProperties
<1>2. /\ DOMAIN s = 1..Len(s) /\ DOMAIN t = 1..Len(t) /\ DOMAIN (s \o t) = 1..(Len(s) + Len(t))
      /\ Len(s) \in Nat /\ Len(t) \in Nat
  BY <1>1
<1>3. ASSUME NEW j \in DOMAIN (s \o t)
      PROVE  In((s \o t)[j], s) \/ In((s \o t)[j], t)
  <2>1. j \in 1..(Len(s) + Len(t))
    BY <1>2
  <2>2. CASE j <= Len(s)
    BY <1>1, <1>2, <2>1, <2>2 DEF In
  <2>3. CASE j > Len(s)
    <3>1. j - Len(s) \in DOMAIN t /\ (s \o t)[j] = t[j - Len(s)]
      BY <1>1, <1>2, <2>1, <2>3
    <3> QED BY <3>1 DEF In
  <2> QED BY <1>2, <2>1, <2>2, <2>3
<1>4. ASSUME NEW x, In(x, s)
      PROVE  In(x, s \o t)
  <2>1. PICK j \in DOMAIN s : s[j] = x
    BY <1>4 DEF In
  <2>2. j \in DOMAIN (s \o t) /\ (s \o t)[j] = x
    BY <1>1, <1>2, <2>1
  <2> QED BY <2>2 DEF In
<1>5. ASSUME NEW x, In(x, t)
      PROVE  In(x, s \o t)
  <2>1. PICK j \in DOMAIN t : t[j] = x
    BY <1>5 DEF In
  <2>2. j + Len(s) \in DOMAIN (s \o t) /\ (s \o t)[j + Len(s)] = x
    BY <1>1, <1>2, <2>1
  <2> QED BY <2>2 DEF In
<1> QED BY <1>1, <1>3, <1>4, <1>5

LEMMA InRest ==
  ASSUME NEW S, NEW s \in Seq(S), NEW i \in DOMAIN s
  PROVE  /\ RemoveAt(s, i) \in Seq(S)
         /\ \A j \in DOMAIN RemoveAt(s, i) : \E k \in DOMAIN s : k # i /\ RemoveAt(s, i)[j] = s[k]
         /\ \A k \in DOMAIN s : k # i => In(s[k], RemoveAt(s, i))
<1>1. i \in 1..Len(s) /\ Len(s) \in Nat /\ DOMAIN s = 1..Len(s)
  OBVIOUS
<1> DEFINE a == SubSeq(s, 1, i - 1)
           b == SubSeq(s, i + 1, Len(s))
<1>2. a \in Seq(S) /\ Len(a) = i - 1 /\ \A j \in 1..(i - 1) : a[j] = s[j]
  <2>1. i - 1 \in 0..Len(s)
    BY <1>1
  <2>2. \A j \in 1..(i - 1) : s[j] \in S
    BY <1>1, <2>1
  <2> QED BY <1>1, <2>1, <2>2
<1>3. b \in Seq(S) /\ Len(b) = Len(s) - i /\ \A j \in 1..(Len(s) - i) : b[j] = s[i + j]
  BY <1>1
<1>4. RemoveAt(s, i) = a \o b
  BY DEF RemoveAt
<1> HIDE DEF a, b
<1>5. /\ a \o b \in Seq(S)
      /\ \A j \in DOMAIN (a \o b) : In((a \o b)[j], a) \/ In((a \o b)[j], b)
      /\ \A x : In(x, a) \/ In(x, b) => In(x, a \o b)
  BY <1>2, <1>3, InParts
<1>6. ASSUME NEW x, In(x, a)
      PROVE  \E k \in DOMAIN s : k # i /\ s[k] = x
  <2>1. PICK j \in DOMAIN a : a[j] = x
    BY <1>6 DEF In
  <2>2. j \in 1..(i - 1) /\ j \in DOMAIN s /\ j # i
    BY <1>1, <1>2, <2>1
  <2> QED BY <1>2, <2>1, <2>2
<1>7. ASSUME NEW x, In(x, b)
      PROVE  \E k \in DOMAIN s : k # i /\ s[k] = x
  <2>1. PICK j \in DOMAIN b : b[j] = x
    BY <1>7 DEF In
  <2>2. j \in 1..(Len(s) - i) /\ i + j \in DOMAIN s /\ i + j # i
    BY <1>1, <1>3, <2>1
  <2> QED BY <1>3, <2>1, <2>2
<1>8. ASSUME NEW k \in DOMAIN s, k # i
      PROVE  In(s[k], a) \/ In(s[k], b)
  <2>1. CASE k < i
    <3>1. k \in 1..(i - 1) /\ k \in DOMAIN a
      BY <1>1, <1>2, <2>1
    <3> QED BY <1>2, <3>1 DEF In
  <2>2. CASE k > i
    <3>1. k - i \in 1..(Len(s) - i) /\ k - i \in DOMAIN b /\ i + (k - i) = k
      BY <1>1, <1>3, <2>2
    <3> QED BY <1>3, <3>1 DEF In
  <2> QED BY <1>1, <1>8, <2>1, <2>2
<1> QED BY <1>4, <1>5, <1>6, <1>7, <1>8

(* Lists of chats.                                                         *)
LEMMA ListConstants ==
  /\ NoChat \notin Chats /\ PageSize \in Nat \ {0} /\ NoAgent \notin Users
BY ListAssumption, RolesAssumption DEF Users

LEMMA ShelfIs ==
  ASSUME NEW list \in Shelves
  PROVE  DOMAIN list \subseteq Chats /\ \A c \in DOMAIN list : list[c] \in Card
<1>1. PICK S \in SUBSET Chats : list \in [S -> Card]
  BY DEF Shelves
<1> QED BY <1>1

LEMMA IsShelf ==
  ASSUME NEW S \in SUBSET Chats, NEW list \in [S -> Card]
  PROVE  list \in Shelves
BY DEF Shelves

LEMMA OnlyIs ==
  ASSUME NEW list \in Shelves, NEW S
  PROVE  /\ Only(list, S) \in Shelves /\ DOMAIN Only(list, S) = DOMAIN list \cap S
         /\ \A c \in DOMAIN list \cap S : Only(list, S)[c] = list[c]
<1>1. DOMAIN list \cap S \in SUBSET Chats /\ \A c \in DOMAIN list : list[c] \in Card
  BY ShelfIs
<1>2. Only(list, S) \in [DOMAIN list \cap S -> Card]
  BY <1>1 DEF Only
<1>3. Only(list, S) \in Shelves
  BY <1>1, <1>2, IsShelf
<1> QED BY <1>3 DEF Only

LEMMA OverIs ==
  ASSUME NEW new \in Shelves, NEW list \in Shelves
  PROVE  /\ Over(new, list) \in Shelves /\ DOMAIN Over(new, list) = DOMAIN new \cup DOMAIN list
         /\ \A c \in DOMAIN new : Over(new, list)[c] = new[c]
         /\ \A c \in DOMAIN list \ DOMAIN new : Over(new, list)[c] = list[c]
<1>1. /\ DOMAIN new \cup DOMAIN list \in SUBSET Chats
      /\ \A c \in DOMAIN new : new[c] \in Card
      /\ \A c \in DOMAIN list : list[c] \in Card
  BY ShelfIs
<1>2. Over(new, list) \in [DOMAIN new \cup DOMAIN list -> Card]
  BY <1>1 DEF Over
<1>3. Over(new, list) \in Shelves
  BY <1>1, <1>2, IsShelf
<1> QED BY <1>3 DEF Over

LEMMA OneIs ==
  ASSUME NEW c \in Chats, NEW r \in Card
  PROVE  [d \in {c} |-> r] \in Shelves
<1>1. [d \in {c} |-> r] \in [{c} -> Card] /\ {c} \in SUBSET Chats
  OBVIOUS
<1> QED BY <1>1, IsShelf

(* Rows: of each status, who has it.                                       *)
LEMMA RowsAre ==
  /\ Rows \subseteq Card /\ unassignChatDb \in Rows /\ closedRow \in Rows
  /\ \A u \in Users : assignChatDb(u) \in Rows /\ assignChatDb(u).agent = u /\ assignChatDb(u).status = "OPEN"
  /\ \A r \in Rows : /\ r.status \in Status /\ r.agent \in Owner
                     /\ r.status = "OPEN" <=> r.agent # NoAgent
                     /\ r.status = "OPEN" => r = assignChatDb(r.agent)
                     /\ r.status # "OPEN" => r.agent = NoAgent
<1> USE ListConstants DEF Rows, Card, Status, Owner, unassignChatDb, closedRow, assignChatDb
<1>1. Rows \subseteq Card /\ unassignChatDb \in Rows /\ closedRow \in Rows
  OBVIOUS
<1>2. \A u \in Users : assignChatDb(u) \in Rows /\ assignChatDb(u).agent = u /\ assignChatDb(u).status = "OPEN"
  OBVIOUS
<1>3. ASSUME NEW r \in Rows
      PROVE  /\ r.status \in Status /\ r.agent \in Owner
             /\ r.status = "OPEN" <=> r.agent # NoAgent
             /\ r.status = "OPEN" => r = assignChatDb(r.agent)
             /\ r.status # "OPEN" => r.agent = NoAgent
  OBVIOUS
<1> QED BY <1>1, <1>2, <1>3

LEMMA ShownIs ==
  ASSUME ListTypes, NEW c \in Chats, NEW tab
  PROVE  /\ Leads => (Shown(c, tab) <=> table[c].status = tab)
         /\ ~Leads => (Shown(c, tab) <=> tab = "OPEN" /\ table[c] = assignChatDb(me))
<1>1. table[c] \in Rows /\ me \in Users
  BY DEF ListTypes
<1>2. /\ table[c].status = "OPEN" <=> table[c].agent # NoAgent
      /\ table[c].status = "OPEN" => table[c] = assignChatDb(table[c].agent)
      /\ table[c].status # "OPEN" => table[c].agent = NoAgent
  BY <1>1, RowsAre
<1>3. assignChatDb(me).agent = me /\ assignChatDb(me).status = "OPEN" /\ me # NoAgent
  BY <1>1, RowsAre, ListConstants
<1> QED BY <1>2, <1>3 DEF Shown, InTab, Listed

(* A request that has just been made.                                      *)
Fresh(q) ==
  /\ q \in Calls /\ q.at = "asked" /\ q.missed = {} /\ q.got = Nobody /\ ~q.late
  /\ q.kind = "list" => q.cursor = NoCursor
  /\ q.kind \in Writing => q.sel \in Chats
  /\ q.kind = "transfer" => q.to \in Users
  /\ ~Leads => q.tab = "OPEN"

LEMMA NobodyIs == Nobody \in Shelves /\ DOMAIN Nobody = {} /\ Mine(Nobody)
<1>1. DOMAIN Nobody = {} /\ Nobody \in [{} -> Card]
  BY DEF Nobody
<1> QED BY <1>1, IsShelf DEF Mine

LEMMA FreshSound ==
  ASSUME NEW q, Fresh(q)
  PROVE  CallSound(q)
BY NobodyIs DEF Fresh, CallSound

LEMMA BlankIs ==
  /\ Blank \in Calls /\ Blank.kind = "list" /\ Blank.at = "asked" /\ Blank.missed = {} /\ Blank.got = Nobody
  /\ ~Blank.late /\ Blank.cursor = NoCursor /\ NoCursor = Chats
<1>1. Nobody \in Shelves
  BY NobodyIs
<1> QED BY <1>1 DEF Blank, Calls, Reading, Tabs, Status, NoCursor

LEMMA LoadFresh ==
  ASSUME NEW tab \in Tabs, NEW sel \in Chats \cup {NoChat}, ~Leads => tab = "OPEN"
  PROVE  Fresh(Load(tab, sel)) /\ Load(tab, sel).kind = "list"
<1>1. Load(tab, sel) = [Blank EXCEPT !.tab = tab, !.sel = sel]
  BY DEF Load
<1>2. /\ Load(tab, sel) \in Calls /\ Load(tab, sel).kind = "list" /\ Load(tab, sel).at = "asked"
      /\ Load(tab, sel).missed = {} /\ Load(tab, sel).got = Nobody /\ ~Load(tab, sel).late
      /\ Load(tab, sel).cursor = NoCursor /\ Load(tab, sel).tab = tab
  BY <1>1, BlankIs DEF Calls
<1> QED BY <1>2 DEF Fresh, Writing

(* What a render leads to: nothing more, or a load of the tab it goes to.  *)
LEMMA SettledIs ==
  ASSUME NEW list \in Shelves, NEW act \in Chats \cup {NoChat}, NEW tab \in Tabs
  PROVE  /\ Settled(list, act, tab)[1] \in Chats \cup {NoChat}
         /\ Settled(list, act, tab)[2] \in Tabs
         /\ ~Leads /\ Mine(list) /\ tab = "OPEN" => Settled(list, act, tab)[2] = "OPEN"
<1>1. \A c \in DOMAIN list : c \in Chats /\ list[c].status \in Tabs
  BY ShelfIs DEF Card, Tabs
<1>2. "OPEN" \in Tabs /\ assignChatDb(me).status = "OPEN"
  BY DEF Tabs, Status, assignChatDb
<1> QED BY <1>1, <1>2 DEF Settled, Mine

LEMMA ShowsDoes ==
  ASSUME ListTypes, NEW list \in Shelves, NEW act \in Chats \cup {NoChat}, NEW tab \in Tabs,
         NEW own \in Seq(Calls), NEW others \in Seq(Calls), NEW cursor \in SUBSET Chats, NEW busy,
         Shows(list, act, tab, own, others, cursor, busy),
         ~Leads => tab = "OPEN" /\ Mine(list)
  PROVE  /\ chats' = list /\ chatCursor' \in SUBSET Chats
         /\ activeChatId' \in Chats \cup {NoChat} /\ activeTab' \in Tabs /\ (~Leads => activeTab' = "OPEN")
         /\ reqs' \in Seq(Calls)
         /\ \A j \in DOMAIN reqs' : In(reqs'[j], others) \/ In(reqs'[j], own)
                                      \/ reqs'[j] = Load(activeTab', activeChatId')
         /\ \A x : In(x, others) \/ In(x, own) => In(x, reqs')
         /\ \/ own = <<>> /\ activeTab' = activeTab /\ chatCursor' = cursor
            \/ own # <<>>
            \/ In(Load(activeTab', activeChatId'), reqs')
<1> DEFINE at == Settled(list, act, tab)
           more == IF at[2] # activeTab THEN <<Load(at[2], at[1])>> ELSE <<>>
           new == own \o more
<1>1. /\ at[1] \in Chats \cup {NoChat} /\ at[2] \in Tabs
      /\ ~Leads => at[2] = "OPEN"
  BY SettledIs
<1>2. /\ chats' = list /\ activeChatId' = at[1] /\ activeTab' = at[2] /\ reqs' = others \o new
      /\ chatCursor' = IF new = <<>> THEN cursor ELSE NoCursor
  BY DEF Shows
<1>3. Load(at[2], at[1]) \in Calls
  BY <1>1, LoadFresh DEF Fresh
<1>4. more \in Seq(Calls) /\ \A j \in DOMAIN more : more[j] = Load(activeTab', activeChatId')
  BY <1>2, <1>3
<1>5. activeTab' # activeTab => In(Load(activeTab', activeChatId'), more)
  BY <1>2 DEF In
<1>6. activeTab' = activeTab => more = <<>>
  BY <1>2
<1> HIDE DEF more
<1>7. /\ new \in Seq(Calls)
      /\ \A j \in DOMAIN new : In(new[j], own) \/ In(new[j], more)
      /\ \A x : In(x, own) \/ In(x, more) => In(x, new)
  BY <1>4, InParts
<1>8. own = <<>> /\ more = <<>> => new = <<>>
  BY <1>4
<1> HIDE DEF new
<1>9. /\ others \o new \in Seq(Calls)
      /\ \A j \in DOMAIN (others \o new) : In((others \o new)[j], others) \/ In((others \o new)[j], new)
      /\ \A x : In(x, others) \/ In(x, new) => In(x, others \o new)
  BY <1>7, InParts
<1>10. \A x : In(x, more) => x = Load(activeTab', activeChatId')
  BY <1>4 DEF In
<1>11. \A x : In(x, new) => In(x, own) \/ x = Load(activeTab', activeChatId')
  <2>1. ASSUME NEW x, In(x, new)
        PROVE  In(x, own) \/ In(x, more)
    <3>1. PICK j \in DOMAIN new : new[j] = x
      BY <2>1 DEF In
    <3> QED BY <3>1, <1>7
  <2> QED BY <2>1, <1>10
<1>12. reqs' = others \o new
  BY <1>2
<1>13. \A j \in DOMAIN reqs' : In(reqs'[j], others) \/ In(reqs'[j], own)
                                      \/ reqs'[j] = Load(activeTab', activeChatId')
  BY <1>9, <1>11, <1>12
<1>14. \A x : In(x, others) \/ In(x, own) => In(x, reqs')
  BY <1>7, <1>9, <1>12
<1>15. activeTab' # activeTab => In(Load(activeTab', activeChatId'), reqs')
  BY <1>5, <1>7, <1>9, <1>12
<1>16. own = <<>> /\ activeTab' = activeTab => chatCursor' = cursor
  BY <1>2, <1>6, <1>8
<1>17. chatCursor' \in SUBSET Chats /\ reqs' \in Seq(Calls)
  BY <1>2, <1>9, <1>12, BlankIs
<1> QED BY <1>1, <1>2, <1>13, <1>14, <1>15, <1>16, <1>17

-----------------------------------------------------------------------------
(* Steps that write no chat: what is true of requests and of events stays. *)
LEMMA SameCall ==
  ASSUME UNCHANGED <<table, me>>, NEW q
  PROVE  CallSound(q)' <=> CallSound(q)
BY DEF CallSound, PageSound, Shown, InTab, Listed, Leads, Mine, RowMade

LEMMA LaterSame ==
  ASSUME NEW q \in Calls, CallSound(q), NEW yes \in BOOLEAN
  PROVE  /\ CallSound([q EXCEPT !.late = yes]) /\ [q EXCEPT !.late = yes] \in Calls
         /\ [q EXCEPT !.late = yes].kind = q.kind /\ [q EXCEPT !.late = yes].at = q.at
         /\ [q EXCEPT !.late = yes].sel = q.sel /\ [q EXCEPT !.late = yes].late = yes
<1> DEFINE p == [q EXCEPT !.late = yes]
<1>1. /\ p \in Calls /\ p.kind = q.kind /\ p.at = q.at /\ p.tab = q.tab /\ p.sel = q.sel /\ p.cursor = q.cursor
      /\ p.to = q.to /\ p.got = q.got /\ p.next = q.next /\ p.missed = q.missed /\ p.late = yes
  BY DEF Calls
<1> HIDE DEF p
<1>2. RowMade(p) = RowMade(q)
  BY <1>1 DEF RowMade
<1>3. PageSound(p) <=> PageSound(q)
  BY <1>1 DEF PageSound
<1>4. CallSound(p)
  BY <1>1, <1>2, <1>3 DEF CallSound
<1> QED BY <1>1, <1>4 DEF p

(* A request of before, perhaps late by now.                               *)
Belated(q) == \E k \in DOMAIN reqs : \E yes \in BOOLEAN : q = [reqs[k] EXCEPT !.late = yes]

LEMMA CallsKept ==
  ASSUME ListTypes, CallsSound, UNCHANGED <<table, me>>, 
         \A j \in DOMAIN reqs' : \E q : q = reqs'[j] /\ (In(q, reqs) \/ Fresh(q) \/ Belated(q))
  PROVE  CallsSound'
<1> SUFFICES ASSUME NEW j \in DOMAIN reqs'
             PROVE  CallSound(reqs[j])'
  BY DEF CallsSound
<1>1. PICK q : q = reqs'[j] /\ (In(q, reqs) \/ Fresh(q) \/ Belated(q))
  OBVIOUS
<1>2. CallSound(q)
  <2>1. CASE In(q, reqs)
    BY <2>1 DEF In, CallsSound
  <2>2. CASE Fresh(q)
    BY <2>2, FreshSound
  <2>3. CASE Belated(q)
    <3>1. PICK k \in DOMAIN reqs : \E yes \in BOOLEAN : q = [reqs[k] EXCEPT !.late = yes]
      BY <2>3 DEF Belated
    <3>2. reqs[k] \in Calls /\ CallSound(reqs[k])
      BY DEF ListTypes, CallsSound
    <3> QED BY <3>1, <3>2, LaterSame
  <2> QED BY <1>1, <2>1, <2>2, <2>3
<1>3. CallSound(q)'
  BY <1>2, SameCall
<1>4. CallSound(q)' <=> CallSound(reqs[j])'
  BY <1>1 DEF CallSound, PageSound, Shown, InTab, Listed, Leads, Mine, RowMade
<1> QED BY <1>3, <1>4

LEMMA WordsKept ==
  ASSUME WordsSound, UNCHANGED <<table, me, events>>
  PROVE  WordsSound'
BY DEF WordsSound, Tells, Leads

LEMMA Pending ==
  ASSUME NEW q, q.kind = "list", In(q, reqs')
  PROVE  ListSound' /\ MoreSound'
<1>1. Loading'
  BY DEF In, Loading
<1> QED BY <1>1 DEF ListSound, MoreSound, Steady

LEMMA Lost ==
  ASSUME outdated'
  PROVE  ListSound' /\ MoreSound'
BY DEF ListSound, MoreSound, Steady

(* A list that stays as it is, and requests that are added.                *)
LEMMA PlainKept ==
  ASSUME ListTypes, ListSound, MoreSound,
         UNCHANGED <<table, me, events, chats, activeTab, chatCursor, outdated>>,
         \A x : In(x, reqs) => In(x, reqs'),
         \A j \in DOMAIN reqs' :
           In(reqs'[j], reqs) \/ (Fresh(reqs'[j]) /\ (reqs'[j].kind = "more" => reqs'[j].cursor = chatCursor))
  PROVE  ListSound' /\ MoreSound'
<1>1. Steady' => Steady
  BY DEF Steady, Loading, In
<1>2. ASSUME NEW c, Told(c) \/ Answered(c)
      PROVE  Told(c)' \/ Answered(c)'
  <2>1. Told(c) => Told(c)'
    BY DEF Told
  <2>2. ASSUME Answered(c)
        PROVE  Answered(c)'
    <3>1. PICK j \in DOMAIN reqs : reqs[j].at = "read" /\ reqs[j].kind \in Writing /\ reqs[j].sel = c
      BY <2>2 DEF Answered
    <3>2. In(reqs[j], reqs')
      BY DEF In
    <3> QED BY <3>1, <3>2 DEF In, Answered
  <2> QED BY <1>2, <2>1, <2>2
<1>3. \A c, k : (HasIt(c)' <=> HasIt(c)) /\ (Holds(c, k)' <=> Holds(c, k))
  BY DEF HasIt, Holds, Shown, InTab, Listed, Leads
<1>4. ListSound'
  <2> SUFFICES ASSUME Steady', NEW c \in Chats
               PROVE  Told(c)' \/ Answered(c)' \/ (HasIt(c)' /\ Holds(c, Ahead(chatCursor))')
    BY DEF ListSound
  <2>1. Told(c) \/ Answered(c) \/ (HasIt(c) /\ Holds(c, Ahead(chatCursor)))
    BY <1>1 DEF ListSound
  <2>2. Holds(c, Ahead(chatCursor))' <=> Holds(c, Ahead(chatCursor))
    BY DEF HasIt, Holds, Shown, InTab, Listed, Leads, Ahead
  <2> QED BY <1>2, <1>3, <2>1, <2>2
<1>5. MoreSound'
  <2> SUFFICES ASSUME Steady', NEW j \in DOMAIN reqs', 
                      reqs'[j].kind = "more" /\ ~reqs'[j].late /\ reqs'[j].tab = activeTab', NEW c \in Chats
               PROVE  Told(c)' \/ Answered(c)' \/ Holds(c, reqs[j].cursor)'
    BY DEF MoreSound
  <2>1. PICK q : q = reqs'[j]
    OBVIOUS
  <2>2. q.kind = "more" /\ ~q.late /\ q.tab = activeTab
    BY <2>1
  <2>3. Told(c) \/ Answered(c) \/ Holds(c, q.cursor)
    <3>1. CASE In(q, reqs)
      BY <1>1, <2>2, <3>1 DEF In, MoreSound
    <3>2. CASE q.cursor = chatCursor
      <4>1. Told(c) \/ Answered(c) \/ Holds(c, Ahead(chatCursor))
        BY <1>1 DEF ListSound
      <4>2. c \notin chatCursor => c \notin Ahead(chatCursor)
        BY DEF Ahead, NoCursor
      <4> QED BY <3>2, <4>1, <4>2 DEF Holds
    <3> QED BY <2>1, <2>2, <3>1, <3>2
  <2>4. Holds(c, reqs[j].cursor)' <=> Holds(c, q.cursor)
    BY <2>1 DEF Holds, Shown, InTab, Listed, Leads
  <2> QED BY <1>2, <2>3, <2>4
<1> QED BY <1>4, <1>5

-----------------------------------------------------------------------------
(* The user.                                                               *)
LEMMA AskIs ==
  ASSUME ListTypes, NEW kind \in Reading \cup Writing, AgentSound
  PROVE  LET q == RequestOf(kind) IN
         /\ q \in Calls /\ q.kind = kind /\ q.at = "asked" /\ q.missed = {} /\ q.got = Nobody /\ ~q.late
         /\ q.cursor = NoCursor /\ q.tab = activeTab /\ q.sel = activeChatId /\ (~Leads => q.tab = "OPEN")
<1>1. RequestOf(kind) = [Blank EXCEPT !.kind = kind, !.tab = activeTab, !.sel = activeChatId]
  BY DEF RequestOf
<1>2. activeTab \in Tabs /\ activeChatId \in Chats \cup {NoChat} /\ (~Leads => activeTab = "OPEN")
  BY DEF ListTypes, AgentSound
<1> QED BY <1>1, <1>2, BlankIs DEF Calls

LEMMA AppendedIs ==
  ASSUME ListTypes, NEW q \in Calls, reqs' = Append(reqs, q)
  PROVE  /\ reqs' \in Seq(Calls) /\ \A x : In(x, reqs) => In(x, reqs')
         /\ \A j \in DOMAIN reqs' : In(reqs'[j], reqs) \/ reqs'[j] = q
<1>1. reqs \in Seq(Calls)
  BY DEF ListTypes
<1>2. /\ reqs' \in Seq(Calls) /\ DOMAIN reqs' = 1..(Len(reqs) + 1) /\ DOMAIN reqs = 1..Len(reqs) /\ Len(reqs) \in Nat
      /\ \A j \in 1..Len(reqs) : reqs'[j] = reqs[j]
      /\ reqs'[Len(reqs) + 1] = q
  BY <1>1, AppendProperties
<1>3. \A j \in DOMAIN reqs' : In(reqs'[j], reqs) \/ reqs'[j] = q
  <2> TAKE j \in DOMAIN reqs'
  <2>1. CASE j \in DOMAIN reqs
    BY <1>2, <2>1 DEF In
  <2>2. CASE j = Len(reqs) + 1
    BY <1>2, <2>2
  <2> QED BY <1>2, <2>1, <2>2
<1>4. ASSUME NEW x, In(x, reqs)
      PROVE  In(x, reqs')
  <2>1. PICK j \in DOMAIN reqs : reqs[j] = x
    BY <1>4 DEF In
  <2>2. j \in DOMAIN reqs' /\ reqs'[j] = x
    BY <1>2, <2>1
  <2> QED BY <2>2 DEF In
<1> QED BY <1>2, <1>3, <1>4

(* A request is made; the list stays.                                      *)
LEMMA Asks ==
  ASSUME ListInv, NEW q \in Calls, Fresh(q), reqs' = Append(reqs, q),
         q.kind = "more" => q.cursor = chatCursor,
         UNCHANGED <<table, older, me, events, chats, activeTab, activeChatId, chatCursor, outdated>>
  PROVE  ListInv'
<1>1. /\ ListTypes /\ AgentSound /\ CallsSound /\ WordsSound /\ ListSound /\ MoreSound
  BY DEF ListInv
<1>2. /\ reqs' \in Seq(Calls) /\ \A x : In(x, reqs) => In(x, reqs')
      /\ \A j \in DOMAIN reqs' : In(reqs'[j], reqs) \/ reqs'[j] = q
  BY <1>1, AppendedIs
<1>3. ListTypes'
  BY <1>1, <1>2 DEF ListTypes
<1>4. AgentSound'
  BY <1>1 DEF AgentSound, Leads, Mine
<1>5. CallsSound' /\ WordsSound'
  BY <1>1, <1>2, CallsKept, WordsKept
<1>6. ListSound' /\ MoreSound'
  BY <1>1, <1>2, PlainKept
<1> QED BY <1>3, <1>4, <1>5, <1>6 DEF ListInv

(* A render of what the page has.                                          *)
LEMMA Rerenders ==
  ASSUME ListInv, NEW act \in Chats \cup {NoChat}, NEW tab \in Tabs, NEW busy, ~Leads => tab = "OPEN",
         Shows(chats, act, tab, <<>>, reqs, chatCursor, busy),
         UNCHANGED <<table, older, me, events, outdated>>
  PROVE  ListInv'
<1>1. /\ ListTypes /\ AgentSound /\ CallsSound /\ WordsSound /\ ListSound /\ MoreSound
  BY DEF ListInv
<1>2. /\ chats \in Shelves /\ reqs \in Seq(Calls) /\ chatCursor \in SUBSET Chats /\ <<>> \in Seq(Calls)
      /\ ~Leads => Mine(chats)
  BY <1>1 DEF ListTypes, AgentSound
<1>3. /\ chats' = chats /\ chatCursor' \in SUBSET Chats
      /\ activeChatId' \in Chats \cup {NoChat} /\ activeTab' \in Tabs /\ (~Leads => activeTab' = "OPEN")
      /\ reqs' \in Seq(Calls)
      /\ \A j \in DOMAIN reqs' : In(reqs'[j], reqs) \/ In(reqs'[j], <<>>)
                                   \/ reqs'[j] = Load(activeTab', activeChatId')
      /\ \A x : In(x, reqs) \/ In(x, <<>>) => In(x, reqs')
      /\ \/ activeTab' = activeTab /\ chatCursor' = chatCursor
         \/ In(Load(activeTab', activeChatId'), reqs')
  BY <1>1, <1>2, ShowsDoes
<1>4. Fresh(Load(activeTab', activeChatId')) /\ Load(activeTab', activeChatId').kind = "list"
  BY <1>3, LoadFresh
<1>5. \A j \in DOMAIN reqs' : In(reqs'[j], reqs) \/ (Fresh(reqs'[j]) /\ reqs'[j].kind = "list")
  BY <1>3, <1>4 DEF In
<1>6. ListTypes'
  BY <1>1, <1>2, <1>3 DEF ListTypes
<1>7. AgentSound'
  BY <1>1, <1>2, <1>3 DEF AgentSound, Leads, Mine
<1>8. CallsSound' /\ WordsSound'
  BY <1>1, <1>5, CallsKept, WordsKept
<1>9. ListSound' /\ MoreSound'
  <2>1. CASE activeTab' = activeTab /\ chatCursor' = chatCursor
    BY <1>1, <1>3, <1>5, <2>1, PlainKept
  <2>2. CASE In(Load(activeTab', activeChatId'), reqs')
    BY <1>4, <2>2, Pending
  <2> QED BY <1>3, <2>1, <2>2
<1> QED BY <1>6, <1>7, <1>8, <1>9 DEF ListInv

LEMMA UserSteps ==
  ASSUME ListInv, User
  PROVE  ListInv'
<1>1. ListTypes /\ AgentSound
  BY DEF ListInv
<1>2. activeTab \in Tabs /\ activeChatId \in Chats \cup {NoChat} /\ (~Leads => activeTab = "OPEN") /\ "OPEN" \in Tabs
  BY <1>1 DEF ListTypes, AgentSound, Tabs, Status
<1>3. ASSUME NEW kind \in {"assign", "close"}, Active, Writes(kind)
      PROVE  ListInv'
  <2>1. Fresh(RequestOf(kind)) /\ RequestOf(kind) \in Calls /\ RequestOf(kind).kind # "more"
    BY <1>1, <1>2, <1>3, AskIs DEF Fresh, Active, Reading, Writing
  <2> QED BY <1>3, <2>1, Asks DEF Writes, Click, Sends, page
<1>4. ASSUME NEW t \in Tabs, ChangeTab(t)
      PROVE  ListInv'
  BY <1>4, Rerenders DEF ChangeTab, Click
<1>5. ASSUME NEW c \in Chats, ChooseChat(c)
      PROVE  ListInv'
  BY <1>2, <1>5, Rerenders DEF ChooseChat, Click
<1>6. ASSUME NEW c \in Chats, handleCreateChat(c)
      PROVE  ListInv'
  <2>1. PICK q : q = [RequestOf("create") EXCEPT !.sel = c]
    OBVIOUS
  <2>2. Fresh(q) /\ q \in Calls /\ q.kind # "more"
    BY <1>1, <2>1, AskIs DEF Fresh, Calls, Writing
  <2> QED BY <1>6, <2>1, <2>2, Asks DEF handleCreateChat, Click, Sends, page
<1>7. ASSUME NEW b \in BOOLEAN, LoadMore(b)
      PROVE  ListInv'
  <2>1. PICK q : q = [RequestOf("more") EXCEPT !.cursor = chatCursor]
    OBVIOUS
  <2>2. PICK p : p = RequestOf("more")
    OBVIOUS
  <2>3. /\ p \in Calls /\ p.kind = "more" /\ p.at = "asked" /\ p.missed = {} /\ p.got = Nobody /\ ~p.late
        /\ ~Leads => p.tab = "OPEN"
    BY <1>1, <2>2, AskIs DEF Reading
  <2>4. chatCursor \in SUBSET Chats
    BY <1>1 DEF ListTypes
  <2>5. /\ q \in Calls /\ q.kind = "more" /\ q.at = "asked" /\ q.missed = {} /\ q.got = Nobody /\ ~q.late
        /\ q.cursor = chatCursor /\ q.tab = p.tab
    BY <2>1, <2>2, <2>3, <2>4 DEF Calls
  <2>6. Fresh(q)
    BY <2>3, <2>5 DEF Fresh, Writing
  <2> QED BY <1>7, <2>1, <2>5, <2>6, Asks DEF LoadMore, Click, Sends
<1>8. ASSUME NEW u \in Users, ConfirmReassign(u)
      PROVE  ListInv'
  <2>1. PICK q : q = [RequestOf("transfer") EXCEPT !.to = u]
    OBVIOUS
  <2>2. Fresh(q) /\ q \in Calls /\ q.kind # "more"
    BY <1>1, <1>2, <1>8, <2>1, AskIs DEF Fresh, Calls, Writing, ConfirmReassign, Active
  <2> QED BY <1>8, <2>1, <2>2, Asks DEF ConfirmReassign, Click, Sends, page
<1> QED BY <1>3, <1>4, <1>5, <1>6, <1>7, <1>8 DEF User, handleAssignToMe, handleCloseChat

-----------------------------------------------------------------------------
(* Answers.  What the page is after one, if it stays on its tab and no     *)
(* load follows.                                                           *)
Staying(list, others, cursor) ==
  /\ chats' = list /\ activeTab' = activeTab /\ chatCursor' = cursor
  /\ \A x : In(x, others) => In(x, reqs')
  /\ \A j \in DOMAIN reqs' : In(reqs'[j], others) \/ reqs'[j].kind = "list"

LEMMA AnswerStep ==
  ASSUME ListInv, NEW list \in Shelves, NEW act \in Chats \cup {NoChat}, NEW tab \in Tabs,
         NEW own \in Seq(Calls), NEW others \in Seq(Calls), NEW cursor \in SUBSET Chats, NEW busy,
         Shows(list, act, tab, own, others, cursor, busy),
         ~Leads => tab = "OPEN" /\ Mine(list),
         \A j \in DOMAIN others : In(others[j], reqs) \/ Belated(others[j]),
         \A j \in DOMAIN own : Fresh(own[j]) /\ own[j].kind = "list",
         UNCHANGED <<table, older, me, events>>, outdated' \in BOOLEAN,
         own = <<>> /\ Staying(list, others, cursor) => ListSound' /\ MoreSound'
  PROVE  ListInv'
<1>1. /\ ListTypes /\ AgentSound /\ CallsSound /\ WordsSound /\ ListSound /\ MoreSound
  BY DEF ListInv
<1>2. /\ chats' = list /\ chatCursor' \in SUBSET Chats
      /\ activeChatId' \in Chats \cup {NoChat} /\ activeTab' \in Tabs /\ (~Leads => activeTab' = "OPEN")
      /\ reqs' \in Seq(Calls)
      /\ \A j \in DOMAIN reqs' : In(reqs'[j], others) \/ In(reqs'[j], own)
                                   \/ reqs'[j] = Load(activeTab', activeChatId')
      /\ \A x : In(x, others) \/ In(x, own) => In(x, reqs')
      /\ \/ own = <<>> /\ activeTab' = activeTab /\ chatCursor' = cursor
         \/ own # <<>>
         \/ In(Load(activeTab', activeChatId'), reqs')
  BY <1>1, ShowsDoes
<1>3. Fresh(Load(activeTab', activeChatId')) /\ Load(activeTab', activeChatId').kind = "list"
  BY <1>2, LoadFresh
<1>4. \A j \in DOMAIN reqs' : \E q : q = reqs'[j] /\ (In(q, reqs) \/ Fresh(q) \/ Belated(q))
  <2> TAKE j \in DOMAIN reqs'
  <2>1. PICK q : q = reqs'[j]
    OBVIOUS
  <2>2. CASE In(q, others)
    <3>1. PICK k \in DOMAIN others : others[k] = q
      BY <2>2 DEF In
    <3> QED BY <2>1, <3>1
  <2>3. CASE In(q, own)
    <3>1. PICK k \in DOMAIN own : own[k] = q
      BY <2>3 DEF In
    <3> QED BY <2>1, <3>1
  <2> QED BY <1>2, <1>3, <2>1, <2>2, <2>3
<1>5. ListTypes'
  BY <1>1, <1>2 DEF ListTypes
<1>6. AgentSound'
  BY <1>1, <1>2 DEF AgentSound, Leads, Mine
<1>7. CallsSound' /\ WordsSound'
  BY <1>1, <1>4, CallsKept, WordsKept
<1>8. ListSound' /\ MoreSound'
  <2>1. CASE own = <<>> /\ activeTab' = activeTab /\ chatCursor' = cursor
    <3>1. \A j \in DOMAIN reqs' : ~In(reqs'[j], <<>>)
      BY DEF In
    <3>2. \A j \in DOMAIN reqs' : In(reqs'[j], others) \/ reqs'[j].kind = "list"
      BY <1>2, <1>3, <2>1, <3>1
    <3>3. Staying(list, others, cursor)
      BY <1>2, <2>1, <3>2 DEF Staying
    <3> QED BY <2>1, <3>3
  <2>2. CASE own # <<>>
    <3>1. 1 \in DOMAIN own
      BY <2>2
    <3>2. own[1].kind = "list" /\ In(own[1], own)
      BY <3>1 DEF In
    <3> QED BY <1>2, <3>2, Pending
  <2>3. CASE In(Load(activeTab', activeChatId'), reqs')
    BY <1>3, <2>3, Pending
  <2> QED BY <1>2, <2>1, <2>2, <2>3
<1> QED BY <1>5, <1>6, <1>7, <1>8 DEF ListInv

(* The answer to a write is one of the page's, but for its own.            *)
Answers(q, c) == q.at = "read" /\ q.kind \in Writing /\ q.sel = c

LEMMA StillTold ==
  ASSUME ListTypes, NEW i \in DOMAIN reqs, NEW c, UNCHANGED events,
         \A x : In(x, RemoveAt(reqs, i)) => In(x, reqs'),
         Told(c) \/ Answered(c), ~Answers(reqs[i], c)
  PROVE  Told(c)' \/ Answered(c)'
<1>1. Told(c) => Told(c)'
  BY DEF Told
<1>2. ASSUME Answered(c)
      PROVE  Answered(c)'
  <2>1. PICK j \in DOMAIN reqs : Answers(reqs[j], c)
    BY <1>2 DEF Answered, Answers
  <2>2. j # i
    BY <2>1
  <2>3. reqs \in Seq(Calls)
    BY DEF ListTypes
  <2>4. In(reqs[j], reqs')
    BY <2>2, <2>3, InRest
  <2> QED BY <2>1, <2>4 DEF Answered, Answers, In
<1> QED BY <1>1, <1>2

LEMMA StillComing ==
  ASSUME NEW others \in Seq(Calls), NEW c, Coming(c, others), UNCHANGED events,
         \A j \in DOMAIN others : \E k \in DOMAIN reqs' :
           reqs'[k].at = others[j].at /\ reqs'[k].kind = others[j].kind /\ reqs'[k].sel = others[j].sel
  PROVE  Told(c)' \/ Answered(c)'
<1>1. CASE \E i \in DOMAIN events : events[i].chat = c /\ ~events[i].old
  BY <1>1 DEF Told
<1>2. CASE \E j \in DOMAIN others : others[j].at = "read" /\ others[j].kind \notin {"list", "more"} /\ others[j].sel = c
  <2>1. PICK j \in DOMAIN others :
          others[j].at = "read" /\ others[j].kind \notin {"list", "more"} /\ others[j].sel = c
    BY <1>2
  <2>2. others[j].kind \in Reading \cup Writing
    <3>1. others[j] \in Calls
      OBVIOUS
    <3> QED BY <3>1 DEF Calls
  <2>3. others[j].kind \in Writing
    BY <2>1, <2>2 DEF Reading
  <2> QED BY <2>1, <2>3 DEF Answered
<1> QED BY <1>1, <1>2 DEF Coming

LEMMA StillThere ==
  ASSUME NEW others, \A x : In(x, others) => In(x, reqs')
  PROVE  \A j \in DOMAIN others : \E k \in DOMAIN reqs' :
           reqs'[k].at = others[j].at /\ reqs'[k].kind = others[j].kind /\ reqs'[k].sel = others[j].sel
<1> TAKE j \in DOMAIN others
<1>1. In(others[j], reqs')
  BY DEF In
<1> QED BY <1>1 DEF In

(* An answer that is not to a load of the list: every chat is told of, has *)
(* become right, or is in the list as it was.                              *)
LEMMA Answerless ==
  ASSUME ListTypes, ListSound, MoreSound, NEW i \in DOMAIN reqs, reqs[i].kind # "list",
         NEW list, Staying(list, RemoveAt(reqs, i), chatCursor),
         UNCHANGED <<table, me, events>>, outdated => outdated',
         \A c \in Chats : Steady' =>
           \/ Told(c)' \/ Answered(c)'
           \/ HasIt(c)' /\ (Shown(c, activeTab) => c \in DOMAIN list)
           \/ /\ ~Answers(reqs[i], c) /\ (c \in DOMAIN list <=> c \in DOMAIN chats)
              /\ c \in DOMAIN list => list[c] = chats[c]
  PROVE  ListSound' /\ MoreSound'
<1>1. reqs \in Seq(Calls)
  BY DEF ListTypes
<1>2. /\ \A x : In(x, RemoveAt(reqs, i)) => In(x, reqs')
      /\ \A j \in DOMAIN reqs' : In(reqs'[j], RemoveAt(reqs, i)) \/ reqs'[j].kind = "list"
      /\ chats' = list /\ activeTab' = activeTab /\ chatCursor' = chatCursor
  BY DEF Staying
<1>3. \A j \in DOMAIN reqs : j # i => In(reqs[j], reqs')
  BY <1>1, <1>2, InRest
<1>4. Steady' => Steady
  <2> SUFFICES ASSUME Steady'
               PROVE  Steady
    OBVIOUS
  <2>1. \A j \in DOMAIN reqs' : reqs'[j].kind # "list"
    BY DEF Steady, Loading
  <2>2. ASSUME NEW j \in DOMAIN reqs
        PROVE  reqs[j].kind # "list"
    BY <1>3, <2>1 DEF In
  <2> QED BY <2>2 DEF Steady, Loading
<1>5. \A c, k : /\ (Holds(c, k)' <=> (Shown(c, activeTab) /\ c \notin k => c \in DOMAIN list))
                /\ (HasIt(c)' <=> (c \in DOMAIN list => list[c] = table[c] /\ Shown(c, activeTab)))
  BY <1>2 DEF HasIt, Holds, Shown, InTab, Listed, Leads
<1>6. ListSound'
  <2> SUFFICES ASSUME Steady', NEW c \in Chats, ~(Told(c)' \/ Answered(c)')
               PROVE  HasIt(c)' /\ Holds(c, Ahead(chatCursor))'
    BY DEF ListSound
  <2>1. Holds(c, Ahead(chatCursor))' <=> (Shown(c, activeTab) /\ c \notin Ahead(chatCursor) => c \in DOMAIN list)
    BY <1>2 DEF Holds, Shown, InTab, Listed, Leads, Ahead
  <2>2. CASE HasIt(c)' /\ (Shown(c, activeTab) => c \in DOMAIN list)
    BY <2>1, <2>2
  <2>3. CASE /\ ~Answers(reqs[i], c) /\ (c \in DOMAIN list <=> c \in DOMAIN chats)
             /\ c \in DOMAIN list => list[c] = chats[c]
    <3>1. ~(Told(c) \/ Answered(c))
      BY <1>2, <2>3, StillTold
    <3>2. HasIt(c) /\ Holds(c, Ahead(chatCursor))
      BY <1>4, <3>1 DEF ListSound
    <3> QED BY <1>5, <2>1, <2>3, <3>2 DEF HasIt, Holds
  <2> QED BY <2>2, <2>3
<1>7. MoreSound'
  <2> SUFFICES ASSUME Steady', NEW j \in DOMAIN reqs',
                      reqs'[j].kind = "more" /\ ~reqs'[j].late /\ reqs'[j].tab = activeTab',
                      NEW c \in Chats, ~(Told(c)' \/ Answered(c)')
               PROVE  Holds(c, reqs[j].cursor)'
    BY DEF MoreSound
  <2>1. PICK q : q = reqs'[j]
    OBVIOUS
  <2>2. Holds(c, reqs[j].cursor)' <=> (Shown(c, activeTab) /\ c \notin q.cursor => c \in DOMAIN list)
    BY <1>2, <2>1 DEF Holds, Shown, InTab, Listed, Leads
  <2>3. PICK k \in DOMAIN reqs : q = reqs[k]
    <3>1. In(q, RemoveAt(reqs, i))
      BY <1>2, <2>1
    <3> QED BY <1>1, <3>1, InRest DEF In
  <2>4. CASE HasIt(c)' /\ (Shown(c, activeTab) => c \in DOMAIN list)
    BY <2>2, <2>4
  <2>5. CASE /\ ~Answers(reqs[i], c) /\ (c \in DOMAIN list <=> c \in DOMAIN chats)
             /\ c \in DOMAIN list => list[c] = chats[c]
    <3>1. ~(Told(c) \/ Answered(c))
      BY <1>2, <2>5, StillTold
    <3>2. Holds(c, q.cursor)
      BY <1>2, <1>4, <2>1, <2>3, <3>1 DEF MoreSound
    <3> QED BY <2>2, <2>5, <3>2 DEF Holds
  <2> QED BY <2>4, <2>5
<1> QED BY <1>6, <1>7

LEMMA AheadIs ==
  ASSUME ListTypes, NEW i \in DOMAIN reqs
  PROVE  /\ RemoveAt(reqs, i) \in Seq(Calls) /\ \A j \in DOMAIN RemoveAt(reqs, i) : In(RemoveAt(reqs, i)[j], reqs)
         /\ reqs[i] \in Calls /\ reqs \in Seq(Calls) /\ <<>> \in Seq(Calls) /\ chats \in Shelves
         /\ activeTab \in Tabs /\ activeChatId \in Chats \cup {NoChat} /\ "OPEN" \in Tabs /\ "CLOSED" \in Tabs
         /\ chatCursor \in SUBSET Chats /\ NoChat \in Chats \cup {NoChat} /\ outdated \in BOOLEAN /\ me \in Users
<1>1. reqs \in Seq(Calls)
  BY DEF ListTypes
<1> QED BY <1>1, InRest DEF ListTypes, In, Tabs, Status

(* The row of an answer goes into the list, and the page to its chat.      *)
LEMMA PutIn ==
  ASSUME ListInv, NEW i \in DOMAIN reqs, reqs[i].kind \in Writing, reqs[i].at = "read",
         NEW u \in Users, RowMade(reqs[i]) = assignChatDb(u), Leads \/ u = me,
         NEW tab \in Tabs, ~Leads => tab = "OPEN", NEW busy,
         Shows(Over(reqs[i].got, chats), reqs[i].sel, tab, <<>>, RemoveAt(reqs, i), chatCursor, busy),
         UNCHANGED <<table, older, me, events>>,
         outdated' = (outdated \/ TooLate(reqs[i], RemoveAt(reqs, i)))
  PROVE  ListInv'
<1> DEFINE others == RemoveAt(reqs, i)
<1>1. /\ ListTypes /\ AgentSound /\ CallsSound /\ WordsSound /\ ListSound /\ MoreSound
  BY DEF ListInv
<1>2. PICK r : r = reqs[i]
  OBVIOUS
<1>3. PICK list : list = Over(r.got, chats)
  OBVIOUS
<1>4. /\ others \in Seq(Calls) /\ (\A j \in DOMAIN others : In(others[j], reqs)) /\ r \in Calls /\ <<>> \in Seq(Calls)
      /\ chats \in Shelves /\ chatCursor \in SUBSET Chats /\ outdated \in BOOLEAN
  BY <1>1, <1>2, AheadIs
<1>5. /\ r.sel \in Chats /\ r.got = [d \in {r.sel} |-> assignChatDb(u)]
      /\ r.sel \notin r.missed => table[r.sel] = assignChatDb(u)
  BY <1>1, <1>2 DEF CallsSound, CallSound
<1>6. r.got \in Shelves /\ r.late \in BOOLEAN
  BY <1>4 DEF Calls
<1>7. /\ list \in Shelves /\ DOMAIN list = {r.sel} \cup DOMAIN chats
      /\ list[r.sel] = assignChatDb(u)
      /\ \A c \in DOMAIN chats : c # r.sel => list[c] = chats[c]
  <2>1. DOMAIN r.got = {r.sel} /\ r.got[r.sel] = assignChatDb(u)
    BY <1>5
  <2>2. /\ list \in Shelves /\ DOMAIN list = DOMAIN r.got \cup DOMAIN chats
        /\ \A c \in DOMAIN r.got : list[c] = r.got[c]
        /\ \A c \in DOMAIN chats \ DOMAIN r.got : list[c] = chats[c]
    BY <1>3, <1>4, <1>6, OverIs
  <2> QED BY <2>1, <2>2
<1>8. ~Leads => tab = "OPEN" /\ Mine(list)
  BY <1>1, <1>7 DEF AgentSound, Mine
<1>9. outdated' \in BOOLEAN
  <2>1. TooLate(r, others) \in BOOLEAN
    BY <1>6 DEF TooLate
  <2> QED BY <1>2, <1>4, <2>1
<1>10. activeTab' = "OPEN"
  <2>1. assignChatDb(u).status = "OPEN"
    BY RowsAre
  <2>2. Settled(list, r.sel, tab) = <<r.sel, "OPEN">>
    BY <1>7, <2>1 DEF Settled
  <2> QED BY <1>2, <1>3, <2>2 DEF Shows
<1> HIDE DEF others
<1>11. ASSUME Staying(list, others, chatCursor)
       PROVE  ListSound' /\ MoreSound'
  <2>1. ASSUME NEW c \in Chats, Steady'
        PROVE  \/ Told(c)' \/ Answered(c)'
               \/ HasIt(c)' /\ (Shown(c, activeTab) => c \in DOMAIN list)
               \/ /\ ~Answers(reqs[i], c) /\ (c \in DOMAIN list <=> c \in DOMAIN chats)
                  /\ c \in DOMAIN list => list[c] = chats[c]
    <3>1. CASE c # r.sel
      BY <1>2, <1>7, <3>1 DEF Answers
    <3>2. CASE c = r.sel /\ c \in r.missed
      <4>1. Coming(c, others)
        BY <1>2, <2>1, <3>2 DEF TooLate, Steady, others
      <4>2. \A j \in DOMAIN others : \E k \in DOMAIN reqs' :
              reqs'[k].at = others[j].at /\ reqs'[k].kind = others[j].kind /\ reqs'[k].sel = others[j].sel
        BY <1>11, StillThere DEF Staying
      <4> QED BY <1>4, <4>1, <4>2, StillComing
    <3>3. CASE c = r.sel /\ c \notin r.missed
      <4>1. chats' = list /\ activeTab' = "OPEN" /\ activeTab = "OPEN"
        BY <1>10, <1>11 DEF Staying
      <4>2. table[c] = assignChatDb(u) /\ table[c].status = "OPEN" /\ list[c] = table[c] /\ c \in DOMAIN list
        BY <1>5, <1>7, <3>3, RowsAre
      <4>3. Shown(c, "OPEN")
        BY <1>1, <4>2, ShownIs
      <4>4. HasIt(c)'
        BY <4>1, <4>2, <4>3 DEF HasIt, Shown, InTab, Listed, Leads
      <4> QED BY <4>2, <4>4
    <3> QED BY <3>1, <3>2, <3>3
  <2>2. reqs[i].kind # "list" /\ (outdated => outdated')
    BY DEF Writing
  <2> QED BY <1>1, <1>11, <2>1, <2>2, Answerless DEF others
<1>12. \A j \in DOMAIN <<>> : Fresh(<<>>[j]) /\ <<>>[j].kind = "list"
  OBVIOUS
<1>13. Shows(list, r.sel, tab, <<>>, others, chatCursor, busy)
  BY <1>2, <1>3 DEF others
<1>14. UNCHANGED <<table, older, me, events>> /\ r.sel \in Chats \cup {NoChat} /\ list \in Shelves
  BY <1>5, <1>7
<1> QED BY <1>4, <1>8, <1>9, <1>11, <1>12, <1>13, <1>14, AnswerStep

LEMMA CreatedStep ==
  ASSUME ListInv, NEW i \in DOMAIN reqs, Created(i)
  PROVE  ListInv'
<1>1. ListTypes /\ AgentSound
  BY DEF ListInv
<1>2. me \in Users /\ activeTab \in Tabs
  BY <1>1 DEF ListTypes
<1>3. reqs[i].kind = "create" /\ reqs[i].at = "read" /\ reqs[i].kind \in Writing
  BY DEF Created, Answer, Writing
<1>4. RowMade(reqs[i]) = assignChatDb(me)
  BY <1>3 DEF RowMade
<1> QED BY <1>1, <1>2, <1>3, <1>4, PutIn DEF Created, Answer, AgentSound, bounds

LEMMA TransferredStep ==
  ASSUME ListInv, NEW i \in DOMAIN reqs, handleReassignSuccess(i)
  PROVE  ListInv'
<1> DEFINE others == RemoveAt(reqs, i)
<1>1. /\ ListTypes /\ AgentSound /\ CallsSound /\ WordsSound /\ ListSound /\ MoreSound
  BY DEF ListInv
<1>2. PICK r : r = reqs[i]
  OBVIOUS
<1>3. /\ others \in Seq(Calls) /\ (\A j \in DOMAIN others : In(others[j], reqs)) /\ r \in Calls /\ <<>> \in Seq(Calls)
      /\ chats \in Shelves /\ chatCursor \in SUBSET Chats /\ outdated \in BOOLEAN
      /\ activeChatId \in Chats \cup {NoChat} /\ activeTab \in Tabs /\ me \in Users /\ "OPEN" \in Tabs
  BY <1>1, <1>2, AheadIs
<1>4. r.kind = "transfer" /\ r.at = "read" /\ r.kind \in Writing
  BY <1>2 DEF handleReassignSuccess, Answer, Writing
<1>5. r.to \in Users /\ RowMade(r) = assignChatDb(r.to) /\ r.sel \in Chats
  BY <1>1, <1>2, <1>4 DEF CallsSound, CallSound, RowMade
<1>6. /\ UNCHANGED <<table, older, me, events>>
      /\ outdated' = (outdated \/ TooLate(r, others))
  BY <1>2 DEF handleReassignSuccess, Answer, bounds
<1>7. CASE Leads \/ r.to = me
  <2>1. Shows(Over(r.got, chats), r.sel, "OPEN", <<>>, others, chatCursor, loading)
    BY <1>2, <1>7 DEF handleReassignSuccess
  <2> QED BY <1>2, <1>3, <1>4, <1>5, <1>6, <1>7, <2>1, PutIn
<1>8. CASE ~Leads /\ r.to # me
  <2>1. PICK list : list = WithoutChat(r.sel)
    OBVIOUS
  <2>2. PICK act : act = Deselected(r.sel)
    OBVIOUS
  <2>3. /\ list \in Shelves /\ DOMAIN list = DOMAIN chats \ {r.sel}
        /\ \A c \in DOMAIN list : list[c] = chats[c]
    BY <1>3, <2>1, OnlyIs DEF WithoutChat
  <2>4. act \in Chats \cup {NoChat}
    BY <1>3, <2>2 DEF Deselected
  <2>5. Shows(list, act, activeTab, <<>>, others, chatCursor, loading)
    BY <1>2, <1>8, <2>1, <2>2 DEF handleReassignSuccess
  <2>6. ~Leads => activeTab = "OPEN" /\ Mine(list)
    BY <1>1, <2>3 DEF AgentSound, Mine
  <2>7. outdated' \in BOOLEAN
    <3>1. r.late \in BOOLEAN
      BY <1>3 DEF Calls
    <3>2. TooLate(r, others) \in BOOLEAN
      BY <3>1 DEF TooLate
    <3> QED BY <1>3, <1>6, <3>2
  <2> HIDE DEF others
  <2>8. ASSUME Staying(list, others, chatCursor)
        PROVE  ListSound' /\ MoreSound'
    <3>1. ASSUME NEW c \in Chats, Steady'
          PROVE  \/ Told(c)' \/ Answered(c)'
                 \/ HasIt(c)' /\ (Shown(c, activeTab) => c \in DOMAIN list)
                 \/ /\ ~Answers(reqs[i], c) /\ (c \in DOMAIN list <=> c \in DOMAIN chats)
                    /\ c \in DOMAIN list => list[c] = chats[c]
      <4>1. CASE c # r.sel
        BY <1>2, <2>3, <4>1 DEF Answers
      <4>2. CASE c = r.sel /\ c \in r.missed
        <5>1. Coming(c, others)
          BY <1>6, <3>1, <4>2 DEF TooLate, Steady
        <5>2. \A j \in DOMAIN others : \E k \in DOMAIN reqs' :
                reqs'[k].at = others[j].at /\ reqs'[k].kind = others[j].kind /\ reqs'[k].sel = others[j].sel
          BY <2>8, StillThere DEF Staying
        <5> QED BY <1>3, <5>1, <5>2, StillComing, <1>6
      <4>3. CASE c = r.sel /\ c \notin r.missed
        <5>1. table[c] = assignChatDb(r.to)
          BY <1>1, <1>2, <1>4, <1>5, <4>3 DEF CallsSound, CallSound
        <5>2. table[c] # assignChatDb(me)
          BY <1>3, <1>5, <1>8, <5>1, RowsAre
        <5>3. ~Shown(c, activeTab)
          BY <1>1, <1>8, <5>2, ShownIs
        <5>4. HasIt(c)'
          BY <2>3, <2>8, <4>3 DEF HasIt, Staying
        <5> QED BY <5>3, <5>4
      <4> QED BY <4>1, <4>2, <4>3
    <3>2. reqs[i].kind # "list" /\ (outdated => outdated')
      BY <1>2, <1>4, <1>6
    <3> QED BY <1>1, <1>6, <2>8, <3>1, <3>2, Answerless DEF others
  <2>9. \A j \in DOMAIN <<>> : Fresh(<<>>[j]) /\ <<>>[j].kind = "list"
    OBVIOUS
  <2> QED BY <1>3, <1>6, <2>3, <2>4, <2>5, <2>6, <2>7, <2>8, <2>9, AnswerStep
<1> QED BY <1>7, <1>8

(* What the user did, and the list is loaded again.                        *)
LEMMA PatchedIs ==
  ASSUME chats \in Shelves, NEW r, NEW made \in Card
  PROVE  /\ Patched(r, made) \in Shelves /\ DOMAIN Patched(r, made) = DOMAIN chats
         /\ \A c \in DOMAIN chats : Patched(r, made)[c] = IF c = r.sel THEN made ELSE chats[c]
<1>1. DOMAIN chats \in SUBSET Chats /\ chats \in [DOMAIN chats -> Card]
  <2>1. PICK S \in SUBSET Chats : chats \in [S -> Card]
    BY DEF Shelves
  <2> QED BY <2>1
<1>2. CASE r.sel \in DOMAIN chats
  <2>1. Patched(r, made) = [chats EXCEPT ![r.sel] = made]
    BY <1>2 DEF Patched
  <2>2. Patched(r, made) \in [DOMAIN chats -> Card]
    BY <1>1, <2>1
  <2> QED BY <1>1, <2>1, <2>2, IsShelf
<1>3. CASE r.sel \notin DOMAIN chats
  BY <1>1, <1>3 DEF Patched
<1> QED BY <1>2, <1>3

LEMMA Reloads ==
  ASSUME ListInv, NEW i \in DOMAIN reqs, NEW list \in Shelves, NEW act \in Chats \cup {NoChat}, NEW tab \in Tabs,
         NEW busy, ~Leads => tab = "OPEN" /\ Mine(list),
         Shows(list, act, tab, <<Load(reqs[i].tab, reqs[i].sel)>>, RemoveAt(reqs, i), chatCursor, busy),
         UNCHANGED <<table, older, me, events>>, outdated' \in BOOLEAN
  PROVE  ListInv'
<1>1. ListTypes /\ CallsSound
  BY DEF ListInv
<1>2. PICK r : r = reqs[i]
  OBVIOUS
<1>3. PICK own : own = <<Load(r.tab, r.sel)>>
  OBVIOUS
<1>4. PICK others : others = RemoveAt(reqs, i)
  OBVIOUS
<1>5. /\ others \in Seq(Calls) /\ (\A j \in DOMAIN others : In(others[j], reqs)) /\ r \in Calls
      /\ chatCursor \in SUBSET Chats
  BY <1>1, <1>2, <1>4, AheadIs
<1>6. r.tab \in Tabs /\ r.sel \in Chats \cup {NoChat} /\ (~Leads => r.tab = "OPEN")
  BY <1>1, <1>2, <1>5 DEF Calls, CallsSound, CallSound
<1>7. Fresh(Load(r.tab, r.sel)) /\ Load(r.tab, r.sel).kind = "list" /\ Load(r.tab, r.sel) \in Calls
  BY <1>6, LoadFresh DEF Fresh
<1>8. /\ own \in Seq(Calls) /\ own # <<>>
      /\ \A j \in DOMAIN own : Fresh(own[j]) /\ own[j].kind = "list"
  BY <1>3, <1>7
<1>9. Shows(list, act, tab, own, others, chatCursor, busy) /\ UNCHANGED <<table, older, me, events>>
  BY <1>2, <1>3, <1>4
<1> QED BY <1>5, <1>8, <1>9, AnswerStep

LEMMA AssignedStep ==
  ASSUME ListInv, NEW i \in DOMAIN reqs, Assigned(i)
  PROVE  ListInv'
<1>1. ListTypes /\ AgentSound
  BY DEF ListInv
<1>2. chats \in Shelves /\ activeChatId \in Chats \cup {NoChat} /\ "OPEN" \in Tabs /\ outdated \in BOOLEAN
  BY <1>1, AheadIs
<1>3. assignChatDb(me) \in Card
  BY <1>1, RowsAre DEF ListTypes
<1>4. PICK all : all = Patched(reqs[i], assignChatDb(me))
  OBVIOUS
<1>5. PICK list : list = OfTab(all, reqs[i])
  OBVIOUS
<1>6. /\ all \in Shelves /\ DOMAIN all = DOMAIN chats
      /\ \A c \in DOMAIN chats : all[c] = IF c = reqs[i].sel THEN assignChatDb(me) ELSE chats[c]
  BY <1>2, <1>3, <1>4, PatchedIs
<1>7. /\ list \in Shelves /\ DOMAIN list \subseteq DOMAIN all
      /\ \A c \in DOMAIN list : list[c] = all[c]
  <2>1. PICK S : S = {c \in DOMAIN all : matchesTab(all[c], reqs[i].tab) \/ c = reqs[i].sel}
    OBVIOUS
  <2>2. list = Only(all, S)
    BY <1>5, <2>1 DEF OfTab
  <2>3. Only(all, S) \in Shelves /\ DOMAIN Only(all, S) = DOMAIN all \cap S
        /\ \A c \in DOMAIN all \cap S : Only(all, S)[c] = all[c]
    BY <1>6, OnlyIs
  <2> QED BY <2>2, <2>3
<1>8. ~Leads => Mine(list)
  BY <1>1, <1>6, <1>7 DEF AgentSound, Mine
<1>9. /\ Shows(list, activeChatId, "OPEN", <<Load(reqs[i].tab, reqs[i].sel)>>, RemoveAt(reqs, i), chatCursor, loading)
      /\ UNCHANGED <<table, older, me, events>> /\ outdated' = outdated
  BY <1>4, <1>5 DEF Assigned, Answer, bounds
<1> QED BY <1>2, <1>7, <1>8, <1>9, Reloads

LEMMA ClosedStep ==
  ASSUME ListInv, NEW i \in DOMAIN reqs, Closed(i)
  PROVE  ListInv'
<1>1. ListTypes /\ AgentSound
  BY DEF ListInv
<1>2. /\ chats \in Shelves /\ activeChatId \in Chats \cup {NoChat} /\ NoChat \in Chats \cup {NoChat}
      /\ "OPEN" \in Tabs /\ "CLOSED" \in Tabs /\ outdated \in BOOLEAN
  BY <1>1, AheadIs
<1>3. PICK was : was = IF reqs[i].sel \in DOMAIN chats THEN chats[reqs[i].sel].agent ELSE NoAgent
  OBVIOUS
<1>4. PICK made : made = [closedRow EXCEPT !.agent = was]
  OBVIOUS
<1>5. was \in Owner
  <2>1. \A c \in DOMAIN chats : chats[c] \in Card
    BY <1>2, ShelfIs
  <2> QED BY <1>3, <2>1 DEF Card, Owner
<1>6. made \in Card /\ made.status = "CLOSED"
  BY <1>4, <1>5 DEF closedRow, Card, Status
<1>7. PICK all : all = Patched(reqs[i], made)
  OBVIOUS
<1>8. /\ all \in Shelves /\ DOMAIN all = DOMAIN chats
      /\ \A c \in DOMAIN chats : all[c] = IF c = reqs[i].sel THEN made ELSE chats[c]
  BY <1>2, <1>6, <1>7, PatchedIs
<1>9. UNCHANGED <<table, older, me, events>> /\ outdated' = outdated
  BY DEF Closed, Answer, bounds
<1>10. CASE Leads
  <2>1. PICK list : list = OfTab(all, reqs[i])
    OBVIOUS
  <2>2. list \in Shelves
    BY <1>8, <2>1, OnlyIs DEF OfTab
  <2>3. Shows(list, activeChatId, "CLOSED", <<Load(reqs[i].tab, reqs[i].sel)>>, RemoveAt(reqs, i), chatCursor, loading)
    BY <1>3, <1>4, <1>7, <1>10, <2>1 DEF Closed
  <2> QED BY <1>2, <1>9, <1>10, <2>2, <2>3, Reloads
<1>11. CASE ~Leads
  <2>1. PICK list : list = Only(all, {c \in DOMAIN all : all[c].status # "CLOSED"})
    OBVIOUS
  <2>2. /\ list \in Shelves /\ DOMAIN list = DOMAIN all \cap {c \in DOMAIN all : all[c].status # "CLOSED"}
        /\ \A c \in DOMAIN list : list[c] = all[c]
    <3>1. PICK S : S = {c \in DOMAIN all : all[c].status # "CLOSED"}
      OBVIOUS
    <3>2. list = Only(all, S)
      BY <2>1, <3>1
    <3>3. list \in Shelves /\ DOMAIN list = DOMAIN all \cap S /\ \A c \in DOMAIN all \cap S : list[c] = all[c]
      BY <1>8, <3>2, OnlyIs
    <3> QED BY <3>1, <3>3
  <2>3. Mine(list)
    <3>1. \A c \in DOMAIN list : c \in DOMAIN chats /\ all[c].status # "CLOSED"
      BY <1>8, <2>2
    <3>2. \A c \in DOMAIN list : all[c] = chats[c]
      BY <1>6, <1>8, <3>1
    <3> QED BY <1>1, <1>11, <2>2, <3>1, <3>2 DEF AgentSound, Mine
  <2>4. Shows(list, NoChat, "OPEN", <<Load(reqs[i].tab, reqs[i].sel)>>, RemoveAt(reqs, i), chatCursor, loading)
    BY <1>3, <1>4, <1>7, <1>11, <2>1 DEF Closed
  <2> QED BY <1>2, <1>9, <2>2, <2>3, <2>4, Reloads
<1> QED BY <1>10, <1>11

LEMMA FailsStep ==
  ASSUME ListInv, NEW i \in DOMAIN reqs, RequestFails(i)
  PROVE  ListInv'
<1>1. /\ ListTypes /\ AgentSound /\ CallsSound /\ WordsSound /\ ListSound /\ MoreSound
  BY DEF ListInv
<1>2. /\ RemoveAt(reqs, i) \in Seq(Calls) /\ (\A j \in DOMAIN RemoveAt(reqs, i) : In(RemoveAt(reqs, i)[j], reqs))
      /\ <<>> \in Seq(Calls) /\ chats \in Shelves /\ chatCursor \in SUBSET Chats /\ outdated \in BOOLEAN
      /\ activeChatId \in Chats \cup {NoChat} /\ NoChat \in Chats \cup {NoChat} /\ activeTab \in Tabs
  BY <1>1, AheadIs
<1>3. ~Leads => activeTab = "OPEN" /\ Mine(chats)
  BY <1>1 DEF AgentSound
<1>4. /\ UNCHANGED <<table, older, me, events>>
      /\ outdated' = (outdated \/ reqs[i].kind = "list" \/ (reqs[i].at = "read" /\ reqs[i].kind # "more"))
      /\ outdated' \in BOOLEAN
  BY <1>2 DEF RequestFails, bounds
<1>5. ASSUME NEW busy, Shows(chats, activeChatId, activeTab, <<>>, RemoveAt(reqs, i), chatCursor, busy)
      PROVE  ListInv'
  <2>1. ASSUME Staying(chats, RemoveAt(reqs, i), chatCursor)
        PROVE  ListSound' /\ MoreSound'
    <3>1. CASE outdated'
      BY <3>1, Lost
    <3>2. CASE ~outdated'
      <4>1. reqs[i].kind # "list" /\ (outdated => outdated')
        BY <1>4, <3>2
      <4>2. \A c : ~Answers(reqs[i], c)
        BY <1>4, <3>2 DEF Answers, Writing
      <4>3. \A c \in Chats : ~Answers(reqs[i], c) /\ (c \in DOMAIN chats <=> c \in DOMAIN chats)
                               /\ (c \in DOMAIN chats => chats[c] = chats[c])
        BY <4>2
      <4> QED BY <1>1, <1>4, <2>1, <4>1, <4>3, Answerless
    <3> QED BY <3>1, <3>2
  <2>2. \A j \in DOMAIN <<>> : Fresh(<<>>[j]) /\ <<>>[j].kind = "list"
    OBVIOUS
  <2> QED BY <1>2, <1>3, <1>4, <1>5, <2>1, <2>2, AnswerStep
<1>6. ASSUME NEW busy, Shows(chats, NoChat, activeTab, <<Load(reqs[i].tab, reqs[i].sel)>>, RemoveAt(reqs, i), chatCursor, busy)
      PROVE  ListInv'
  BY <1>2, <1>3, <1>4, <1>6, Reloads
<1> QED BY <1>5, <1>6 DEF RequestFails

(* The list itself is loaded.                                              *)
LEMMA VisibleIs ==
  ASSUME ListTypes, NEW r \in Calls
  PROVE  /\ Visible(r) \in Shelves /\ \A c \in DOMAIN Visible(r) : c \in DOMAIN r.got /\ Visible(r)[c] = r.got[c]
         /\ Mine(r.got) => Mine(Visible(r))
         /\ \A c \in DOMAIN r.got : r.got[c] = table[c] /\ Shown(c, r.tab) => c \in DOMAIN Visible(r)
<1>1. PICK S : S = {c \in DOMAIN r.got : isChatVisible(r.got[c]) /\ (matchesTab(r.got[c], r.tab) \/ c = r.sel)}
  OBVIOUS
<1>2. Visible(r) = Only(r.got, S)
  BY <1>1 DEF Visible
<1>3. r.got \in Shelves
  BY DEF Calls
<1>4. /\ Visible(r) \in Shelves /\ DOMAIN Visible(r) = DOMAIN r.got \cap S
      /\ \A c \in DOMAIN r.got \cap S : Visible(r)[c] = r.got[c]
  <2>1. PICK got : got = r.got
    OBVIOUS
  <2>2. Only(got, S) \in Shelves /\ DOMAIN Only(got, S) = DOMAIN got \cap S
        /\ \A c \in DOMAIN got \cap S : Only(got, S)[c] = got[c]
    BY <1>3, <2>1, OnlyIs
  <2> QED BY <1>2, <2>1, <2>2
<1>5. ASSUME NEW c \in DOMAIN r.got, r.got[c] = table[c], Shown(c, r.tab)
      PROVE  c \in DOMAIN Visible(r)
  <2>1. isChatVisible(r.got[c]) /\ matchesTab(r.got[c], r.tab)
    BY <1>5 DEF Shown, InTab, Listed, isChatVisible, matchesTab
  <2> QED BY <1>1, <1>4, <2>1
<1>6. Mine(r.got) => Mine(Visible(r))
  BY <1>4 DEF Mine
<1> QED BY <1>4, <1>5, <1>6

LEMMA FirstOfIs ==
  ASSUME ListTypes, NEW list \in Shelves, NEW sel, NEW c \in FirstOf(list, sel)
  PROVE  c \in Chats \cup {NoChat}
<1>1. DOMAIN list \subseteq Chats /\ activeChatId \in Chats \cup {NoChat}
  BY ShelfIs DEF ListTypes
<1> QED BY <1>1 DEF FirstOf

LEMMA LoadedStep ==
  ASSUME ListInv, NEW i \in DOMAIN reqs, loadChats(i)
  PROVE  ListInv'
<1>1. /\ ListTypes /\ AgentSound /\ CallsSound /\ WordsSound /\ ListSound /\ MoreSound
  BY DEF ListInv
<1>2. PICK r : r = reqs[i]
  OBVIOUS
<1>3. PICK rest : rest = RemoveAt(reqs, i)
  OBVIOUS
<1>4. PICK others : others = [j \in DOMAIN rest |-> [rest[j] EXCEPT !.late = @ \/ rest[j].kind = "more"]]
  OBVIOUS
<1>5. PICK list : list = Visible(r)
  OBVIOUS
<1>6. /\ rest \in Seq(Calls) /\ (\A j \in DOMAIN rest : In(rest[j], reqs)) /\ r \in Calls /\ reqs \in Seq(Calls)
      /\ <<>> \in Seq(Calls) /\ activeTab \in Tabs
  BY <1>1, <1>2, <1>3, AheadIs
<1>7. /\ r.at = "read" /\ r.kind = "list" /\ UNCHANGED <<table, older, me, events>>
      /\ outdated' = (TooLate(r, rest) \/ r.tab # activeTab)
  BY <1>2, <1>3 DEF loadChats, Answer, bounds
<1>8. PICK act \in FirstOf(list, r.sel) : Shows(list, act, activeTab, <<>>, others, r.next, FALSE)
  BY <1>2, <1>3, <1>4, <1>5 DEF loadChats
<1>9. /\ list \in Shelves /\ \A c \in DOMAIN list : c \in DOMAIN r.got /\ list[c] = r.got[c]
      /\ Mine(r.got) => Mine(list)
      /\ \A c \in DOMAIN r.got : r.got[c] = table[c] /\ Shown(c, r.tab) => c \in DOMAIN list
  BY <1>1, <1>5, <1>6, VisibleIs
<1>10. act \in Chats \cup {NoChat}
  BY <1>1, <1>9, FirstOfIs
<1>11. PageSound(r) /\ r.cursor = NoCursor /\ (~Leads => Mine(r.got))
  BY <1>1, <1>2, <1>7 DEF CallsSound, CallSound, Reading
<1>12. ~Leads => activeTab = "OPEN" /\ Mine(list)
  BY <1>1, <1>9, <1>11 DEF AgentSound
<1>13. /\ DOMAIN others = DOMAIN rest
       /\ \A j \in DOMAIN rest : \E yes \in BOOLEAN :
            /\ others[j] = [rest[j] EXCEPT !.late = yes] /\ rest[j] \in Calls
            /\ rest[j].kind = "more" => yes
  <2>1. DOMAIN others = DOMAIN rest
    BY <1>4
  <2>2. ASSUME NEW j \in DOMAIN rest
        PROVE  \E yes \in BOOLEAN : /\ others[j] = [rest[j] EXCEPT !.late = yes] /\ rest[j] \in Calls
                                    /\ rest[j].kind = "more" => yes
    <3>1. rest[j] \in Calls
      BY <1>6
    <3>2. rest[j].late \in BOOLEAN
      BY <3>1 DEF Calls
    <3>3. PICK yes : yes = (rest[j].late \/ rest[j].kind = "more")
      OBVIOUS
    <3>4. yes \in BOOLEAN /\ (rest[j].kind = "more" => yes)
      BY <3>2, <3>3
    <3>5. others[j] = [rest[j] EXCEPT !.late = yes]
      BY <1>4, <3>3
    <3> QED BY <3>1, <3>4, <3>5
  <2> QED BY <2>1, <2>2
<1>14. \A j \in DOMAIN rest :
         /\ others[j] \in Calls /\ others[j].at = rest[j].at /\ others[j].kind = rest[j].kind
         /\ others[j].sel = rest[j].sel /\ (others[j].kind = "more" => others[j].late)
  BY <1>13 DEF Calls
<1>15. others \in Seq(Calls)
  <2>1. DOMAIN rest = 1..Len(rest) /\ Len(rest) \in Nat
    BY <1>6
  <2>2. others \in [1..Len(rest) -> Calls]
    BY <1>4, <1>13, <1>14, <2>1
  <2> QED BY <2>1, <2>2
<1>16. \A j \in DOMAIN others : Belated(others[j])
  <2> TAKE j \in DOMAIN others
  <2>1. PICK k \in DOMAIN reqs : reqs[k] = rest[j]
    BY <1>6, <1>13 DEF In
  <2>2. PICK yes \in BOOLEAN : others[j] = [rest[j] EXCEPT !.late = yes]
    BY <1>13
  <2> QED BY <2>1, <2>2 DEF Belated
<1>17. outdated' \in BOOLEAN
  <2>1. r.late \in BOOLEAN
    BY <1>6 DEF Calls
  <2>2. TooLate(r, rest) \in BOOLEAN
    BY <2>1 DEF TooLate
  <2> QED BY <1>7, <2>2
<1>18. ASSUME Staying(list, others, r.next)
       PROVE  ListSound' /\ MoreSound'
  <2>1. /\ chats' = list /\ activeTab' = activeTab /\ chatCursor' = r.next
        /\ \A x : In(x, others) => In(x, reqs')
        /\ \A j \in DOMAIN reqs' : In(reqs'[j], others) \/ reqs'[j].kind = "list"
    BY <1>18 DEF Staying
  <2>2. ASSUME Steady', NEW c \in Chats
        PROVE  Told(c)' \/ Answered(c)' \/ (HasIt(c)' /\ Holds(c, Ahead(chatCursor))')
    <3>1. ~TooLate(r, rest) /\ r.tab = activeTab
      BY <1>7, <2>2 DEF Steady
    <3>2. CASE c \in r.missed
      <4>1. Coming(c, rest)
        BY <3>1, <3>2 DEF TooLate
      <4>2. \A j \in DOMAIN rest : \E k \in DOMAIN reqs' :
              reqs'[k].at = rest[j].at /\ reqs'[k].kind = rest[j].kind /\ reqs'[k].sel = rest[j].sel
        <5> TAKE j \in DOMAIN rest
        <5>1. In(others[j], others)
          BY <1>13 DEF In
        <5>2. PICK k \in DOMAIN reqs' : reqs'[k] = others[j]
          BY <2>1, <5>1 DEF In
        <5> QED BY <1>14, <5>2
      <4>3. events' = events
        BY <1>7
      <4> QED BY <1>6, <4>1, <4>2, <4>3, StillComing
    <3>3. CASE c \notin r.missed
      <4>1. c \in DOMAIN r.got => r.got[c] = table[c] /\ Shown(c, activeTab)
        BY <1>11, <3>1, <3>3 DEF PageSound
      <4>2. Shown(c, activeTab) /\ c \notin Ahead(r.next) => c \in DOMAIN r.got
        BY <1>11, <3>1, <3>3 DEF PageSound, NoCursor
      <4>3. c \in DOMAIN list => list[c] = table[c] /\ Shown(c, activeTab)
        BY <1>9, <4>1
      <4>4. Shown(c, activeTab) /\ c \notin Ahead(r.next) => c \in DOMAIN list
        BY <1>9, <3>1, <4>1, <4>2
      <4>5. HasIt(c)'
        BY <1>7, <2>1, <4>3 DEF HasIt, Shown, InTab, Listed, Leads
      <4>6. Holds(c, Ahead(chatCursor))'
        BY <1>7, <2>1, <4>4 DEF Holds, Shown, InTab, Listed, Leads, Ahead
      <4> QED BY <4>5, <4>6
    <3> QED BY <3>2, <3>3
  <2>3. \A j \in DOMAIN reqs' : reqs'[j].kind = "more" => reqs'[j].late
    <3> TAKE j \in DOMAIN reqs'
    <3>1. CASE In(reqs'[j], others)
      BY <1>13, <1>14, <3>1 DEF In
    <3> QED BY <2>1, <3>1
  <2>4. MoreSound'
    BY <2>3 DEF MoreSound
  <2> QED BY <2>2, <2>4 DEF ListSound
<1>19. r.next \in SUBSET Chats
  BY <1>6 DEF Calls
<1>20. \A j \in DOMAIN <<>> : Fresh(<<>>[j]) /\ <<>>[j].kind = "list"
  OBVIOUS
<1>21. list \in Shelves /\ <<>> \in Seq(Calls) /\ activeTab \in Tabs /\ UNCHANGED <<table, older, me, events>>
  BY <1>6, <1>7, <1>9
<1> QED BY <1>8, <1>10, <1>12, <1>15, <1>16, <1>17, <1>18, <1>19, <1>20, <1>21, AnswerStep

(* More of it is loaded, below what is there.                              *)
LEMMA MoreStep ==
  ASSUME ListInv, NEW i \in DOMAIN reqs, loadMoreChats(i)
  PROVE  ListInv'
<1>1. /\ ListTypes /\ AgentSound /\ CallsSound /\ WordsSound /\ ListSound /\ MoreSound
  BY DEF ListInv
<1>2. PICK r : r = reqs[i]
  OBVIOUS
<1>3. PICK rest : rest = RemoveAt(reqs, i)
  OBVIOUS
<1>4. PICK visible : visible = Visible(r)
  OBVIOUS
<1>5. PICK list : list = Over(visible, chats)
  OBVIOUS
<1>6. /\ rest \in Seq(Calls) /\ (\A j \in DOMAIN rest : In(rest[j], reqs)) /\ r \in Calls /\ reqs \in Seq(Calls)
      /\ <<>> \in Seq(Calls) /\ activeTab \in Tabs /\ chats \in Shelves /\ outdated \in BOOLEAN
  BY <1>1, <1>2, <1>3, AheadIs
<1>7. /\ r.at = "read" /\ r.kind = "more" /\ UNCHANGED <<table, older, me, events>>
      /\ outdated' = (outdated \/ TooLate(r, rest) \/ r.tab # activeTab)
  BY <1>2, <1>3 DEF loadMoreChats, Answer, bounds
<1>8. PICK act \in FirstOf(visible, r.sel) : Shows(list, act, activeTab, <<>>, rest, r.next, loading)
  BY <1>2, <1>3, <1>4, <1>5 DEF loadMoreChats
<1>9. /\ visible \in Shelves /\ \A c \in DOMAIN visible : c \in DOMAIN r.got /\ visible[c] = r.got[c]
      /\ Mine(r.got) => Mine(visible)
      /\ \A c \in DOMAIN r.got : r.got[c] = table[c] /\ Shown(c, r.tab) => c \in DOMAIN visible
  BY <1>1, <1>4, <1>6, VisibleIs
<1>10. act \in Chats \cup {NoChat}
  BY <1>1, <1>9, FirstOfIs
<1>11. PageSound(r) /\ (~Leads => Mine(r.got))
  BY <1>1, <1>2, <1>7 DEF CallsSound, CallSound, Reading
<1>12. /\ list \in Shelves /\ DOMAIN list = DOMAIN visible \cup DOMAIN chats
       /\ \A c \in DOMAIN visible : list[c] = visible[c]
       /\ \A c \in DOMAIN chats \ DOMAIN visible : list[c] = chats[c]
  BY <1>5, <1>6, <1>9, OverIs
<1>13. ~Leads => activeTab = "OPEN" /\ Mine(list)
  BY <1>1, <1>9, <1>11, <1>12 DEF AgentSound, Mine
<1>14. outdated' \in BOOLEAN
  <2>1. r.late \in BOOLEAN
    BY <1>6 DEF Calls
  <2>2. TooLate(r, rest) \in BOOLEAN
    BY <2>1 DEF TooLate
  <2> QED BY <1>6, <1>7, <2>2
<1>15. ASSUME Staying(list, rest, r.next)
       PROVE  ListSound' /\ MoreSound'
  <2>1. /\ chats' = list /\ activeTab' = activeTab /\ chatCursor' = r.next
        /\ \A x : In(x, rest) => In(x, reqs')
        /\ \A j \in DOMAIN reqs' : In(reqs'[j], rest) \/ reqs'[j].kind = "list"
    BY <1>15 DEF Staying
  <2>2. Steady' => Steady /\ ~TooLate(r, rest) /\ r.tab = activeTab
    <3> SUFFICES ASSUME Steady'
                 PROVE  Steady /\ ~TooLate(r, rest) /\ r.tab = activeTab
      OBVIOUS
    <3>1. ~outdated /\ ~TooLate(r, rest) /\ r.tab = activeTab
      BY <1>7 DEF Steady
    <3>2. \A j \in DOMAIN reqs' : reqs'[j].kind # "list"
      BY DEF Steady, Loading
    <3>3. ASSUME NEW j \in DOMAIN reqs
          PROVE  reqs[j].kind # "list"
      <4>1. CASE j = i
        BY <1>2, <1>7, <4>1
      <4>2. CASE j # i
        <5>1. In(reqs[j], reqs')
          BY <1>3, <1>6, <2>1, <4>2, InRest
        <5> QED BY <3>2, <5>1 DEF In
      <4> QED BY <4>1, <4>2
    <3>4. \A j \in DOMAIN events : ~events[j].old
      BY <1>7 DEF Steady
    <3> QED BY <3>1, <3>3, <3>4 DEF Steady, Loading
  <2>3. ASSUME NEW c, Told(c) \/ Answered(c)
        PROVE  Told(c)' \/ Answered(c)'
    <3>1. ~Answers(reqs[i], c)
      BY <1>2, <1>7 DEF Answers, Writing
    <3> QED BY <1>1, <1>3, <1>7, <2>1, <2>3, <3>1, StillTold
  <2>4. ASSUME Steady', NEW c \in Chats
        PROVE  Told(c)' \/ Answered(c)' \/ (HasIt(c)' /\ Holds(c, Ahead(chatCursor))')
    <3>1. Steady /\ ~TooLate(r, rest) /\ r.tab = activeTab
      BY <2>2, <2>4
    <3>2. CASE Told(c) \/ Answered(c)
      BY <2>3, <3>2
    <3>3. CASE c \in r.missed
      <4>1. Coming(c, rest)
        BY <3>1, <3>3 DEF TooLate
      <4>2. \A j \in DOMAIN rest : \E k \in DOMAIN reqs' :
              reqs'[k].at = rest[j].at /\ reqs'[k].kind = rest[j].kind /\ reqs'[k].sel = rest[j].sel
        BY <2>1, StillThere
      <4>3. events' = events
        BY <1>7
      <4> QED BY <1>6, <4>1, <4>2, <4>3, StillComing
    <3>4. CASE c \notin r.missed /\ ~(Told(c) \/ Answered(c))
      <4>1. c \in DOMAIN r.got => r.got[c] = table[c] /\ Shown(c, activeTab)
        BY <1>11, <3>1, <3>4 DEF PageSound
      <4>2. c \in r.cursor /\ Shown(c, activeTab) /\ c \notin Ahead(r.next) => c \in DOMAIN r.got
        BY <1>11, <3>1, <3>4 DEF PageSound
      <4>3. HasIt(c)
        BY <1>1, <3>1, <3>4 DEF ListSound
      <4>4. Holds(c, r.cursor)
        <5>1. ~r.late
          BY <3>1 DEF TooLate
        <5> QED BY <1>1, <1>2, <1>7, <3>1, <3>4, <5>1 DEF MoreSound
      <4>5. c \in DOMAIN list => list[c] = table[c] /\ Shown(c, activeTab)
        BY <1>9, <1>12, <4>1, <4>3 DEF HasIt
      <4>6. Shown(c, activeTab) /\ c \notin Ahead(r.next) => c \in DOMAIN list
        BY <1>9, <1>12, <3>1, <4>1, <4>2, <4>4 DEF Holds
      <4>7. HasIt(c)'
        BY <1>7, <2>1, <4>5 DEF HasIt, Shown, InTab, Listed, Leads
      <4>8. Holds(c, Ahead(chatCursor))'
        BY <1>7, <2>1, <4>6 DEF Holds, Shown, InTab, Listed, Leads, Ahead
      <4> QED BY <4>7, <4>8
    <3> QED BY <3>2, <3>3, <3>4
  <2>5. MoreSound'
    <3> SUFFICES ASSUME Steady', NEW j \in DOMAIN reqs',
                        reqs'[j].kind = "more" /\ ~reqs'[j].late /\ reqs'[j].tab = activeTab',
                        NEW c \in Chats, ~(Told(c)' \/ Answered(c)')
                 PROVE  Holds(c, reqs[j].cursor)'
      BY DEF MoreSound
    <3>1. PICK q : q = reqs'[j]
      OBVIOUS
    <3>2. PICK k \in DOMAIN reqs : q = reqs[k]
      <4>1. In(q, rest)
        BY <2>1, <3>1
      <4> QED BY <1>6, <4>1 DEF In
    <3>3. Holds(c, q.cursor)
      BY <1>1, <2>1, <2>2, <2>3, <3>1, <3>2 DEF MoreSound
    <3>4. Holds(c, reqs[j].cursor)' <=> (Shown(c, activeTab) /\ c \notin q.cursor => c \in DOMAIN list)
      BY <1>7, <2>1, <3>1 DEF Holds, Shown, InTab, Listed, Leads
    <3> QED BY <1>12, <3>3, <3>4 DEF Holds
  <2> QED BY <2>4, <2>5 DEF ListSound
<1>16. r.next \in SUBSET Chats
  BY <1>6 DEF Calls
<1>17. \A j \in DOMAIN <<>> : Fresh(<<>>[j]) /\ <<>>[j].kind = "list"
  OBVIOUS
<1>18. list \in Shelves /\ <<>> \in Seq(Calls) /\ activeTab \in Tabs /\ UNCHANGED <<table, older, me, events>>
       /\ rest \in Seq(Calls) /\ (\A j \in DOMAIN rest : In(rest[j], reqs))
  BY <1>6, <1>7, <1>12
<1> QED BY <1>8, <1>10, <1>13, <1>14, <1>15, <1>16, <1>17, <1>18, AnswerStep

-----------------------------------------------------------------------------
(* Events.                                                                 *)
LEMMA HeadIs ==
  ASSUME ListTypes, events # <<>>
  PROVE  /\ Head(events) = events[1] /\ events[1] \in Word /\ 1 \in DOMAIN events /\ DOMAIN events \subseteq Nat
         /\ Tail(events) \in Seq(Word) /\ DOMAIN Tail(events) \subseteq Nat
         /\ \A j \in DOMAIN Tail(events) : j + 1 \in DOMAIN events /\ Tail(events)[j] = events[j + 1]
         /\ \A k \in DOMAIN events : k # 1 => k - 1 \in DOMAIN Tail(events) /\ Tail(events)[k - 1] = events[k]
<1>1. events \in Seq(Word)
  BY DEF ListTypes
<1>2. /\ Head(events) = events[1] /\ Tail(events) \in Seq(Word) /\ Len(events) \in Nat \ {0}
      /\ DOMAIN events = 1..Len(events) /\ DOMAIN Tail(events) = 1..(Len(events) - 1)
      /\ \A j \in 1..(Len(events) - 1) : Tail(events)[j] = events[j + 1]
  BY <1>1
<1>3. 1 \in DOMAIN events /\ events[1] \in Word
  BY <1>1, <1>2
<1>4. \A j \in DOMAIN Tail(events) : j + 1 \in DOMAIN events /\ Tail(events)[j] = events[j + 1]
  BY <1>2
<1>5. \A k \in DOMAIN events : k # 1 => k - 1 \in DOMAIN Tail(events) /\ Tail(events)[k - 1] = events[k]
  <2> TAKE k \in DOMAIN events
  <2> HAVE k # 1
  <2>1. k - 1 \in 1..(Len(events) - 1) /\ (k - 1) + 1 = k
    BY <1>2
  <2>2. Tail(events)[k - 1] = events[(k - 1) + 1]
    BY <1>2, <2>1
  <2> QED BY <1>2, <2>1, <2>2
<1> QED BY <1>2, <1>3, <1>4, <1>5

LEMMA TailTells ==
  ASSUME ListTypes, WordsSound, events # <<>>, events' = Tail(events), UNCHANGED <<table, me>>
  PROVE  /\ WordsSound'
         /\ \A c : Told(c) => c = events[1].chat \/ Told(c)'
         /\ \A c : c = events[1].chat => events[1].old \/ Tells(events[1]) \/ Told(c)'
         /\ (\A i \in DOMAIN events' : ~events'[i].old) /\ ~events[1].old => \A i \in DOMAIN events : ~events[i].old
<1>1. /\ 1 \in DOMAIN events /\ DOMAIN events \subseteq Nat /\ DOMAIN events' \subseteq Nat
      /\ \A j \in DOMAIN events' : j + 1 \in DOMAIN events /\ events'[j] = events[j + 1]
      /\ \A k \in DOMAIN events : k # 1 => k - 1 \in DOMAIN events' /\ events'[k - 1] = events[k]
  BY HeadIs
<1>2. \A w : Tells(w)' <=> Tells(w)
  BY DEF Tells, Leads
<1>3. WordsSound'
  <2> SUFFICES ASSUME NEW i \in DOMAIN events', ~events'[i].old
               PROVE  \/ Tells(events[i])'
                      \/ \E k \in DOMAIN events' : k > i /\ events'[k].chat = events'[i].chat /\ ~events'[k].old
    BY DEF WordsSound
  <2>1. PICK w : w = events'[i]
    OBVIOUS
  <2>2. i + 1 \in DOMAIN events /\ events[i + 1] = w /\ ~w.old /\ i \in Nat
    BY <1>1, <2>1
  <2>3. Tells(events[i])' <=> Tells(w)'
    BY <2>1 DEF Tells, Leads
  <2>4. Tells(w) \/ \E k \in DOMAIN events : k > i + 1 /\ events[k].chat = w.chat /\ ~events[k].old
    BY <2>2 DEF WordsSound
  <2>5. CASE \E k \in DOMAIN events : k > i + 1 /\ events[k].chat = w.chat /\ ~events[k].old
    <3>1. PICK k \in DOMAIN events : k > i + 1 /\ events[k].chat = w.chat /\ ~events[k].old
      BY <2>5
    <3>2. k \in Nat /\ k # 1 /\ k - 1 > i
      BY <1>1, <2>2, <3>1
    <3>3. k - 1 \in DOMAIN events' /\ events'[k - 1] = events[k]
      BY <1>1, <3>1, <3>2
    <3> QED BY <2>1, <3>1, <3>2, <3>3
  <2> QED BY <1>2, <2>3, <2>4, <2>5
<1>4. ASSUME NEW c, Told(c), c # events[1].chat
      PROVE  Told(c)'
  <2>1. PICK k \in DOMAIN events : events[k].chat = c /\ ~events[k].old
    BY <1>4 DEF Told
  <2>2. k # 1
    BY <1>4, <2>1
  <2> QED BY <1>1, <2>1, <2>2 DEF Told
<1>5. ASSUME ~events[1].old, ~Tells(events[1]), NEW c, c = events[1].chat
      PROVE  Told(c)'
  <2>1. PICK k \in DOMAIN events : k > 1 /\ events[k].chat = events[1].chat /\ ~events[k].old
    BY <1>1, <1>5 DEF WordsSound
  <2>2. k - 1 \in DOMAIN events' /\ events'[k - 1] = events[k]
    BY <1>1, <2>1
  <2> QED BY <1>5, <2>1, <2>2 DEF Told
<1>6. ASSUME \A i \in DOMAIN events' : ~events'[i].old, ~events[1].old, NEW i \in DOMAIN events
      PROVE  ~events[i].old
  BY <1>1, <1>6
<1> QED BY <1>3, <1>4, <1>5, <1>6

LEMMA MissStep ==
  ASSUME ListInv, MissEvent
  PROVE  ListInv'
<1>1. /\ ListTypes /\ AgentSound /\ CallsSound /\ WordsSound
  BY DEF ListInv
<1>2. /\ UNCHANGED <<table, older, me, chats, activeChatId, activeTab, chatCursor, reqs>>
      /\ outdated' = TRUE /\ events # <<>> /\ events' = Tail(events)
  BY DEF MissEvent, bounds, page
<1>3. Tail(events) \in Seq(Word)
  BY <1>1, <1>2, HeadIs
<1>4. ListTypes'
  BY <1>1, <1>2, <1>3 DEF ListTypes
<1>5. AgentSound'
  BY <1>1, <1>2 DEF AgentSound, Leads, Mine
<1>6. CallsSound'
  <2>1. \A j \in DOMAIN reqs' : \E q : q = reqs'[j] /\ In(q, reqs)
    BY <1>2 DEF In
  <2>2. UNCHANGED <<table, me>>
    BY <1>2
  <2>3. \A j \in DOMAIN reqs' : \E q : q = reqs'[j] /\ (In(q, reqs) \/ Fresh(q) \/ Belated(q))
    BY <2>1
  <2> QED BY <1>1, <2>2, <2>3, CallsKept
<1>7. WordsSound'
  BY <1>1, <1>2, TailTells
<1>8. ListSound' /\ MoreSound'
  BY <1>2, Lost
<1> QED BY <1>4, <1>5, <1>6, <1>7, <1>8 DEF ListInv

(* An event that is heard: if it is the last word on its chat, the list    *)
(* has the chat right after it; the other chats stay as they were.         *)
MadeRight(list, c) ==
  /\ \A d \in Chats : d # c => (d \in DOMAIN list <=> d \in DOMAIN chats)
                              /\ (d \in DOMAIN list => list[d] = chats[d])
  /\ Tells(events[1]) =>
       /\ c \in DOMAIN list => list[c] = table[c] /\ Shown(c, activeTab)
       /\ Shown(c, activeTab) => c \in DOMAIN list

LEMMA HeardStep ==
  ASSUME ListInv, events # <<>>, events' = Tail(events), outdated' = (outdated \/ events[1].old),
         NEW list \in Shelves, NEW act \in Chats \cup {NoChat}, NEW tab \in Tabs, NEW busy,
         Shows(list, act, tab, <<>>, reqs, chatCursor, busy),
         UNCHANGED <<table, older, me>>, ~Leads => tab = "OPEN" /\ Mine(list), NEW c, c = events[1].chat, MadeRight(list, c)
  PROVE  ListInv'
<1>1. /\ ListTypes /\ AgentSound /\ CallsSound /\ WordsSound /\ ListSound /\ MoreSound
  BY DEF ListInv
<1>2. reqs \in Seq(Calls) /\ chatCursor \in SUBSET Chats /\ <<>> \in Seq(Calls) /\ outdated \in BOOLEAN
  BY <1>1 DEF ListTypes
<1>3. /\ chats' = list /\ chatCursor' \in SUBSET Chats
      /\ activeChatId' \in Chats \cup {NoChat} /\ activeTab' \in Tabs /\ (~Leads => activeTab' = "OPEN")
      /\ reqs' \in Seq(Calls)
      /\ \A j \in DOMAIN reqs' : In(reqs'[j], reqs) \/ In(reqs'[j], <<>>)
                                   \/ reqs'[j] = Load(activeTab', activeChatId')
      /\ \A x : In(x, reqs) \/ In(x, <<>>) => In(x, reqs')
      /\ \/ activeTab' = activeTab /\ chatCursor' = chatCursor
         \/ In(Load(activeTab', activeChatId'), reqs')
  BY <1>1, <1>2, ShowsDoes
<1>4. Fresh(Load(activeTab', activeChatId')) /\ Load(activeTab', activeChatId').kind = "list"
  BY <1>3, LoadFresh
<1>5. \A j \in DOMAIN reqs' : \E q : q = reqs'[j] /\ (In(q, reqs) \/ (Fresh(q) /\ q.kind = "list"))
  <2> TAKE j \in DOMAIN reqs'
  <2>1. ~In(reqs'[j], <<>>)
    BY DEF In
  <2> QED BY <1>3, <1>4, <2>1
<1>6. /\ Tail(events) \in Seq(Word) /\ events[1] \in Word
  BY <1>1, HeadIs
<1>7. ListTypes'
  <2>1. outdated' \in BOOLEAN
    BY <1>2, <1>6 DEF Word
  <2> QED BY <1>1, <1>3, <1>6, <2>1 DEF ListTypes
<1>8. AgentSound'
  BY <1>3 DEF AgentSound, Leads, Mine
<1>9. CallsSound'
  <2>1. UNCHANGED <<table, me>>
    OBVIOUS
  <2>2. \A j \in DOMAIN reqs' : \E q : q = reqs'[j] /\ (In(q, reqs) \/ Fresh(q) \/ Belated(q))
    BY <1>5
  <2> QED BY <1>1, <2>1, <2>2, CallsKept
<1>10. /\ WordsSound'
       /\ \A d : Told(d) => d = c \/ Told(d)'
       /\ events[1].old \/ Tells(events[1]) \/ Told(c)'
       /\ (\A i \in DOMAIN events' : ~events'[i].old) /\ ~events[1].old => \A i \in DOMAIN events : ~events[i].old
  BY <1>1, TailTells
<1>11. ASSUME activeTab' = activeTab, chatCursor' = chatCursor
       PROVE  ListSound' /\ MoreSound'
  <2>1. Steady' => Steady /\ ~events[1].old
    <3> SUFFICES ASSUME Steady'
                 PROVE  Steady /\ ~events[1].old
      OBVIOUS
    <3>1. ~outdated /\ ~events[1].old /\ \A i \in DOMAIN events : ~events[i].old
      BY <1>10 DEF Steady
    <3>2. \A j \in DOMAIN reqs' : reqs'[j].kind # "list"
      BY DEF Steady, Loading
    <3>3. ASSUME NEW j \in DOMAIN reqs
          PROVE  reqs[j].kind # "list"
      <4>1. In(reqs[j], reqs')
        BY <1>3 DEF In
      <4> QED BY <3>2, <4>1 DEF In
    <3> QED BY <3>1, <3>3 DEF Steady, Loading
  <2>2. \A d : Answered(d) => Answered(d)'
    <3> TAKE d
    <3> HAVE Answered(d)
    <3>1. PICK j \in DOMAIN reqs : Answers(reqs[j], d)
      BY DEF Answered, Answers
    <3>2. In(reqs[j], reqs')
      BY <1>3 DEF In
    <3> QED BY <3>1, <3>2 DEF In, Answered, Answers
  <2>3. \A d : HasIt(d)' <=> (d \in DOMAIN list => list[d] = table[d] /\ Shown(d, activeTab))
    BY <1>3, <1>11 DEF HasIt, Shown, InTab, Listed, Leads
  <2>4. \A d, k : Holds(d, k)' <=> (Shown(d, activeTab) /\ d \notin k => d \in DOMAIN list)
    BY <1>3, <1>11 DEF Holds, Shown, InTab, Listed, Leads
  <2>5. ASSUME Steady', NEW d \in Chats, ~(Told(d)' \/ Answered(d)')
        PROVE  /\ d = c => HasIt(d)' /\ (Shown(d, activeTab) => d \in DOMAIN list)
               /\ d # c => ~(Told(d) \/ Answered(d))
    BY <1>10, <2>1, <2>2, <2>3, <2>5 DEF MadeRight
  <2>6. ListSound'
    <3> SUFFICES ASSUME Steady', NEW d \in Chats, ~(Told(d)' \/ Answered(d)')
                 PROVE  HasIt(d)' /\ Holds(d, Ahead(chatCursor))'
      BY DEF ListSound
    <3>1. Holds(d, Ahead(chatCursor))' <=> (Shown(d, activeTab) /\ d \notin Ahead(chatCursor) => d \in DOMAIN list)
      BY <1>3, <1>11 DEF Holds, Shown, InTab, Listed, Leads, Ahead
    <3>2. CASE d = c
      BY <2>5, <3>1, <3>2
    <3>3. CASE d # c
      <4>1. HasIt(d) /\ Holds(d, Ahead(chatCursor))
        BY <1>1, <2>1, <2>5, <3>3 DEF ListSound
      <4> QED BY <2>3, <3>1, <3>3, <4>1 DEF HasIt, Holds, MadeRight
    <3> QED BY <3>2, <3>3
  <2>7. MoreSound'
    <3> SUFFICES ASSUME Steady', NEW j \in DOMAIN reqs',
                        reqs'[j].kind = "more" /\ ~reqs'[j].late /\ reqs'[j].tab = activeTab',
                        NEW d \in Chats, ~(Told(d)' \/ Answered(d)')
                 PROVE  Holds(d, reqs[j].cursor)'
      BY DEF MoreSound
    <3>1. PICK q : q = reqs'[j] /\ (In(q, reqs) \/ (Fresh(q) /\ q.kind = "list"))
      BY <1>5
    <3>2. In(q, reqs)
      BY <3>1
    <3>3. Holds(d, reqs[j].cursor)' <=> (Shown(d, activeTab) /\ d \notin q.cursor => d \in DOMAIN list)
      BY <1>3, <1>11, <3>1 DEF Holds, Shown, InTab, Listed, Leads
    <3>4. CASE d = c
      BY <2>5, <3>3, <3>4
    <3>5. CASE d # c
      <4>1. Holds(d, q.cursor)
        BY <1>1, <1>11, <2>1, <2>5, <3>1, <3>2, <3>5 DEF MoreSound, In
      <4> QED BY <3>3, <3>5, <4>1 DEF Holds, MadeRight
    <3> QED BY <3>4, <3>5
  <2> QED BY <2>6, <2>7
<1>12. ASSUME In(Load(activeTab', activeChatId'), reqs')
       PROVE  ListSound' /\ MoreSound'
  BY <1>4, <1>12, Pending
<1> QED BY <1>3, <1>7, <1>8, <1>9, <1>10, <1>11, <1>12 DEF ListInv

LEMMA PlacedIs ==
  ASSUME ListTypes, AgentSound, NEW c \in Chats, NEW r \in Rows
  PROVE  /\ Placed(c, r) \in Shelves /\ (~Leads => Mine(Placed(c, r)))
         /\ \A d \in Chats : d # c => (d \in DOMAIN Placed(c, r) <=> d \in DOMAIN chats)
                                   /\ (d \in DOMAIN Placed(c, r) => Placed(c, r)[d] = chats[d])
         /\ c \in DOMAIN Placed(c, r) <=> (r.status = activeTab /\ (Leads \/ r = assignChatDb(me)))
         /\ c \in DOMAIN Placed(c, r) => Placed(c, r)[c] = r
<1>1. PICK list : list = Placed(c, r)
  OBVIOUS
<1>2. chats \in Shelves /\ me \in Users /\ r \in Card
  BY RowsAre DEF ListTypes
<1>3. isChatVisible(r) /\ matchesTab(r, activeTab) <=> r.status = activeTab /\ (Leads \/ r = assignChatDb(me))
  <2>1. /\ r.status = "OPEN" <=> r.agent # NoAgent
        /\ r.status = "OPEN" => r = assignChatDb(r.agent)
    BY RowsAre
  <2>2. assignChatDb(me).agent = me
    BY <1>2, RowsAre
  <2> QED BY <2>1, <2>2 DEF isChatVisible, matchesTab, AgentSound
<1>4. CASE isChatVisible(r) /\ matchesTab(r, activeTab)
  <2>1. PICK one : one = [d \in {c} |-> r]
    OBVIOUS
  <2>2. one \in Shelves /\ DOMAIN one = {c} /\ one[c] = r
    BY <1>2, <2>1, OneIs
  <2>3. list = Over(one, chats)
    BY <1>1, <1>4, <2>1 DEF Placed
  <2>4. /\ Over(one, chats) \in Shelves /\ DOMAIN Over(one, chats) = DOMAIN one \cup DOMAIN chats
        /\ \A d \in DOMAIN one : Over(one, chats)[d] = one[d]
        /\ \A d \in DOMAIN chats \ DOMAIN one : Over(one, chats)[d] = chats[d]
    BY <1>2, <2>2, OverIs
  <2>5. ~Leads => Mine(list)
    BY <1>3, <1>4, <2>2, <2>3, <2>4 DEF Mine, AgentSound
  <2> QED BY <1>1, <1>3, <1>4, <2>2, <2>3, <2>4, <2>5
<1>5. CASE ~(isChatVisible(r) /\ matchesTab(r, activeTab))
  <2>1. list = WithoutChat(c)
    BY <1>1, <1>5 DEF Placed
  <2>2. list \in Shelves /\ DOMAIN list = DOMAIN chats \ {c} /\ \A d \in DOMAIN list : list[d] = chats[d]
    BY <1>2, <2>1, OnlyIs DEF WithoutChat
  <2>3. ~Leads => Mine(list)
    BY <2>2 DEF Mine, AgentSound
  <2> QED BY <1>1, <1>3, <1>5, <2>2, <2>3
<1> QED BY <1>4, <1>5

LEMMA PlacedRight ==
  ASSUME ListTypes, AgentSound, NEW c \in Chats, NEW r \in Rows, events[1].chat = c, events[1].row = r,
         events[1].name # "chat:auto-closed", ~(events[1].name = "chat:update" /\ events[1].hidden)
  PROVE  MadeRight(Placed(c, r), c)
<1>1. PICK list : list = Placed(c, r)
  OBVIOUS
<1>2. /\ \A d \in Chats : d # c => (d \in DOMAIN list <=> d \in DOMAIN chats)
                                /\ (d \in DOMAIN list => list[d] = chats[d])
      /\ c \in DOMAIN list <=> (r.status = activeTab /\ (Leads \/ r = assignChatDb(me)))
      /\ c \in DOMAIN list => list[c] = r
  BY <1>1, PlacedIs
<1>3. /\ Leads => (Shown(c, activeTab) <=> table[c].status = activeTab)
      /\ ~Leads => (Shown(c, activeTab) <=> activeTab = "OPEN" /\ table[c] = assignChatDb(me))
  BY ShownIs
<1>4. assignChatDb(me).status = "OPEN"
  BY RowsAre DEF ListTypes
<1>5. ASSUME Tells(events[1])
      PROVE  /\ c \in DOMAIN list => list[c] = table[c] /\ Shown(c, activeTab)
             /\ Shown(c, activeTab) => c \in DOMAIN list
  <2>1. CASE Leads
    BY <1>2, <1>3, <1>5, <2>1 DEF Tells
  <2>2. CASE ~Leads /\ table[c] = assignChatDb(me)
    BY <1>2, <1>3, <1>4, <1>5, <2>2 DEF Tells, AgentSound
  <2>3. CASE ~Leads /\ table[c] # assignChatDb(me)
    BY <1>2, <1>3, <1>5, <2>3 DEF Tells
  <2> QED BY <2>1, <2>2, <2>3
<1> QED BY <1>1, <1>2, <1>5 DEF MadeRight

LEMMA WithoutIs ==
  ASSUME ListTypes, AgentSound, NEW c \in Chats
  PROVE  /\ WithoutChat(c) \in Shelves /\ (~Leads => Mine(WithoutChat(c)))
         /\ ~Shown(c, activeTab) \/ ~Tells(events[1]) => MadeRight(WithoutChat(c), c)
<1>1. PICK list : list = WithoutChat(c)
  OBVIOUS
<1>2. chats \in Shelves
  BY DEF ListTypes
<1>3. list \in Shelves /\ DOMAIN list = DOMAIN chats \ {c} /\ \A d \in DOMAIN list : list[d] = chats[d]
  BY <1>1, <1>2, OnlyIs DEF WithoutChat
<1>4. ~Leads => Mine(list)
  BY <1>3 DEF Mine, AgentSound
<1>5. ~Shown(c, activeTab) \/ ~Tells(events[1]) => MadeRight(list, c)
  BY <1>3 DEF MadeRight
<1> QED BY <1>1, <1>3, <1>4, <1>5

LEMMA EventSteps ==
  ASSUME ListInv, messageNew \/ chatAutoClosed \/ chatUpdate
  PROVE  ListInv'
<1>1. ListTypes /\ AgentSound
  BY DEF ListInv
<1>2. /\ activeChatId \in Chats \cup {NoChat} /\ activeTab \in Tabs /\ "OPEN" \in Tabs /\ chats \in Shelves
      /\ NoChat \in Chats \cup {NoChat} /\ (~Leads => activeTab = "OPEN" /\ Mine(chats))
  BY <1>1 DEF ListTypes, AgentSound, Tabs, Status
<1>3. events # <<>> /\ events' = Tail(events) /\ UNCHANGED <<table, older, me>>
  BY DEF messageNew, chatAutoClosed, chatUpdate, Hear, bounds
<1>4. Head(events) = events[1] /\ events[1] \in Word
  BY <1>1, <1>3, HeadIs
<1>5. outdated' = (outdated \/ events[1].old)
  BY <1>4 DEF messageNew, chatAutoClosed, chatUpdate, Hear
<1>6. PICK c \in Chats : c = events[1].chat
  BY <1>4 DEF Word
<1>7. PICK r \in Rows : r = events[1].row
  BY <1>4 DEF Word
<1>8. Placed(c, r) \in Shelves /\ (~Leads => Mine(Placed(c, r)))
  BY <1>1, PlacedIs
<1>9. /\ WithoutChat(c) \in Shelves /\ (~Leads => Mine(WithoutChat(c)))
      /\ ~Shown(c, activeTab) \/ ~Tells(events[1]) => MadeRight(WithoutChat(c), c)
  BY <1>1, WithoutIs
<1>10. Deselected(c) \in Chats \cup {NoChat}
  BY <1>2 DEF Deselected
<1>11. CASE messageNew
  <2>1. Shows(Placed(c, r), activeChatId, activeTab, <<>>, reqs, chatCursor, loading)
    BY <1>4, <1>6, <1>7, <1>11 DEF messageNew
  <2>2. MadeRight(Placed(c, r), c)
    <3>1. events[1].name = "message:new"
      BY <1>4, <1>11 DEF messageNew, Hear
    <3> QED BY <1>1, <1>6, <1>7, <3>1, PlacedRight
  <2> QED BY <1>2, <1>3, <1>5, <1>6, <1>8, <2>1, <2>2, HeardStep
<1>12. CASE chatAutoClosed
  <2>1. events[1].name = "chat:auto-closed"
    BY <1>4, <1>12 DEF chatAutoClosed, Hear
  <2>2. CASE Leads
    <3>1. Shows(chats, activeChatId, activeTab, <<>>, reqs, chatCursor, loading)
      BY <1>12, <2>2 DEF chatAutoClosed
    <3>2. MadeRight(chats, c)
      BY <2>1, <2>2 DEF MadeRight, Tells
    <3> QED BY <1>2, <1>3, <1>5, <1>6, <2>2, <3>1, <3>2, HeardStep
  <2>3. CASE ~Leads
    <3>1. PICK tab : tab = IF activeChatId = c THEN "OPEN" ELSE activeTab
      OBVIOUS
    <3>2. Shows(WithoutChat(c), Deselected(c), tab, <<>>, reqs, chatCursor, loading)
      BY <1>4, <1>6, <1>12, <2>3, <3>1 DEF chatAutoClosed
    <3>3. tab \in Tabs /\ tab = "OPEN"
      BY <1>2, <2>3, <3>1
    <3>4. MadeRight(WithoutChat(c), c)
      <4>1. Tells(events[1]) => ~Shown(c, activeTab)
        BY <1>1, <1>6, <2>1, <2>3, ShownIs DEF Tells
      <4> QED BY <1>9, <4>1
    <3> QED BY <1>3, <1>5, <1>6, <1>9, <1>10, <3>2, <3>3, <3>4, HeardStep
  <2> QED BY <2>2, <2>3
<1>13. CASE chatUpdate
  <2>1. events[1].name = "chat:update"
    BY <1>4, <1>13 DEF chatUpdate, Hear
  <2>2. CASE events[1].hidden
    <3>1. Shows(WithoutChat(c), Deselected(c), activeTab, <<>>, reqs, chatCursor, loading)
      BY <1>4, <1>6, <1>13, <2>2 DEF chatUpdate
    <3>2. MadeRight(WithoutChat(c), c)
      <4>1. Tells(events[1]) => ~Shown(c, activeTab)
        BY <1>1, <1>6, <2>1, <2>2, ShownIs DEF Tells
      <4> QED BY <1>9, <4>1
    <3> QED BY <1>2, <1>3, <1>5, <1>6, <1>9, <1>10, <3>1, <3>2, HeardStep
  <2>3. CASE ~events[1].hidden
    <3>1. PICK tab : tab = IF activeChatId = c THEN (IF Leads THEN r.status ELSE "OPEN") ELSE activeTab
      OBVIOUS
    <3>2. Shows(Placed(c, r), activeChatId, tab, <<>>, reqs, chatCursor, loading)
      BY <1>4, <1>6, <1>7, <1>13, <2>3, <3>1 DEF chatUpdate
    <3>3. tab \in Tabs /\ (~Leads => tab = "OPEN")
      <4>1. r.status \in Tabs
        BY RowsAre DEF Tabs
      <4> QED BY <1>2, <3>1, <4>1
    <3>4. MadeRight(Placed(c, r), c)
      BY <1>1, <1>6, <1>7, <2>1, <2>3, PlacedRight
    <3> QED BY <1>2, <1>3, <1>5, <1>6, <1>8, <3>2, <3>3, <3>4, HeardStep
  <2> QED BY <2>2, <2>3
<1> QED BY <1>11, <1>12, <1>13

-----------------------------------------------------------------------------
(* The server reads a page.                                                *)
LEMMA PageRead ==
  ASSUME ListTypes, NEW tab, NEW cursor \in SUBSET Chats, NEW found, NEW some \in SUBSET found, FirstPage(some, found),
         found = listChatsByVisibilityCursor(tab, cursor), NEW next,
         next = IF Cardinality(some) = PageSize THEN After(some) ELSE NoCursor,
         NEW got, got = [c \in some |-> table[c]]
  PROVE  /\ got \in Shelves /\ next \in SUBSET Chats
         /\ \A c \in some : Shown(c, tab)
         /\ \A c \in cursor : Shown(c, tab) /\ c \notin Ahead(next) => c \in some
<1>1. found = {c \in cursor : Shown(c, tab)}
  BY DEF listChatsByVisibilityCursor, Shown
<1>2. some \in SUBSET Chats /\ \A c \in some : table[c] \in Card
  BY <1>1, RowsAre DEF ListTypes
<1>3. got \in [some -> Card]
  BY <1>2
<1>4. got \in Shelves
  BY <1>2, <1>3, IsShelf
<1>5. next \in SUBSET Chats
  BY DEF After, NoCursor
<1>6. ASSUME NEW c \in cursor, Shown(c, tab), c \notin Ahead(next), c \notin some
      PROVE  FALSE
  <2>1. c \in found \ some
    BY <1>1, <1>6
  <2>2. Cardinality(some) = PageSize /\ \A d \in some : c \in older[d]
    BY <2>1 DEF FirstPage
  <2>3. next = After(some) /\ c \in After(some)
    BY <1>6, <2>2 DEF After
  <2>4. some # {}
    <3>1. Cardinality({}) = 0
      BY FS_EmptySet
    <3> QED BY <2>2, <3>1, ListConstants
  <2>5. PICK d : d \in some
    BY <2>4
  <2>6. d \in Chats /\ d \notin older[d]
    BY <1>2, <2>5 DEF ListTypes
  <2>7. d \notin After(some)
    BY <2>5, <2>6 DEF After
  <2>8. Ahead(next) = After(some)
    BY <2>3, <2>6, <2>7 DEF Ahead, NoCursor
  <2> QED BY <1>6, <2>3, <2>8
<1> QED BY <1>1, <1>4, <1>5, <1>6

LEMMA ReadStep ==
  ASSUME ListInv, NEW i \in DOMAIN reqs, ServeList(i)
  PROVE  ListInv'
<1>1. /\ ListTypes /\ AgentSound /\ CallsSound /\ WordsSound /\ ListSound /\ MoreSound
  BY DEF ListInv
<1>2. PICK r : r = reqs[i]
  OBVIOUS
<1>3. reqs \in Seq(Calls) /\ r \in Calls
  BY <1>1, <1>2 DEF ListTypes
<1>4. PICK found : found = listChatsByVisibilityCursor(r.tab, r.cursor)
  OBVIOUS
<1>5. PICK some \in SUBSET found :
        /\ FirstPage(some, found)
        /\ reqs' = [reqs EXCEPT ![i].at = "read", ![i].got = [c \in some |-> table[c]],
                                ![i].next = IF Cardinality(some) = PageSize THEN After(some) ELSE NoCursor]
  BY <1>2, <1>4 DEF ServeList
<1>6. PICK next : next = IF Cardinality(some) = PageSize THEN After(some) ELSE NoCursor
  OBVIOUS
<1>7. PICK got : got = [c \in some |-> table[c]]
  OBVIOUS
<1>8. PICK p : p = [r EXCEPT !.at = "read", !.got = got, !.next = next]
  OBVIOUS
<1>9. reqs' = [reqs EXCEPT ![i] = p]
  BY <1>2, <1>5, <1>6, <1>7, <1>8
<1>10. /\ r.at = "asked" /\ r.kind \in Reading
       /\ UNCHANGED <<table, older, me, events, chats, activeChatId, activeTab, chatCursor, outdated>>
  BY <1>2 DEF ServeList, backend, page, bounds, Reading
<1>11. CallSound(r) /\ r.cursor \in SUBSET Chats
  BY <1>1, <1>2, <1>3 DEF CallsSound, Calls
<1>12. /\ got \in Shelves /\ next \in SUBSET Chats
       /\ \A c \in some : Shown(c, r.tab)
       /\ \A c \in r.cursor : Shown(c, r.tab) /\ c \notin Ahead(next) => c \in some
  <2>1. PICK tab : tab = r.tab
    OBVIOUS
  <2>2. PICK cursor \in SUBSET Chats : cursor = r.cursor
    BY <1>11
  <2>3. found = listChatsByVisibilityCursor(tab, cursor)
    BY <1>4, <2>1, <2>2
  <2>4. FirstPage(some, found)
    BY <1>5
  <2>5. /\ got \in Shelves /\ next \in SUBSET Chats
        /\ \A c \in some : Shown(c, tab)
        /\ \A c \in cursor : Shown(c, tab) /\ c \notin Ahead(next) => c \in some
    BY <1>1, <1>6, <1>7, <2>3, <2>4, PageRead
  <2> QED BY <2>1, <2>2, <2>5
<1>13. /\ p \in Calls /\ p.kind = r.kind /\ p.at = "read" /\ p.tab = r.tab /\ p.sel = r.sel /\ p.cursor = r.cursor
       /\ p.got = got /\ p.next = next /\ p.missed = r.missed /\ p.late = r.late
  BY <1>3, <1>8, <1>12 DEF Calls
<1>14. DOMAIN got = some /\ \A c \in some : got[c] = table[c]
  BY <1>7
<1>15. CallSound(p)
  <2>1. r.missed = {}
    BY <1>10, <1>11 DEF CallSound
  <2>2. PageSound(p)
    BY <1>12, <1>13, <1>14, <2>1 DEF PageSound
  <2>3. ~Leads => p.tab = "OPEN" /\ Mine(p.got)
    <3>1. ~Leads => p.tab = "OPEN"
      BY <1>11, <1>13 DEF CallSound
    <3>2. ASSUME ~Leads, NEW c \in some
          PROVE  got[c] = assignChatDb(me)
      <4>1. c \in Chats
        BY <1>4, <1>11 DEF listChatsByVisibilityCursor
      <4> QED BY <1>1, <1>12, <1>14, <3>2, <4>1, ShownIs
    <3> QED BY <1>13, <1>14, <3>1, <3>2 DEF Mine
  <2>4. p.kind = "list" => p.cursor = NoCursor
    BY <1>11, <1>13 DEF CallSound
  <2>5. p.kind \notin Writing
    BY <1>10, <1>13 DEF Reading, Writing
  <2>6. p.kind # "transfer"
    BY <1>10, <1>13 DEF Reading
  <2> QED BY <1>13, <2>2, <2>3, <2>4, <2>5, <2>6 DEF CallSound
<1>16. reqs' \in Seq(Calls) /\ DOMAIN reqs' = DOMAIN reqs
  BY <1>3, <1>9, <1>13
<1>17. \A j \in DOMAIN reqs : reqs'[j] = IF j = i THEN p ELSE reqs[j]
  BY <1>3, <1>9
<1>18. ListTypes'
  BY <1>1, <1>10, <1>16 DEF ListTypes
<1>19. AgentSound'
  BY <1>1, <1>10 DEF AgentSound, Leads, Mine
<1>20. CallsSound'
  <2> SUFFICES ASSUME NEW j \in DOMAIN reqs'
               PROVE  CallSound(reqs[j])'
    BY DEF CallsSound
  <2>1. PICK q : q = reqs'[j]
    OBVIOUS
  <2>2. CallSound(q)
    BY <1>1, <1>15, <1>16, <1>17, <2>1 DEF CallsSound
  <2>3. UNCHANGED <<table, me>>
    BY <1>10
  <2>4. CallSound(q)'
    BY <2>2, <2>3, SameCall
  <2>5. CallSound(q)' <=> CallSound(reqs[j])'
    BY <2>1 DEF CallSound, PageSound, Shown, InTab, Listed, Leads, Mine, RowMade
  <2> QED BY <2>4, <2>5
<1>21. WordsSound'
  BY <1>1, <1>10, WordsKept
<1>22. \A j \in DOMAIN reqs : /\ reqs'[j].kind = reqs[j].kind /\ reqs'[j].late = reqs[j].late
                              /\ reqs'[j].tab = reqs[j].tab /\ reqs'[j].cursor = reqs[j].cursor
  BY <1>2, <1>13, <1>17
<1>23. Steady' => Steady
  BY <1>10, <1>16, <1>22 DEF Steady, Loading
<1>24. ASSUME NEW c, Told(c) \/ Answered(c)
       PROVE  Told(c)' \/ Answered(c)'
  <2>1. Told(c) => Told(c)'
    BY <1>10 DEF Told
  <2>2. ASSUME Answered(c)
        PROVE  Answered(c)'
    <3>1. PICK j \in DOMAIN reqs : Answers(reqs[j], c)
      BY <2>2 DEF Answered, Answers
    <3>2. j # i
      BY <1>2, <1>10, <3>1 DEF Answers
    <3> QED BY <1>16, <1>17, <3>1, <3>2 DEF Answered, Answers
  <2> QED BY <1>24, <2>1, <2>2
<1>25. \A c, k : (HasIt(c)' <=> HasIt(c)) /\ (Holds(c, k)' <=> Holds(c, k))
  BY <1>10 DEF HasIt, Holds, Shown, InTab, Listed, Leads
<1>26. ListSound'
  <2> SUFFICES ASSUME Steady', NEW c \in Chats
               PROVE  Told(c)' \/ Answered(c)' \/ (HasIt(c)' /\ Holds(c, Ahead(chatCursor))')
    BY DEF ListSound
  <2>1. Told(c) \/ Answered(c) \/ (HasIt(c) /\ Holds(c, Ahead(chatCursor)))
    BY <1>1, <1>23 DEF ListSound
  <2>2. Holds(c, Ahead(chatCursor))' <=> Holds(c, Ahead(chatCursor))
    BY <1>10 DEF Holds, Shown, InTab, Listed, Leads, Ahead
  <2> QED BY <1>24, <1>25, <2>1, <2>2
<1>27. MoreSound'
  <2> SUFFICES ASSUME Steady', NEW j \in DOMAIN reqs',
                      reqs'[j].kind = "more" /\ ~reqs'[j].late /\ reqs'[j].tab = activeTab', NEW c \in Chats
               PROVE  Told(c)' \/ Answered(c)' \/ Holds(c, reqs[j].cursor)'
    BY DEF MoreSound
  <2>1. PICK k : k = reqs'[j].cursor
    OBVIOUS
  <2>2. Told(c) \/ Answered(c) \/ Holds(c, k)
    BY <1>1, <1>10, <1>16, <1>22, <1>23, <2>1 DEF MoreSound
  <2>3. Holds(c, reqs[j].cursor)' <=> Holds(c, k)'
    BY <2>1 DEF Holds, Shown, InTab, Listed, Leads
  <2> QED BY <1>24, <1>25, <2>2, <2>3
<1> QED BY <1>18, <1>19, <1>20, <1>21, <1>26, <1>27 DEF ListInv

-----------------------------------------------------------------------------
(* The server writes a chat: what that does to requests and events.        *)
Ages(q, p, c) ==
  /\ p \in Calls /\ p.kind = q.kind /\ p.at = q.at /\ p.tab = q.tab /\ p.sel = q.sel /\ p.to = q.to
  /\ p.got = q.got /\ p.late = q.late /\ p.cursor = Past(q.cursor, c) /\ p.next = Past(q.next, c)
  /\ p.missed = IF q.at = "read" THEN q.missed \cup {c} ELSE q.missed

LEMMA PastIs ==
  ASSUME NEW cursor \in SUBSET Chats, NEW c \in Chats
  PROVE  /\ Past(cursor, c) \in SUBSET Chats /\ Past(NoCursor, c) = NoCursor
         /\ Past(cursor, c) \subseteq cursor /\ \A d \in cursor : d # c => d \in Past(cursor, c)
         /\ \A d : d # c => (d \in Ahead(Past(cursor, c)) <=> d \in Ahead(cursor))
BY DEF Past, Ahead, NoCursor

LEMMA AgedIs ==
  ASSUME NEW rs \in Seq(Calls), NEW c \in Chats
  PROVE  /\ Aged(rs, c) \in Seq(Calls) /\ DOMAIN Aged(rs, c) = DOMAIN rs
         /\ \A j \in DOMAIN rs : Ages(rs[j], Aged(rs, c)[j], c)
<1>1. ASSUME NEW j \in DOMAIN rs
      PROVE  Ages(rs[j], Aged(rs, c)[j], c)
  <2>1. PICK q : q = rs[j]
    OBVIOUS
  <2>2. q \in Calls
    BY <2>1
  <2>3. PICK cursor : cursor = Past(q.cursor, c)
    OBVIOUS
  <2>4. PICK next : next = Past(q.next, c)
    OBVIOUS
  <2>5. PICK missed : missed = IF q.at = "read" THEN q.missed \cup {c} ELSE q.missed
    OBVIOUS
  <2>6. PICK p : p = [q EXCEPT !.cursor = cursor, !.next = next, !.missed = missed]
    OBVIOUS
  <2>7. Aged(rs, c)[j] = p
    BY <2>1, <2>3, <2>4, <2>5, <2>6 DEF Aged
  <2>8. q.cursor \in SUBSET Chats /\ q.next \in SUBSET Chats /\ q.missed \in SUBSET Chats
    BY <2>2 DEF Calls
  <2>9. cursor \in SUBSET Chats /\ next \in SUBSET Chats /\ missed \in SUBSET Chats
    BY <2>3, <2>4, <2>5, <2>8, PastIs
  <2>10. /\ p \in Calls /\ p.kind = q.kind /\ p.at = q.at /\ p.tab = q.tab /\ p.sel = q.sel /\ p.to = q.to
         /\ p.got = q.got /\ p.late = q.late /\ p.cursor = cursor /\ p.next = next /\ p.missed = missed
    BY <2>2, <2>6, <2>9 DEF Calls
  <2> QED BY <2>1, <2>3, <2>4, <2>5, <2>7, <2>10 DEF Ages
<1>2. DOMAIN Aged(rs, c) = DOMAIN rs
  BY DEF Aged
<1>3. \A j \in DOMAIN rs : Aged(rs, c)[j] \in Calls
  BY <1>1 DEF Ages
<1>4. DOMAIN rs = 1..Len(rs) /\ Len(rs) \in Nat
  OBVIOUS
<1>5. Aged(rs, c) \in [1..Len(rs) -> Calls]
  <2>1. Aged(rs, c) = [j \in DOMAIN rs |-> Aged(rs, c)[j]]
    BY DEF Aged
  <2> QED BY <1>3, <1>4, <2>1
<1>6. Aged(rs, c) \in Seq(Calls)
  BY <1>4, <1>5
<1> QED BY <1>1, <1>2, <1>6

LEMMA AgedSound ==
  ASSUME ListTypes, NEW c \in Chats, NEW new, NEW q \in Calls, CallSound(q), NEW p, Ages(q, p, c),
         table' = [table EXCEPT ![c] = new], UNCHANGED me
  PROVE  CallSound(p)'
<1>1. \A d \in Chats : d # c => table'[d] = table[d]
  BY DEF ListTypes
<1>2. \A d, tab : d \in Chats /\ d # c => (Shown(d, tab)' <=> Shown(d, tab))
  BY <1>1 DEF Shown, InTab, Listed, Leads
<1>3. /\ p.kind = q.kind /\ p.at = q.at /\ p.tab = q.tab /\ p.sel = q.sel /\ p.to = q.to /\ p.got = q.got
      /\ p.cursor = Past(q.cursor, c) /\ p.next = Past(q.next, c)
      /\ p.missed = IF q.at = "read" THEN q.missed \cup {c} ELSE q.missed
  BY DEF Ages
<1>4. q.cursor \in SUBSET Chats /\ q.next \in SUBSET Chats /\ q.got \in Shelves
  BY DEF Calls
<1>5. p.kind = "list" => p.cursor = NoCursor
  BY <1>3, <1>4, PastIs DEF CallSound
<1>6. /\ p.at # "read" => p.missed = {}
      /\ p.kind \in Writing => p.sel \in Chats
      /\ p.kind = "transfer" => p.to \in Users
  BY <1>3 DEF CallSound
<1>7. RowMade(p)' = RowMade(q)
  BY <1>3 DEF RowMade
<1>8. p.kind \in Writing /\ p.at = "read" => p.got = [d \in {p.sel} |-> RowMade(q)]
  BY <1>3 DEF CallSound
<1>9. p.kind \in Writing /\ p.at = "read" /\ p.sel \notin p.missed => table'[p.sel] = RowMade(q)
  BY <1>1, <1>3, <1>6 DEF CallSound
<1>10. ~Leads => p.tab = "OPEN" /\ (p.kind \in Reading => Mine(p.got))
  BY <1>3 DEF CallSound
<1>11. Mine(p.got)' <=> Mine(p.got)
  BY DEF Mine
<1>12. Leads' <=> Leads
  BY DEF Leads
<1>13. ASSUME p.kind \in Reading, p.at = "read"
       PROVE  PageSound(p)'
  <2>1. PageSound(q)
    BY <1>3, <1>13 DEF CallSound
  <2>2. p.missed = q.missed \cup {c}
    BY <1>3, <1>13
  <2>3. \A d \in DOMAIN p.got \ p.missed : p.got[d] = table'[d] /\ Shown(d, p.tab)'
    <3> TAKE d \in DOMAIN p.got \ p.missed
    <3>1. d \in Chats /\ d # c /\ d \in DOMAIN q.got \ q.missed
      BY <1>3, <1>4, <2>2, ShelfIs
    <3> QED BY <1>1, <1>2, <1>3, <2>1, <3>1 DEF PageSound
  <2>4. \A d \in p.cursor \ p.missed : Shown(d, p.tab)' /\ d \notin Ahead(p.next) => d \in DOMAIN p.got
    <3> TAKE d \in p.cursor \ p.missed
    <3>1. d \in Chats /\ d # c /\ d \in q.cursor \ q.missed /\ (d \in Ahead(p.next) <=> d \in Ahead(q.next))
      <4>1. d \in Past(q.cursor, c) /\ d # c /\ d \notin q.missed
        BY <1>3, <2>2
      <4>2. d \in q.cursor
        BY <1>4, <4>1, PastIs
      <4>3. d \in Ahead(Past(q.next, c)) <=> d \in Ahead(q.next)
        BY <1>4, <4>1, PastIs
      <4>4. p.next = Past(q.next, c)
        BY <1>3
      <4> QED BY <1>4, <4>1, <4>2, <4>3, <4>4
    <3> QED BY <1>2, <1>3, <2>1, <3>1 DEF PageSound
  <2>5. Ahead(p.next)' = Ahead(p.next)
    BY DEF Ahead
  <2> QED BY <2>3, <2>4, <2>5 DEF PageSound
<1> QED BY <1>5, <1>6, <1>7, <1>8, <1>9, <1>10, <1>11, <1>12, <1>13 DEF CallSound

(* Events are added, or those about the chat get old.                      *)
LEMMA SupersededIs ==
  ASSUME ListTypes, NEW c
  PROVE  /\ Superseded(c) \in Seq(Word) /\ DOMAIN Superseded(c) = DOMAIN events
         /\ \A i \in DOMAIN events : LET w == Superseded(c)[i]
                                         e == events[i] IN
              w.name = e.name /\ w.chat = e.chat /\ w.row = e.row /\ w.hidden = e.hidden
              /\ w.old = (e.old \/ e.chat = c)
<1>1. events \in Seq(Word) /\ DOMAIN events = 1..Len(events) /\ Len(events) \in Nat
  BY DEF ListTypes
<1>2. DOMAIN Superseded(c) = DOMAIN events
  BY DEF Superseded
<1>3. ASSUME NEW i \in DOMAIN events
      PROVE  LET w == Superseded(c)[i]
                 e == events[i] IN
             w \in Word /\ w.name = e.name /\ w.chat = e.chat /\ w.row = e.row /\ w.hidden = e.hidden
             /\ w.old = (e.old \/ e.chat = c)
  <2>1. PICK e : e = events[i]
    OBVIOUS
  <2>2. e \in Word
    BY <1>1, <2>1
  <2>3. PICK yes : yes = (e.old \/ e.chat = c)
    OBVIOUS
  <2>4. e.old \in BOOLEAN
    BY <2>2 DEF Word
  <2>5. yes \in BOOLEAN
    BY <2>3, <2>4
  <2>6. PICK w : w = [e EXCEPT !.old = yes]
    OBVIOUS
  <2>7. w \in Word /\ w.name = e.name /\ w.chat = e.chat /\ w.row = e.row /\ w.hidden = e.hidden /\ w.old = yes
    BY <2>2, <2>5, <2>6 DEF Word
  <2>8. Superseded(c)[i] = w
    BY <2>1, <2>3, <2>6 DEF Superseded
  <2> QED BY <2>1, <2>3, <2>7, <2>8
<1>4. Superseded(c) \in [1..Len(events) -> Word]
  <2>1. Superseded(c) = [i \in DOMAIN events |-> Superseded(c)[i]]
    BY DEF Superseded
  <2>2. \A i \in DOMAIN events : Superseded(c)[i] \in Word
    BY <1>3
  <2> QED BY <1>1, <2>1, <2>2
<1>5. Superseded(c) \in Seq(Word)
  BY <1>1, <1>4
<1> QED BY <1>2, <1>3, <1>5

LEMMA TellsSame ==
  ASSUME ListTypes, NEW c \in Chats, NEW new, table' = [table EXCEPT ![c] = new], UNCHANGED me, NEW e \in Word,
         e.chat # c \/ (~Leads /\ table[c] # assignChatDb(me) /\ new # assignChatDb(me))
  PROVE  Tells(e)' <=> Tells(e)
<1>1. e.chat \in Chats
  BY DEF Word
<1>2. table'[e.chat] = IF e.chat = c THEN new ELSE table[e.chat]
  BY <1>1 DEF ListTypes
<1>3. Leads' <=> Leads
  BY DEF Leads
<1> QED BY <1>2, <1>3 DEF Tells

NoneOld(es) == \A i \in DOMAIN es : ~es[i].old

LEMMA WordsTold ==
  ASSUME ListTypes, WordsSound, NEW c \in Chats, NEW new, table' = [table EXCEPT ![c] = new], UNCHANGED me,
         NEW told \in Seq(Word), events' = events \o told,
         \A k \in DOMAIN told : told[k].chat = c /\ ~told[k].old,
         NEW word, told # <<>> => word = told[Len(told)] /\ Tells(word)',
         told = <<>> => ~Leads /\ table[c] # assignChatDb(me) /\ new # assignChatDb(me)
  PROVE  /\ WordsSound' /\ events' \in Seq(Word) /\ (NoneOld(events') => NoneOld(events))
         /\ \A d : Told(d) => Told(d)'
         /\ told # <<>> => Told(c)'
<1>1. events \in Seq(Word) /\ events' \in Seq(Word)
  BY DEF ListTypes
<1>2. /\ DOMAIN events = 1..Len(events) /\ DOMAIN told = 1..Len(told) /\ Len(events) \in Nat /\ Len(told) \in Nat
      /\ DOMAIN events' = 1..(Len(events) + Len(told))
      /\ \A i \in 1..Len(events) : events'[i] = events[i]
      /\ \A i \in 1..Len(told) : events'[Len(events) + i] = told[i]
  BY <1>1, ConcatProperties
<1>3. \A i \in DOMAIN events : i \in DOMAIN events' /\ events'[i] = events[i]
  BY <1>2
<1>4. ASSUME told # <<>>
      PROVE  LET n == Len(events) + Len(told) IN
             /\ n \in DOMAIN events' /\ events'[n] = word /\ word.chat = c /\ ~word.old
             /\ \A i \in DOMAIN events' : i = n \/ n > i
  <2>1. Len(told) \in 1..Len(told)
    BY <1>2, <1>4
  <2>2. PICK n : n = Len(events) + Len(told)
    OBVIOUS
  <2>3. events'[n] = told[Len(told)]
    BY <1>2, <2>1, <2>2
  <2>4. told[Len(told)].chat = c /\ ~told[Len(told)].old
    BY <1>2, <2>1
  <2>5. n \in DOMAIN events' /\ \A i \in DOMAIN events' : i = n \/ n > i
    BY <1>2, <2>1, <2>2
  <2>6. word = told[Len(told)]
    BY <1>4
  <2> QED BY <2>2, <2>3, <2>4, <2>5, <2>6
<1>5. WordsSound'
  <2> SUFFICES ASSUME NEW i \in DOMAIN events', ~events'[i].old
               PROVE  \/ Tells(events[i])'
                      \/ \E k \in DOMAIN events' : k > i /\ events'[k].chat = events'[i].chat /\ ~events'[k].old
    BY DEF WordsSound
  <2>1. PICK w \in Word : w = events'[i]
    BY <1>1
  <2>2. Tells(events[i])' <=> Tells(w)'
    BY <2>1 DEF Tells, Leads
  <2>3. CASE w.chat = c /\ told # <<>>
    <3>1. PICK n : n = Len(events) + Len(told)
      OBVIOUS
    <3>2. n \in DOMAIN events' /\ events'[n] = word /\ word.chat = c /\ ~word.old /\ (i = n \/ n > i)
      BY <1>4, <2>3, <3>1
    <3>3. i = n => Tells(w)'
      BY <2>1, <2>3, <3>2 DEF Tells, Leads
    <3> QED BY <2>1, <2>2, <2>3, <3>2, <3>3
  <2>4. CASE w.chat # c \/ told = <<>>
    <3>1. i \in DOMAIN events
      <4>1. CASE told = <<>>
        BY <1>2, <4>1
      <4>2. CASE w.chat # c
        <5>1. ~(\E k \in 1..Len(told) : i = Len(events) + k)
          BY <1>2, <2>1, <4>2
        <5>2. i > Len(events) => i - Len(events) \in 1..Len(told) /\ i = Len(events) + (i - Len(events))
          BY <1>2
        <5> QED BY <1>2, <5>1, <5>2
      <4> QED BY <2>4, <4>1, <4>2
    <3>2. w = events[i]
      BY <1>3, <2>1, <3>1
    <3>3. Tells(w)' <=> Tells(w)
      BY <2>4, TellsSame
    <3>4. Tells(w) \/ \E k \in DOMAIN events : k > i /\ events[k].chat = w.chat /\ ~events[k].old
      BY <2>1, <3>1, <3>2 DEF WordsSound
    <3>5. CASE \E k \in DOMAIN events : k > i /\ events[k].chat = w.chat /\ ~events[k].old
      BY <1>3, <2>1, <3>5
    <3> QED BY <2>2, <3>3, <3>4, <3>5
  <2> QED BY <2>3, <2>4
<1>6. NoneOld(events') => NoneOld(events)
  BY <1>3 DEF NoneOld
<1>7. \A d : Told(d) => Told(d)'
  BY <1>3 DEF Told
<1>8. told # <<>> => Told(c)'
  BY <1>4 DEF Told
<1> QED BY <1>1, <1>5, <1>6, <1>7, <1>8

LEMMA WordsSuperseded ==
  ASSUME ListTypes, WordsSound, NEW c \in Chats, NEW new, table' = [table EXCEPT ![c] = new], UNCHANGED me,
         events' = Superseded(c)
  PROVE  /\ WordsSound' /\ events' \in Seq(Word) /\ (NoneOld(events') => NoneOld(events))
         /\ \A d : d # c /\ Told(d) => Told(d)'
         /\ Told(c) => ~NoneOld(events')
<1>1. /\ events' \in Seq(Word) /\ DOMAIN events' = DOMAIN events
      /\ \A i \in DOMAIN events :
           /\ events'[i].name = events[i].name /\ events'[i].chat = events[i].chat /\ events'[i].row = events[i].row
           /\ events'[i].hidden = events[i].hidden /\ (events'[i].old = (events[i].old \/ events[i].chat = c))
  BY SupersededIs
<1>2. events \in Seq(Word)
  BY DEF ListTypes
<1>3. WordsSound'
  <2> SUFFICES ASSUME NEW i \in DOMAIN events', ~events'[i].old
               PROVE  \/ Tells(events[i])'
                      \/ \E k \in DOMAIN events' : k > i /\ events'[k].chat = events'[i].chat /\ ~events'[k].old
    BY DEF WordsSound
  <2>1. PICK w \in Word : w = events'[i]
    BY <1>1
  <2>2. PICK e \in Word : e = events[i]
    BY <1>1, <1>2
  <2>3. e.chat # c /\ ~e.old /\ e.chat = w.chat /\ e.name = w.name /\ e.row = w.row /\ e.hidden = w.hidden
    BY <1>1, <2>1, <2>2
  <2>4. Tells(events[i])' <=> Tells(w)'
    BY <2>1 DEF Tells, Leads
  <2>5. Tells(w)' <=> Tells(w)
    BY <2>3, TellsSame
  <2>6. Tells(w) <=> Tells(e)
    BY <2>3 DEF Tells
  <2>7. Tells(e) \/ \E k \in DOMAIN events : k > i /\ events[k].chat = e.chat /\ ~events[k].old
    BY <1>1, <2>2, <2>3 DEF WordsSound
  <2>8. CASE \E k \in DOMAIN events : k > i /\ events[k].chat = e.chat /\ ~events[k].old
    BY <1>1, <2>1, <2>2, <2>3, <2>8
  <2> QED BY <2>4, <2>5, <2>6, <2>7, <2>8
<1>4. NoneOld(events') => NoneOld(events)
  BY <1>1 DEF NoneOld
<1>5. \A d : d # c /\ Told(d) => Told(d)'
  BY <1>1 DEF Told
<1>6. Told(c) => ~NoneOld(events')
  BY <1>1 DEF Told, NoneOld
<1> QED BY <1>1, <1>3, <1>4, <1>5, <1>6

(* A write: of its chat the page is told or the answer is on its way, or   *)
(* the chat is none of the user's, before and after; the others stay.      *)
LEMMA WroteStep ==
  ASSUME ListInv, NEW c \in Chats, NEW new \in Rows, WrittenLast(c, new),
         UNCHANGED <<me, chats, activeChatId, activeTab>>,
         reqs' \in Seq(Calls), DOMAIN reqs' = DOMAIN reqs, CallsSound',
         \A j \in DOMAIN reqs :
           /\ reqs'[j].kind = reqs[j].kind /\ reqs'[j].late = reqs[j].late /\ reqs'[j].tab = reqs[j].tab
           /\ reqs'[j].sel = reqs[j].sel /\ reqs'[j].cursor = Past(reqs[j].cursor, c)
           /\ reqs[j].at = "read" => reqs'[j].at = "read",
         WordsSound', events' \in Seq(Word), NoneOld(events') => NoneOld(events),
         \A d : d # c /\ Told(d) => Told(d)',
         outdated' \in BOOLEAN, outdated => outdated',
         \/ outdated' \/ Told(c)' \/ Answered(c)'
         \/ /\ ~Leads /\ table[c] # assignChatDb(me) /\ new # assignChatDb(me)
            /\ Told(c) /\ NoneOld(events') => Told(c)'
  PROVE  ListInv'
<1>1. /\ ListTypes /\ AgentSound /\ CallsSound /\ WordsSound /\ ListSound /\ MoreSound
  BY DEF ListInv
<1>2. /\ table' = [table EXCEPT ![c] = new]
      /\ older' = [d \in Chats |-> IF d = c THEN Chats \ {c} ELSE older[d] \ {c}]
      /\ chatCursor' = Past(chatCursor, c)
  BY DEF WrittenLast
<1>3. /\ table \in [Chats -> Rows] /\ older \in [Chats -> SUBSET Chats] /\ (\A d \in Chats : d \notin older[d])
      /\ chatCursor \in SUBSET Chats /\ reqs \in Seq(Calls)
  BY <1>1 DEF ListTypes
<1>4. ListTypes'
  <2>1. table' \in [Chats -> Rows] /\ older' \in [Chats -> SUBSET Chats] /\ \A d \in Chats : d \notin older'[d]
    BY <1>2, <1>3
  <2>2. chatCursor' \in SUBSET Chats
    BY <1>2, <1>3, PastIs
  <2> QED BY <1>1, <2>1, <2>2 DEF ListTypes
<1>5. AgentSound'
  BY <1>1 DEF AgentSound, Leads, Mine
<1>6. \A d \in Chats : d # c => table'[d] = table[d]
  BY <1>2, <1>3
<1>7. Steady' => Steady
  BY DEF Steady, Loading, NoneOld
<1>8. ASSUME NEW d, Answered(d)
      PROVE  Answered(d)'
  <2>1. PICK j \in DOMAIN reqs : Answers(reqs[j], d)
    BY <1>8 DEF Answered, Answers
  <2>2. Answers(reqs'[j], d) /\ j \in DOMAIN reqs'
    BY <2>1 DEF Answers
  <2> QED BY <2>2 DEF Answered, Answers
<1>9. \A d, tab : d \in Chats /\ d # c => (Shown(d, tab)' <=> Shown(d, tab))
  BY <1>6 DEF Shown, InTab, Listed, Leads
<1>10. ASSUME Steady', ~(Told(c)' \/ Answered(c)')
       PROVE  HasIt(c)' /\ ~Shown(c, activeTab)'
  <2>1. /\ ~Leads /\ table[c] # assignChatDb(me) /\ new # assignChatDb(me) /\ ~Told(c)
    BY <1>10 DEF Steady, NoneOld
  <2>2. ~Shown(c, activeTab)
    BY <1>1, <2>1, ShownIs
  <2>3. HasIt(c)
    BY <1>1, <1>7, <1>8, <1>10, <2>1 DEF ListSound
  <2>4. c \notin DOMAIN chats
    BY <2>2, <2>3 DEF HasIt
  <2>5. ~Shown(c, activeTab)'
    <3>1. new.agent # me
      <4>1. /\ new.status = "OPEN" <=> new.agent # NoAgent
            /\ new.status = "OPEN" => new = assignChatDb(new.agent)
        BY RowsAre
      <4>2. me # NoAgent
        BY <1>1, ListConstants DEF ListTypes
      <4> QED BY <2>1, <4>1, <4>2
    <3>2. table'[c] = new
      BY <1>2, <1>3
    <3> QED BY <2>1, <3>1, <3>2 DEF Shown, InTab, Listed, Leads
  <2> QED BY <2>4, <2>5 DEF HasIt
<1>11. ListSound'
  <2> SUFFICES ASSUME Steady', NEW d \in Chats, ~(Told(d)' \/ Answered(d)')
               PROVE  HasIt(d)' /\ Holds(d, Ahead(chatCursor))'
    BY DEF ListSound
  <2>1. CASE d = c
    BY <1>10, <2>1 DEF Holds
  <2>2. CASE d # c
    <3>1. HasIt(d) /\ Holds(d, Ahead(chatCursor))
      BY <1>1, <1>7, <1>8, <2>2 DEF ListSound
    <3>2. HasIt(d)'
      BY <1>6, <1>9, <2>2, <3>1 DEF HasIt
    <3>3. Ahead(chatCursor)' = Ahead(Past(chatCursor, c))
      BY <1>2 DEF Ahead
    <3>4. d \in Ahead(Past(chatCursor, c)) <=> d \in Ahead(chatCursor)
      BY <1>3, <2>2, PastIs
    <3>5. Holds(d, Ahead(chatCursor))'
      BY <1>9, <2>2, <3>1, <3>3, <3>4 DEF Holds
    <3> QED BY <3>2, <3>5
  <2> QED BY <2>1, <2>2
<1>12. MoreSound'
  <2> SUFFICES ASSUME Steady', NEW j \in DOMAIN reqs',
                      reqs'[j].kind = "more" /\ ~reqs'[j].late /\ reqs'[j].tab = activeTab',
                      NEW d \in Chats, ~(Told(d)' \/ Answered(d)')
               PROVE  Holds(d, reqs[j].cursor)'
    BY DEF MoreSound
  <2>1. CASE d = c
    BY <1>10, <2>1 DEF Holds
  <2>2. CASE d # c
    <3>1. PICK k : k = reqs[j].cursor
      OBVIOUS
    <3>2. Holds(d, k)
      BY <1>1, <1>7, <1>8, <2>2, <3>1 DEF MoreSound
    <3>3. k \in SUBSET Chats
      <4>1. reqs[j] \in Calls
        BY <1>3
      <4> QED BY <3>1, <4>1 DEF Calls
    <3>4. d \in Past(k, c) <=> d \in k
      BY <2>2, <3>3, PastIs
    <3>5. reqs'[j].cursor = Past(k, c)
      BY <3>1
    <3>6. Holds(d, reqs[j].cursor)' <=> (Shown(d, activeTab)' /\ d \notin Past(k, c) => d \in DOMAIN chats)
      BY <3>5 DEF Holds
    <3>7. Shown(d, activeTab)' <=> Shown(d, activeTab)
      BY <1>6, <2>2 DEF Shown, InTab, Listed, Leads
    <3> QED BY <3>2, <3>4, <3>6, <3>7 DEF Holds
  <2> QED BY <2>1, <2>2
<1> QED BY <1>4, <1>5, <1>11, <1>12 DEF ListInv

(* What others do.                                                         *)
LEMMA OthersStep ==
  ASSUME ListInv, NEW c \in Chats, NEW new \in Rows, NEW told, Others(c, new, told),
         WordsSound', events' \in Seq(Word), NoneOld(events') => NoneOld(events),
         \A d : d # c /\ Told(d) => Told(d)',
         outdated' \in BOOLEAN, outdated => outdated',
         \/ outdated' \/ Told(c)' \/ Answered(c)'
         \/ /\ ~Leads /\ table[c] # assignChatDb(me) /\ new # assignChatDb(me)
            /\ Told(c) /\ NoneOld(events') => Told(c)'
  PROVE  ListInv'
<1>1. ListTypes /\ CallsSound
  BY DEF ListInv
<1>2. /\ WrittenLast(c, new) /\ table' = [table EXCEPT ![c] = new] /\ reqs' = Aged(reqs, c)
      /\ UNCHANGED <<me, chats, activeChatId, activeTab>>
  BY DEF Others, WrittenLast
<1>3. reqs \in Seq(Calls)
  BY <1>1 DEF ListTypes
<1>4. /\ reqs' \in Seq(Calls) /\ DOMAIN reqs' = DOMAIN reqs
      /\ \A j \in DOMAIN reqs : Ages(reqs[j], reqs'[j], c)
  BY <1>2, <1>3, AgedIs
<1>5. CallsSound'
  <2> SUFFICES ASSUME NEW j \in DOMAIN reqs'
               PROVE  CallSound(reqs[j])'
    BY DEF CallsSound
  <2>1. PICK p : p = reqs'[j]
    OBVIOUS
  <2>2. PICK q : q = reqs[j]
    OBVIOUS
  <2>3. q \in Calls /\ CallSound(q) /\ Ages(q, p, c)
    BY <1>1, <1>3, <1>4, <2>1, <2>2 DEF CallsSound
  <2>4. CallSound(p)'
    BY <1>1, <1>2, <2>3, AgedSound
  <2>5. CallSound(p)' <=> CallSound(reqs[j])'
    BY <2>1 DEF CallSound, PageSound, Shown, InTab, Listed, Leads, Mine, RowMade
  <2> QED BY <2>4, <2>5
<1>6. \A j \in DOMAIN reqs :
        /\ reqs'[j].kind = reqs[j].kind /\ reqs'[j].late = reqs[j].late /\ reqs'[j].tab = reqs[j].tab
        /\ reqs'[j].sel = reqs[j].sel /\ reqs'[j].cursor = Past(reqs[j].cursor, c)
        /\ reqs[j].at = "read" => reqs'[j].at = "read"
  BY <1>4 DEF Ages
<1> QED BY <1>2, <1>4, <1>5, <1>6, WroteStep

LEMMA OthersTold ==
  ASSUME ListInv, NEW c \in Chats, NEW new \in Rows, NEW told \in Seq(Word), Others(c, new, told),
         events' = events \o told, UNCHANGED outdated,
         \A k \in DOMAIN told : told[k].chat = c /\ ~told[k].old,
         NEW word, told # <<>> => word = told[Len(told)] /\ Tells(word)',
         told = <<>> => ~Leads /\ table[c] # assignChatDb(me) /\ new # assignChatDb(me)
  PROVE  ListInv'
<1>1. ListTypes /\ WordsSound
  BY DEF ListInv
<1>2. table' = [table EXCEPT ![c] = new] /\ UNCHANGED me
  BY DEF Others, WrittenLast
<1>3. /\ WordsSound' /\ events' \in Seq(Word) /\ (NoneOld(events') => NoneOld(events))
      /\ \A d : Told(d) => Told(d)'
      /\ told # <<>> => Told(c)'
  BY <1>1, <1>2, WordsTold
<1>4. outdated' \in BOOLEAN /\ (outdated => outdated')
  BY <1>1 DEF ListTypes
<1>5. \/ outdated' \/ Told(c)' \/ Answered(c)'
      \/ /\ ~Leads /\ table[c] # assignChatDb(me) /\ new # assignChatDb(me)
         /\ Told(c) /\ NoneOld(events') => Told(c)'
  BY <1>3
<1> QED BY <1>3, <1>4, <1>5, OthersStep

LEMMA EventIs ==
  ASSUME NEW name \in {"message:new", "chat:auto-closed", "chat:update"}, NEW c \in Chats, NEW r \in Rows
  PROVE  LET e == EventOf(name, c, r) IN
         /\ e \in Word /\ e.name = name /\ e.chat = c /\ e.row = r /\ ~e.hidden /\ ~e.old
         /\ Hidden(e) \in Word /\ Hidden(e).name = name /\ Hidden(e).chat = c /\ Hidden(e).hidden /\ ~Hidden(e).old
BY DEF EventOf, Hidden, Word

(* Who has a row that was made for a user.                                 *)
LEMMA MineIs ==
  ASSUME ListTypes, NEW r \in Rows
  PROVE  r = assignChatDb(me) <=> r.agent = me
<1>1. me \in Users /\ me # NoAgent
  BY ListConstants DEF ListTypes
<1>2. /\ r.status = "OPEN" <=> r.agent # NoAgent
      /\ r.status = "OPEN" => r = assignChatDb(r.agent)
      /\ assignChatDb(me).agent = me
  BY <1>1, RowsAre
<1> QED BY <1>1, <1>2

LEMMA ClientStep ==
  ASSUME ListInv, NEW c \in Chats, ClientComes(c)
  PROVE  ListInv'
<1>1. ListTypes
  BY DEF ListInv
<1>2. PICK new : new = IF table[c].status = "CLOSED" THEN touchChatOnInbound(table[c], "UNASSIGNED") ELSE table[c]
  OBVIOUS
<1>3. table[c] \in Rows /\ table \in [Chats -> Rows]
  BY <1>1 DEF ListTypes
<1>4. new \in Rows
  <2>1. touchChatOnInbound(table[c], "UNASSIGNED") = unassignChatDb
    BY DEF touchChatOnInbound, unassignChatDb
  <2> QED BY <1>2, <1>3, <2>1, RowsAre
<1>5. PICK word : word = EventOf("message:new", c, new)
  OBVIOUS
<1>6. word \in Word /\ word.name = "message:new" /\ word.chat = c /\ word.row = new /\ ~word.hidden /\ ~word.old
  BY <1>4, <1>5, EventIs
<1>7. PICK told : told = IF Leads \/ new.agent = me THEN <<word>> ELSE <<>>
  OBVIOUS
<1>8. Others(c, new, told) /\ events' = events \o told /\ UNCHANGED outdated
  BY <1>2, <1>5, <1>7 DEF ClientComes, emitToUsers
<1>9. told \in Seq(Word) /\ \A k \in DOMAIN told : told[k].chat = c /\ ~told[k].old
  BY <1>6, <1>7
<1>10. table'[c] = new /\ UNCHANGED me
  BY <1>3, <1>8 DEF Others, WrittenLast
<1>11. told # <<>> => word = told[Len(told)] /\ Tells(word)'
  <2>1. told # <<>> => (Leads \/ new = assignChatDb(me)) /\ told = <<word>>
    BY <1>1, <1>4, <1>7, MineIs
  <2>2. Leads \/ new = assignChatDb(me) => Tells(word)'
    BY <1>6, <1>10 DEF Tells, Leads
  <2>3. told = <<word>> => word = told[Len(told)]
    OBVIOUS
  <2> QED BY <2>1, <2>2, <2>3
<1>12. told = <<>> => ~Leads /\ table[c] # assignChatDb(me) /\ new # assignChatDb(me)
  <2>1. told = <<>> => ~Leads /\ new.agent # me
    BY <1>7
  <2>2. table[c] = assignChatDb(me) => table[c].status # "CLOSED"
    BY DEF assignChatDb
  <2> QED BY <1>1, <1>2, <1>4, <2>1, <2>2, MineIs
<1> QED BY <1>4, <1>8, <1>9, <1>11, <1>12, OthersTold

(* The words of reassignChat.                                              *)
About(told, c) == told \in Seq(Word) /\ \A k \in DOMAIN told : told[k].chat = c /\ ~told[k].old
LastTells(told) == \E word : told # <<>> => word = told[Len(told)] /\ Tells(word)'

LEMMA UpdatesAre ==
  ASSUME ListTypes, NEW c \in Chats, NEW new \in Rows, NEW told, told = Updates(c, table[c], new),
         table'[c] = new, UNCHANGED me
  PROVE  /\ About(told, c)
         /\ told = <<>> => ~Leads /\ table[c] # assignChatDb(me) /\ new # assignChatDb(me)
         /\ LastTells(told)
<1>1. table[c] \in Rows
  BY DEF ListTypes
<1>2. PICK word : word = EventOf("chat:update", c, new)
  OBVIOUS
<1>3. /\ word \in Word /\ word.name = "chat:update" /\ word.chat = c /\ word.row = new /\ ~word.hidden /\ ~word.old
      /\ Hidden(word) \in Word /\ Hidden(word).name = "chat:update" /\ Hidden(word).chat = c
      /\ Hidden(word).hidden /\ ~Hidden(word).old
  BY <1>2, EventIs
<1>4. (new = assignChatDb(me) <=> new.agent = me) /\ (table[c] = assignChatDb(me) <=> table[c].agent = me)
  BY <1>1, MineIs
<1>5. CASE Leads \/ new.agent = me
  <2>1. told = <<word>>
    BY <1>2, <1>5 DEF Updates
  <2>2. Tells(word)'
    BY <1>3, <1>4, <1>5 DEF Tells, Leads
  <2>3. told \in Seq(Word) /\ (\A k \in DOMAIN told : told[k].chat = c /\ ~told[k].old) /\ word = told[Len(told)]
        /\ told # <<>>
    BY <1>3, <2>1
  <2> QED BY <2>2, <2>3 DEF LastTells, About
<1>6. CASE ~(Leads \/ new.agent = me) /\ table[c].agent = me
  <2>1. PICK hid : hid = Hidden(word)
    OBVIOUS
  <2>2. told = <<hid>>
    BY <1>2, <1>6, <2>1 DEF Updates
  <2>3. Tells(hid)'
    BY <1>3, <1>4, <1>6, <2>1 DEF Tells, Leads
  <2>4. told \in Seq(Word) /\ (\A k \in DOMAIN told : told[k].chat = c /\ ~told[k].old) /\ hid = told[Len(told)]
        /\ told # <<>>
    BY <1>3, <2>1, <2>2
  <2> QED BY <2>3, <2>4 DEF LastTells, About
<1>7. CASE ~(Leads \/ new.agent = me) /\ table[c].agent # me
  <2>1. told = <<>>
    BY <1>7 DEF Updates
  <2> QED BY <1>4, <1>7, <2>1 DEF LastTells, About
<1> QED BY <1>5, <1>6, <1>7

LEMMA ReassignedStep ==
  ASSUME ListInv, NEW c \in Chats, NEW u \in Users, Reassign(c, u)
  PROVE  ListInv'
<1>1. ListTypes
  BY DEF ListInv
<1>2. PICK new : new = assignChatDb(u)
  OBVIOUS
<1>3. new \in Rows
  BY <1>2, RowsAre
<1>4. PICK told : told = Updates(c, table[c], new)
  OBVIOUS
<1>5. Others(c, new, told) /\ events' = events \o told /\ UNCHANGED outdated
  BY <1>2, <1>4 DEF Reassign, emitToUsers
<1>6. table'[c] = new /\ UNCHANGED me
  BY <1>1, <1>5 DEF Others, WrittenLast, ListTypes
<1>7. /\ About(told, c)
      /\ told = <<>> => ~Leads /\ table[c] # assignChatDb(me) /\ new # assignChatDb(me)
      /\ LastTells(told)
  BY <1>1, <1>3, <1>4, <1>6, UpdatesAre
<1>8. PICK word : told # <<>> => word = told[Len(told)] /\ Tells(word)'
  BY <1>7 DEF LastTells, About
<1> QED BY <1>3, <1>5, <1>7, <1>8, OthersTold DEF About

LEMMA AutoClosedStep ==
  ASSUME ListInv, NEW c \in Chats, AutoClose(c)
  PROVE  ListInv'
<1>1. ListTypes
  BY DEF ListInv
<1>2. closedRow \in Rows /\ table[c] \in Rows
  BY <1>1, RowsAre DEF ListTypes
<1>3. PICK first : first = EventOf("chat:auto-closed", c, closedRow)
  OBVIOUS
<1>4. PICK word : word = EventOf("chat:update", c, closedRow)
  OBVIOUS
<1>5. /\ first \in Word /\ first.chat = c /\ ~first.old
      /\ word \in Word /\ word.name = "chat:update" /\ word.chat = c /\ word.row = closedRow /\ ~word.hidden /\ ~word.old
  BY <1>2, <1>3, <1>4, EventIs
<1>6. PICK told : told = IF Leads \/ table[c].agent = me THEN <<first, word>> ELSE <<>>
  OBVIOUS
<1>7. Others(c, closedRow, told) /\ events' = events \o told /\ UNCHANGED outdated
  BY <1>3, <1>4, <1>6 DEF AutoClose, emitToUsers
<1>8. told \in Seq(Word) /\ \A k \in DOMAIN told : told[k].chat = c /\ ~told[k].old
  BY <1>5, <1>6
<1>9. table'[c] = closedRow /\ UNCHANGED me
  BY <1>1, <1>7 DEF Others, WrittenLast, ListTypes
<1>10. closedRow # assignChatDb(me)
  BY DEF closedRow, assignChatDb
<1>11. told # <<>> => word = told[Len(told)] /\ Tells(word)'
  <2>1. Tells(word)'
    BY <1>5, <1>9, <1>10 DEF Tells, Leads
  <2> QED BY <1>6, <2>1
<1>12. told = <<>> => ~Leads /\ table[c] # assignChatDb(me)
  BY <1>1, <1>2, <1>6, MineIs
<1> QED BY <1>2, <1>7, <1>8, <1>10, <1>11, <1>12, OthersTold

LEMMA SilentStep ==
  ASSUME ListInv, NEW c \in Chats, NEW new \in Rows, Silently(c, new)
  PROVE  ListInv'
<1>1. ListTypes /\ WordsSound
  BY DEF ListInv
<1>2. Others(c, new, <<>>) /\ events' = Superseded(c) /\ outdated' = (outdated \/ Listed(table[c]) \/ Listed(new))
  BY DEF Silently
<1>3. table' = [table EXCEPT ![c] = new] /\ UNCHANGED me
  BY <1>2 DEF Others, WrittenLast
<1>4. /\ WordsSound' /\ events' \in Seq(Word) /\ (NoneOld(events') => NoneOld(events))
      /\ \A d : d # c /\ Told(d) => Told(d)'
      /\ Told(c) => ~NoneOld(events')
  BY <1>1, <1>2, <1>3, WordsSuperseded
<1>5. outdated' \in BOOLEAN /\ (outdated => outdated')
  BY <1>1, <1>2 DEF ListTypes, Listed, Leads
<1>6. outdated' \/ (~Leads /\ table[c] # assignChatDb(me) /\ new # assignChatDb(me))
  <2>1. assignChatDb(me).agent = me
    BY DEF assignChatDb
  <2> QED BY <1>2, <2>1 DEF Listed
<1> QED BY <1>2, <1>4, <1>5, <1>6, OthersStep

(* What the user asked for.                                                *)
LEMMA RefusedStep ==
  ASSUME ListInv, NEW i \in DOMAIN reqs, reqs[i].at = "asked", reqs[i].kind \in Writing,
         reqs' = [reqs EXCEPT ![i].at = "refused"],
         UNCHANGED <<table, older, me, events, chats, activeChatId, activeTab, chatCursor, outdated>>
  PROVE  ListInv'
<1>1. /\ ListTypes /\ AgentSound /\ CallsSound /\ WordsSound /\ ListSound /\ MoreSound
  BY DEF ListInv
<1>2. PICK r : r = reqs[i]
  OBVIOUS
<1>3. reqs \in Seq(Calls) /\ r \in Calls
  BY <1>1, <1>2 DEF ListTypes
<1>4. PICK p : p = [r EXCEPT !.at = "refused"]
  OBVIOUS
<1>5. reqs' = [reqs EXCEPT ![i] = p]
  BY <1>2, <1>4
<1>6. /\ p \in Calls /\ p.kind = r.kind /\ p.at = "refused" /\ p.tab = r.tab /\ p.sel = r.sel /\ p.cursor = r.cursor
      /\ p.to = r.to /\ p.got = r.got /\ p.missed = r.missed /\ p.late = r.late
  BY <1>3, <1>4 DEF Calls
<1>7. reqs' \in Seq(Calls) /\ DOMAIN reqs' = DOMAIN reqs /\ \A j \in DOMAIN reqs : reqs'[j] = IF j = i THEN p ELSE reqs[j]
  BY <1>3, <1>5, <1>6
<1>8. CallSound(p)
  <2>1. CallSound(r)
    BY <1>1, <1>2 DEF CallsSound
  <2>2. p.missed = {} /\ p.at # "read"
    BY <1>2, <1>6, <2>1 DEF CallSound
  <2>3. /\ p.kind = "list" => p.cursor = NoCursor
        /\ p.kind \in Writing => p.sel \in Chats
        /\ p.kind = "transfer" => p.to \in Users
        /\ ~Leads => p.tab = "OPEN" /\ (p.kind \in Reading => Mine(p.got))
    BY <1>6, <2>1 DEF CallSound
  <2> QED BY <2>2, <2>3 DEF CallSound
<1>9. ListTypes'
  BY <1>1, <1>7 DEF ListTypes
<1>10. AgentSound'
  BY <1>1 DEF AgentSound, Leads, Mine
<1>11. CallsSound'
  <2> SUFFICES ASSUME NEW j \in DOMAIN reqs'
               PROVE  CallSound(reqs[j])'
    BY DEF CallsSound
  <2>1. PICK q : q = reqs'[j]
    OBVIOUS
  <2>2. CallSound(q)
    BY <1>1, <1>7, <1>8, <2>1 DEF CallsSound
  <2>3. CallSound(q)'
    BY <2>2, SameCall
  <2>4. CallSound(q)' <=> CallSound(reqs[j])'
    BY <2>1 DEF CallSound, PageSound, Shown, InTab, Listed, Leads, Mine, RowMade
  <2> QED BY <2>3, <2>4
<1>12. WordsSound'
  BY <1>1, WordsKept
<1>13. \A j \in DOMAIN reqs : /\ reqs'[j].kind = reqs[j].kind /\ reqs'[j].late = reqs[j].late
                              /\ reqs'[j].tab = reqs[j].tab /\ reqs'[j].cursor = reqs[j].cursor
  BY <1>2, <1>6, <1>7
<1>14. Steady' => Steady
  BY <1>7, <1>13 DEF Steady, Loading
<1>15. ASSUME NEW c, Told(c) \/ Answered(c)
       PROVE  Told(c)' \/ Answered(c)'
  <2>1. Told(c) => Told(c)'
    BY DEF Told
  <2>2. ASSUME Answered(c)
        PROVE  Answered(c)'
    <3>1. PICK j \in DOMAIN reqs : Answers(reqs[j], c)
      BY <2>2 DEF Answered, Answers
    <3>2. j # i
      BY <3>1 DEF Answers
    <3> QED BY <1>7, <3>1, <3>2 DEF Answered, Answers
  <2> QED BY <1>15, <2>1, <2>2
<1>16. \A c, k : (HasIt(c)' <=> HasIt(c)) /\ (Holds(c, k)' <=> Holds(c, k))
  BY DEF HasIt, Holds, Shown, InTab, Listed, Leads
<1>17. ListSound'
  <2> SUFFICES ASSUME Steady', NEW c \in Chats
               PROVE  Told(c)' \/ Answered(c)' \/ (HasIt(c)' /\ Holds(c, Ahead(chatCursor))')
    BY DEF ListSound
  <2>1. Told(c) \/ Answered(c) \/ (HasIt(c) /\ Holds(c, Ahead(chatCursor)))
    BY <1>1, <1>14 DEF ListSound
  <2>2. Holds(c, Ahead(chatCursor))' <=> Holds(c, Ahead(chatCursor))
    BY DEF Holds, Shown, InTab, Listed, Leads, Ahead
  <2> QED BY <1>15, <1>16, <2>1, <2>2
<1>18. MoreSound'
  <2> SUFFICES ASSUME Steady', NEW j \in DOMAIN reqs',
                      reqs'[j].kind = "more" /\ ~reqs'[j].late /\ reqs'[j].tab = activeTab', NEW c \in Chats
               PROVE  Told(c)' \/ Answered(c)' \/ Holds(c, reqs[j].cursor)'
    BY DEF MoreSound
  <2>1. PICK k : k = reqs'[j].cursor
    OBVIOUS
  <2>2. Told(c) \/ Answered(c) \/ Holds(c, k)
    BY <1>1, <1>7, <1>13, <1>14, <2>1 DEF MoreSound
  <2>3. Holds(c, reqs[j].cursor)' <=> Holds(c, k)'
    BY <2>1 DEF Holds, Shown, InTab, Listed, Leads
  <2> QED BY <1>15, <1>16, <2>2, <2>3
<1> QED BY <1>9, <1>10, <1>11, <1>12, <1>17, <1>18 DEF ListInv

(* The row that a request makes is in its answer.                          *)
MadeOf(q, a, made) == [a EXCEPT !.at = "read", !.got = [d \in {q.sel} |-> made]]
Makes(q, p) ==
  /\ p \in Calls /\ CallSound(p) /\ p.kind = q.kind /\ p.sel = q.sel /\ p.at = "read"
  /\ p.tab = q.tab /\ p.late = q.late /\ p.cursor = Past(q.cursor, q.sel)
Placing(q, a, made) == q.kind \in Writing /\ q.at = "asked" /\ made = RowMade(q) /\ Ages(q, a, q.sel)

LEMMA MadeSound ==
  ASSUME ListTypes, NEW q \in Calls, CallSound(q), NEW a, NEW made \in Rows, Placing(q, a, made),
         NEW c, c = q.sel, table' = [table EXCEPT ![c] = made], UNCHANGED me, NEW p, p = MadeOf(q, a, made)
  PROVE  Makes(q, p)'
<1>0. q.kind \in Writing /\ q.at = "asked" /\ made = RowMade(q) /\ Ages(q, a, q.sel)
  BY DEF Placing
<1>1. q.sel \in Chats /\ q.missed = {}
  BY <1>0 DEF CallSound
<1>2. /\ a \in Calls /\ a.kind = q.kind /\ a.tab = q.tab /\ a.sel = q.sel /\ a.to = q.to /\ a.late = q.late
      /\ a.cursor = Past(q.cursor, q.sel) /\ a.missed = {}
  BY <1>0, <1>1 DEF Ages
<1>3. PICK got : got = [d \in {q.sel} |-> made]
  OBVIOUS
<1>4. got \in Shelves
  BY <1>1, <1>3, RowsAre, OneIs
<1>5. p = [a EXCEPT !.at = "read", !.got = got]
  BY <1>3 DEF MadeOf
<1>6. /\ p \in Calls /\ p.kind = q.kind /\ p.at = "read" /\ p.tab = q.tab /\ p.sel = q.sel /\ p.to = q.to
      /\ p.late = q.late /\ p.cursor = a.cursor /\ p.missed = {} /\ p.got = got
  BY <1>2, <1>4, <1>5 DEF Calls
<1>7. RowMade(p)' = made
  BY <1>0, <1>6 DEF RowMade
<1>8. table'[p.sel] = made
  BY <1>1, <1>6 DEF ListTypes
<1>9. p.kind # "list" /\ p.kind \notin Reading
  BY <1>0, <1>6 DEF Reading, Writing
<1>10. p.kind = "transfer" => p.to \in Users
  BY <1>6 DEF CallSound
<1>11. ~Leads' => p.tab = "OPEN"
  BY <1>6 DEF CallSound, Leads
<1>12. CallSound(p)'
  BY <1>1, <1>3, <1>6, <1>7, <1>8, <1>9, <1>10, <1>11 DEF CallSound
<1> QED BY <1>2, <1>6, <1>12 DEF Makes, Past

LEMMA AcceptedStep ==
  ASSUME ListInv, NEW i \in DOMAIN reqs, reqs[i].at = "asked", reqs[i].kind \in Writing,
         NEW c, c = reqs[i].sel, NEW made, made = RowMade(reqs[i]), WrittenLast(c, made),
         reqs' = [Aged(reqs, c) EXCEPT ![i].at = "read", ![i].got = [d \in {c} |-> made]],
         NEW told, told = IF reqs[i].kind = "transfer" THEN Updates(c, table[c], made) ELSE <<>>,
         IF told = <<>> THEN events' = Superseded(c) ELSE events' = events \o told,
         UNCHANGED <<me, chats, activeChatId, activeTab, outdated>>
  PROVE  ListInv'
<1>1. /\ ListTypes /\ CallsSound /\ WordsSound
  BY DEF ListInv
<1>2. PICK r : r = reqs[i]
  OBVIOUS
<1>3. reqs \in Seq(Calls) /\ r \in Calls /\ CallSound(r) /\ c \in Chats
  <2>1. reqs \in Seq(Calls)
    BY <1>1 DEF ListTypes
  <2>2. r \in Calls /\ CallSound(r)
    BY <1>1, <1>2, <2>1 DEF CallsSound
  <2>3. r.kind \in Writing /\ r.sel = c
    BY <1>2
  <2> QED BY <2>1, <2>2, <2>3 DEF CallSound
<1>4. made \in Rows
  <2>1. me \in Users /\ (r.kind = "transfer" => r.to \in Users)
    BY <1>1, <1>3 DEF ListTypes, CallSound
  <2> QED BY <1>2, <2>1, RowsAre DEF RowMade, Writing
<1>5. PICK rs : rs = Aged(reqs, c)
  OBVIOUS
<1>6. rs \in Seq(Calls) /\ DOMAIN rs = DOMAIN reqs /\ \A j \in DOMAIN reqs : Ages(reqs[j], rs[j], c)
  BY <1>3, <1>5, AgedIs
<1>7. PICK p : p = [rs[i] EXCEPT !.at = "read", !.got = [d \in {c} |-> made]]
  OBVIOUS
<1>8. reqs' = [rs EXCEPT ![i] = p]
  BY <1>5, <1>7
<1>9. table' = [table EXCEPT ![c] = made] /\ table'[c] = made
  BY <1>1, <1>3 DEF WrittenLast, ListTypes
<1>10. /\ p \in Calls /\ CallSound(p)' /\ p.kind = r.kind /\ p.sel = c /\ p.at = "read"
       /\ p.tab = r.tab /\ p.late = r.late /\ p.cursor = Past(r.cursor, c)
  <2>1. Ages(r, rs[i], r.sel) /\ r.sel = c /\ r.kind \in Writing /\ r.at = "asked" /\ made = RowMade(r)
    BY <1>2, <1>6
  <2>2. p = [rs[i] EXCEPT !.at = "read", !.got = [d \in {r.sel} |-> made]] /\ table' = [table EXCEPT ![r.sel] = made]
    BY <1>7, <1>9, <2>1
  <2>3. UNCHANGED me
    OBVIOUS
  <2>4. PICK a : a = rs[i]
    OBVIOUS
  <2>5. p = MadeOf(r, a, made)
    BY <2>2, <2>4 DEF MadeOf
  <2>6. Placing(r, a, made)
    BY <2>1, <2>4 DEF Placing
  <2>7. Makes(r, p)'
    BY <1>1, <1>3, <1>4, <1>9, <2>1, <2>3, <2>5, <2>6, MadeSound
  <2>8. p \in Calls /\ CallSound(p)' /\ p.kind = r.kind /\ p.sel = r.sel /\ p.at = "read"
        /\ p.tab = r.tab /\ p.late = r.late /\ p.cursor = Past(r.cursor, r.sel)
    BY <2>7 DEF Makes, Past
  <2> QED BY <2>1, <2>8
<1>11. reqs' \in Seq(Calls) /\ DOMAIN reqs' = DOMAIN reqs /\ \A j \in DOMAIN reqs : reqs'[j] = IF j = i THEN p ELSE rs[j]
  <2>1. PICK q \in Calls : q = p
    BY <1>10
  <2>2. [rs EXCEPT ![i] = q] \in Seq(Calls)
    BY <1>6, <2>1
  <2>3. DOMAIN [rs EXCEPT ![i] = q] = DOMAIN rs /\ \A j \in DOMAIN rs : [rs EXCEPT ![i] = q][j] = IF j = i THEN q ELSE rs[j]
    BY <1>6
  <2> QED BY <1>6, <1>8, <2>1, <2>2, <2>3
<1>12. CallsSound'
  <2> SUFFICES ASSUME NEW j \in DOMAIN reqs'
               PROVE  CallSound(reqs[j])'
    BY DEF CallsSound
  <2>1. PICK w : w = reqs'[j]
    OBVIOUS
  <2>2. CallSound(w)'
    <3>1. CASE j = i
      BY <1>10, <1>11, <2>1, <3>1
    <3>2. CASE j # i
      <4>1. PICK q : q = reqs[j]
        OBVIOUS
      <4>2. q \in Calls /\ CallSound(q) /\ Ages(q, w, c)
        BY <1>1, <1>3, <1>6, <1>11, <2>1, <3>2, <4>1 DEF CallsSound
      <4>3. UNCHANGED me
        OBVIOUS
      <4> QED BY <1>1, <1>3, <1>9, <4>2, <4>3, AgedSound
    <3> QED BY <3>1, <3>2
  <2>3. CallSound(w)' <=> CallSound(reqs[j])'
    BY <2>1 DEF CallSound, PageSound, Shown, InTab, Listed, Leads, Mine, RowMade
  <2> QED BY <2>2, <2>3
<1>13. \A j \in DOMAIN reqs :
         /\ reqs'[j].kind = reqs[j].kind /\ reqs'[j].late = reqs[j].late /\ reqs'[j].tab = reqs[j].tab
         /\ reqs'[j].sel = reqs[j].sel /\ reqs'[j].cursor = Past(reqs[j].cursor, c)
         /\ reqs[j].at = "read" => reqs'[j].at = "read"
  <2> TAKE j \in DOMAIN reqs
  <2>1. CASE j = i
    BY <1>2, <1>10, <1>11, <2>1
  <2>2. CASE j # i
    <3>1. PICK q : q = reqs[j]
      OBVIOUS
    <3>2. PICK w : w = reqs'[j]
      OBVIOUS
    <3>3. Ages(q, w, c)
      BY <1>6, <1>11, <2>2, <3>1, <3>2
    <3>4. /\ w.kind = q.kind /\ w.late = q.late /\ w.tab = q.tab /\ w.sel = q.sel /\ w.at = q.at
          /\ w.cursor = Past(q.cursor, c)
      BY <3>3 DEF Ages
    <3> QED BY <3>1, <3>2, <3>4
  <2> QED BY <2>1, <2>2
<1>14. Answered(c)'
  <2>1. reqs'[i] = p /\ i \in DOMAIN reqs' /\ p.kind \in Writing
    BY <1>2, <1>10, <1>11
  <2> QED BY <1>10, <2>1 DEF Answered
<1>15. /\ WordsSound' /\ events' \in Seq(Word) /\ (NoneOld(events') => NoneOld(events))
       /\ \A d : d # c /\ Told(d) => Told(d)'
  <2>1. CASE told = <<>>
    BY <1>1, <1>3, <1>9, <2>1, WordsSuperseded
  <2>2. CASE told # <<>>
    <3>1. told = Updates(c, table[c], made) /\ events' = events \o told
      BY <2>2
    <3>2. UNCHANGED me
      OBVIOUS
    <3>3. About(told, c) /\ LastTells(told)
      BY <1>1, <1>3, <1>4, <1>9, <3>1, <3>2, UpdatesAre
    <3>4. PICK word : told # <<>> => word = told[Len(told)] /\ Tells(word)'
      BY <3>3 DEF LastTells
    <3>5. /\ WordsSound' /\ events' \in Seq(Word) /\ (NoneOld(events') => NoneOld(events))
          /\ \A d : Told(d) => Told(d)'
      BY <1>1, <1>3, <1>9, <2>2, <3>1, <3>2, <3>3, <3>4, WordsTold DEF About
    <3> QED BY <3>5
  <2> QED BY <2>1, <2>2
<1>16. outdated' \in BOOLEAN /\ (outdated => outdated')
  BY <1>1 DEF ListTypes
<1>17. UNCHANGED <<me, chats, activeChatId, activeTab>>
  OBVIOUS
<1> QED BY <1>3, <1>4, <1>11, <1>12, <1>13, <1>14, <1>15, <1>16, <1>17, WroteStep

LEMMA ServedStep ==
  ASSUME ListInv, NEW i \in DOMAIN reqs, ServeWrite(i)
  PROVE  ListInv'
<1>1. ListTypes
  BY DEF ListInv
<1>2. reqs[i] \in Calls
  BY <1>1 DEF ListTypes
<1>3. reqs[i].at = "asked" /\ reqs[i].kind \in Writing
  BY <1>2 DEF ServeWrite, Calls, Reading
<1>4. UNCHANGED <<me, chats, activeChatId, activeTab, outdated>>
  BY DEF ServeWrite, bounds
<1>5. PICK c : c = reqs[i].sel
  OBVIOUS
<1>6. PICK made : made = RowMade(reqs[i])
  OBVIOUS
<1>7. PICK told : told = IF reqs[i].kind = "transfer" THEN Updates(c, table[c], made) ELSE <<>>
  OBVIOUS
<1>8. CASE Declined(reqs[i], c)
  <2>1. reqs' = [reqs EXCEPT ![i].at = "refused"] /\ UNCHANGED <<table, older, events, chatCursor>>
    BY <1>5, <1>8 DEF ServeWrite
  <2> QED BY <1>3, <1>4, <2>1, RefusedStep
<1>9. CASE ~Declined(reqs[i], c)
  <2>1. /\ WrittenLast(c, made)
        /\ reqs' = [Aged(reqs, c) EXCEPT ![i].at = "read", ![i].got = [d \in {c} |-> made]]
        /\ IF told = <<>> THEN events' = Superseded(c) ELSE events' = events \o told
    BY <1>5, <1>6, <1>7, <1>9 DEF ServeWrite, emitToUsers
  <2> QED BY <1>3, <1>4, <1>5, <1>6, <1>7, <2>1, AcceptedStep
<1> QED BY <1>8, <1>9

-----------------------------------------------------------------------------
LEMMA ListBegins ==
  ASSUME ListInit
  PROVE  ListInv
<1>1. /\ me \in Users /\ events = <<>> /\ reqs = <<Load("OPEN", NoChat)>>
      /\ table \in [Chats -> {unassignChatDb, closedRow} \cup {assignChatDb(u) : u \in Agents}]
      /\ chats = Nobody /\ activeChatId = NoChat /\ activeTab = "OPEN" /\ chatCursor = NoCursor /\ outdated = FALSE
      /\ older \in Orders
  BY DEF ListInit
<1>2. Fresh(Load("OPEN", NoChat)) /\ Load("OPEN", NoChat).kind = "list" /\ "OPEN" \in Tabs
  BY LoadFresh DEF Tabs, Status
<1>3. Load("OPEN", NoChat) \in Calls
  BY <1>2 DEF Fresh
<1>4. PICK q : q = Load("OPEN", NoChat)
  OBVIOUS
<1>5. reqs \in Seq(Calls) /\ DOMAIN reqs = {1} /\ reqs[1] = q
  BY <1>1, <1>3, <1>4
<1>6. ListTypes
  <2>1. table \in [Chats -> Rows]
    BY <1>1 DEF Rows, Users
  <2>2. older \in [Chats -> SUBSET Chats] /\ \A c \in Chats : c \notin older[c]
    BY <1>1 DEF Orders
  <2>3. events \in Seq(Word)
    BY <1>1
  <2>4. chats \in Shelves /\ chatCursor \in SUBSET Chats
    BY <1>1, NobodyIs, BlankIs
  <2> QED BY <1>1, <1>2, <1>5, <2>1, <2>2, <2>3, <2>4 DEF ListTypes
<1>7. AgentSound
  BY <1>1, NobodyIs DEF AgentSound
<1>8. CallsSound
  BY <1>2, <1>4, <1>5, FreshSound DEF CallsSound
<1>9. WordsSound
  BY <1>1 DEF WordsSound
<1>10. ListSound /\ MoreSound
  <2>1. Loading
    BY <1>2, <1>4, <1>5 DEF Loading
  <2> QED BY <2>1 DEF ListSound, MoreSound, Steady
<1> QED BY <1>6, <1>7, <1>8, <1>9, <1>10 DEF ListInv

LEMMA WorldSteps ==
  ASSUME ListInv, World
  PROVE  ListInv'
<1>1. PICK c \in Chats :
        \/ ClientComes(c) \/ AutoClose(c)
        \/ \E u \in Users : Reassign(c, u) \/ Silently(c, assignChatDb(u))
        \/ Silently(c, unassignChatDb) \/ Silently(c, closedRow)
  BY DEF World
<1>2. unassignChatDb \in Rows /\ closedRow \in Rows /\ \A u \in Users : assignChatDb(u) \in Rows
  BY RowsAre
<1>3. ASSUME NEW new \in Rows, Silently(c, new)
      PROVE  ListInv'
  BY <1>3, SilentStep
<1> QED BY <1>1, <1>2, <1>3, ClientStep, AutoClosedStep, ReassignedStep

LEMMA ListKeeps ==
  ASSUME ListInv, [ListNext]_listVars
  PROVE  ListInv'
<1>1. CASE User
  BY <1>1, UserSteps
<1>2. CASE World
  BY <1>2, WorldSteps
<1>3. CASE messageNew \/ chatAutoClosed \/ chatUpdate
  BY <1>3, EventSteps
<1>4. CASE MissEvent
  BY <1>4, MissStep
<1>5. ASSUME NEW i \in DOMAIN reqs,
             \/ ServeList(i) \/ ServeWrite(i) \/ loadChats(i) \/ loadMoreChats(i)
             \/ Assigned(i) \/ Closed(i) \/ handleReassignSuccess(i) \/ Created(i) \/ RequestFails(i)
      PROVE  ListInv'
  BY <1>5, ReadStep, ServedStep, LoadedStep, MoreStep, AssignedStep, ClosedStep, TransferredStep, CreatedStep, FailsStep
<1>6. CASE UNCHANGED listVars
  <2>1. UNCHANGED <<table, older, me, events, reqs, chats, activeChatId, activeTab, chatCursor, outdated>>
    BY <1>6 DEF listVars, backend, page, bounds
  <2>2. /\ ListTypes /\ AgentSound /\ CallsSound /\ WordsSound /\ ListSound /\ MoreSound
    BY DEF ListInv
  <2>3. ListTypes'
    BY <2>1, <2>2 DEF ListTypes
  <2>4. AgentSound'
    BY <2>1, <2>2 DEF AgentSound, Leads, Mine
  <2>5. \A j \in DOMAIN reqs' : In(reqs'[j], reqs)
    BY <2>1 DEF In
  <2>6. CallsSound'
    <3>1. UNCHANGED <<table, me>>
      BY <2>1
    <3>2. \A j \in DOMAIN reqs' : \E q : q = reqs'[j] /\ (In(q, reqs) \/ Fresh(q) \/ Belated(q))
      BY <2>5
    <3> QED BY <2>2, <3>1, <3>2, CallsKept
  <2>7. WordsSound'
    BY <2>1, <2>2, WordsKept
  <2>8. ListSound' /\ MoreSound'
    <3>1. \A x : In(x, reqs) => In(x, reqs')
      BY <2>1 DEF In
    <3> QED BY <2>1, <2>2, <2>5, <3>1, PlainKept
  <2> QED BY <2>3, <2>4, <2>6, <2>7, <2>8 DEF ListInv
<1> QED BY <1>1, <1>2, <1>3, <1>4, <1>5, <1>6 DEF ListNext

(* What holds of the list of chats in every state (ListInv): its parts are *)
(* said above.                                                             *)
THEOREM ListInvariant == ListSpec => []ListInv
<1>1. ListInit => ListInv
  BY ListBegins
<1>2. ListInv /\ [ListNext]_listVars => ListInv'
  BY ListKeeps
<1> QED BY <1>1, <1>2, PTL DEF ListSpec

(* With nothing under way the list of chats is what the server would       *)
(* answer now (loadChats, loadMoreChats, the events and the responses of   *)
(* ChatView.jsx, in any order), unless word of a write never came or an    *)
(* answer was overtaken.                                                   *)
THEOREM ListStaysTrue == ListSpec => []ListIsTrue
<1>1. ASSUME ListInv
      PROVE  ListIsTrue
  <2> SUFFICES ASSUME reqs = <<>>, events = <<>>, ~outdated
               PROVE  /\ \A c \in DOMAIN chats : chats[c] = table[c] /\ Shown(c, activeTab)
                      /\ chatCursor = NoCursor => \A c \in Chats : Shown(c, activeTab) => c \in DOMAIN chats
    BY DEF ListIsTrue, Shown
  <2>1. ListTypes /\ ListSound
    BY <1>1 DEF ListInv
  <2>2. DOMAIN chats \subseteq Chats
    BY <2>1, ShelfIs DEF ListTypes
  <2>3. Steady
    BY DEF Steady, Loading
  <2>4. \A c \in Chats : ~Told(c) /\ ~Answered(c)
    BY DEF Told, Answered
  <2>5. \A c \in Chats : HasIt(c) /\ Holds(c, Ahead(chatCursor))
    BY <2>1, <2>3, <2>4 DEF ListSound
  <2> QED BY <2>2, <2>5 DEF HasIt, Holds, Ahead
<1> QED BY <1>1, ListInvariant, PTL

=============================================================================
