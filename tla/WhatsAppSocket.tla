--------------------------- MODULE WhatsAppSocket ---------------------------
(***************************************************************************)
(* One call of createWhatsAppSocket (backend/src/whatsapp/                 *)
(* whatsappSocket.js): its controller and the sockets it opens one after   *)
(* the other.  A socket reports connection.update through the realtime     *)
(* queue, whose jobs run side by side, so the handlers of its events are   *)
(* tasks that interleave between two awaits.  A closed socket is answered  *)
(* by a restart, until the attempts are spent.                             *)
(*                                                                         *)
(* The socket library is external: a socket that is made connects, opens,  *)
(* and closes for a reason; end() closes it and may report that too.  It   *)
(* saves keys and credentials whenever it likes (whatsappAuthState.js).    *)
(* PostgreSQL is external: a statement is one step.  Left out: messages,   *)
(* QR codes (their handler writes `pending`, as `connecting` does),        *)
(* resync, and names, times and errors in the row.                         *)
(***************************************************************************)
EXTENDS Naturals

CONSTANTS
  Limit,       \* reconnectAttempts at which the session is given up (5)
  MaxSock,     \* bound: sockets
  MaxTrouble   \* bound: statements that fail, events the full queue refuses

ASSUME SocketAssumption ==
  /\ Limit \in Nat \ {0} /\ MaxTrouble \in Nat /\ MaxSock \in Nat \ {0}

Socks == 1..MaxSock
NoSock  == 0

VARIABLES
  row,         \* status of the session in whatsapp_sessions; "none" without a row
  stage,       \* where the call of createWhatsAppSocket is
  sock, restarting, reconnectAttempts,  \* its local variables
  life,        \* of each socket
  task,        \* handleConnectionUpdate for a socket and an event: where it is
  newest, late,  \* history: the youngest event whose handler has written the
               \* row, and whether an older one wrote after it
  saved,       \* history: keys were saved since the last handler that wrote the row
  trouble      \* troubles so far

callVars == <<stage, sock, restarting, reconnectAttempts>>
history  == <<newest, late, saved>>
socketVars == <<row, callVars, life, task, history, trouble>>

Kinds   == {"connecting", "open", "close"}
Reasons == {"transient", "loggedOut", "other"}  \* transient: restartRequired, connectionLost
Live    == {"connecting", "open"}
Pending == Reasons \cup {"queued", "opened", "retry", "reset", "tell", "restart", "reopen"}
Ended   == {"none", "done", "unheard", "retried", "skipped", "told", "failed"}

SocketInit ==
  /\ row \in {"none", "disconnected"}
  /\ stage = "auth" /\ sock = NoSock /\ restarting = FALSE /\ reconnectAttempts = 0
  /\ life = [s \in Socks |-> "none"]
  /\ task = [s \in Socks |-> [e \in Kinds |-> "none"]]
  /\ newest = 0 /\ late = FALSE /\ saved = FALSE
  /\ trouble = 0

Happens == trouble < MaxTrouble /\ trouble' = trouble + 1

(* Events in the order in which they happen.                               *)
Age(s, e) == 3 * s + (IF e = "connecting" THEN 0 ELSE IF e = "open" THEN 1 ELSE 2)

Wrote(s, e) ==
  /\ late' = (late \/ Age(s, e) < newest)
  /\ newest' = IF late' THEN 0 ELSE Age(s, e)
  /\ saved' = FALSE

setSessionStatusRaw(s, e, status) == row' = status /\ Wrote(s, e)  \* mutant

(* The status that event e of socket s gives to the row; the upsert        *)
(* inserts the row if it is not there.                                     *)
setSessionStatus(s, e, status) ==
  /\ row' = IF status \in {"connected", "disconnected"} THEN status ELSE "pending"
  /\ Wrote(s, e)

-----------------------------------------------------------------------------
(* createWhatsAppSocket loads the credentials, inserting the row of a new  *)
(* session, and asks for the library's version ...                         *)
LoadAuth ==
  /\ stage = "auth" /\ stage' = "version"
  /\ row' = IF row = "none" THEN "pending" ELSE row
  /\ UNCHANGED <<sock, restarting, reconnectAttempts, life, task, history, trouble>>

(* createSocketInstance: s is the next socket.                             *)
createSocketInstance(s) ==
  /\ life[s] = "none" /\ \A t \in Socks : t < s => life[t] # "none"
  /\ life' = [life EXCEPT ![s] = "connecting"]
  /\ sock' = s

MakeFirst(s) ==
  /\ stage = "version" /\ stage' = "status"
  /\ createSocketInstance(s)
  /\ task' = [task EXCEPT ![s]["connecting"] = "queued"]
  /\ UNCHANGED <<row, restarting, reconnectAttempts, history, trouble>>

(* ... and writes the first status.  From then on its caller has it.       *)
Created ==
  /\ stage = "status" /\ stage' = "made"
  /\ setSessionStatus(1, "connecting", "connecting")
  /\ UNCHANGED <<sock, restarting, reconnectAttempts, life, task, trouble>>

(* A statement of it fails; the socket, if made, is nobody's and lives on. *)
CreationFails ==
  /\ stage \in {"auth", "version", "status"} /\ Happens
  /\ stage' = "failed"
  /\ UNCHANGED <<row, sock, restarting, reconnectAttempts, life, task, history>>

-----------------------------------------------------------------------------
(* The network.  A full realtime queue refuses the event: enqueueRealtime  *)
(* logs it and nothing else.                                               *)
Report(s, e, first) ==
  \/ task' = [task EXCEPT ![s][e] = first] /\ UNCHANGED trouble
  \/ task' = [task EXCEPT ![s][e] = "failed"] /\ Happens

Opens(s) ==
  /\ life[s] = "connecting"
  /\ life' = [life EXCEPT ![s] = "open"]
  /\ Report(s, "open", "queued")
  /\ UNCHANGED <<row, callVars, history>>

(* The handler of a close starts from its reason.                          *)
Closes(s) ==
  /\ life[s] \in Live
  /\ life' = [life EXCEPT ![s] = "closed"]
  /\ \E reason \in Reasons : Report(s, "close", reason)
  /\ UNCHANGED <<row, callVars, history>>

(* sock.end() by the registry, which may take the listeners off first.  It *)
(* gives no reason.                                                        *)
EndSocket ==
  /\ stage = "made" /\ life[sock] \in Live
  /\ life' = [life EXCEPT ![sock] = "closed"]
  /\ \E first \in {"unheard", "other"} : task' = [task EXCEPT ![sock]["close"] = first]
  /\ UNCHANGED <<row, callVars, history, trouble>>

(* The library saves keys or credentials, of any socket there was, and the *)
(* upsert that saves them writes the default status too.                   *)
persistState ==
  /\ sock # NoSock
  /\ row' = "pending" /\ saved' = TRUE
  /\ UNCHANGED <<callVars, life, task, newest, late, trouble>>

-----------------------------------------------------------------------------
(* handleConnectionUpdate.                                                 *)
At(s, e, step) == task[s][e] = step
Goto(s, e, step) == task' = [task EXCEPT ![s][e] = step]

OnConnecting(s) ==
  /\ At(s, "connecting", "queued")
  /\ setSessionStatus(s, "connecting", "connecting")
  /\ Goto(s, "connecting", "done")
  /\ UNCHANGED <<callVars, life, trouble>>

(* The row first; after two more awaits the attempts are forgiven.         *)
OnOpen(s) ==
  /\ At(s, "open", "queued")
  /\ setSessionStatus(s, "open", "connected")
  /\ Goto(s, "open", "opened")
  /\ UNCHANGED <<callVars, life, trouble>>

Forgive(s) ==
  /\ At(s, "open", "opened")
  /\ reconnectAttempts' = 0
  /\ Goto(s, "open", "done")
  /\ UNCHANGED <<row, stage, sock, restarting, life, history, trouble>>

ResponseStops(reason, n) ==  \* mutant
  CASE reason = "loggedOut" -> "reset"
    [] reason = "transient" -> IF n < Limit THEN "retry" ELSE "skipped"
    [] OTHER                -> IF n < Limit THEN "retry" ELSE "tell"

(* What a close is answered with: a logged out session starts anew, any    *)
(* other is tried again while attempts are left.                           *)
Response(reason, n) ==
  IF reason = "loggedOut" THEN "reset"
  ELSE IF n < Limit THEN "retry" ELSE "tell"

OnClose(s) ==
  /\ \E reason \in Reasons :
       /\ At(s, "close", reason)
       /\ LET answer == Response(reason, reconnectAttempts) IN
          /\ Goto(s, "close", answer)
          /\ reconnectAttempts' = reconnectAttempts + (IF answer = "retry" /\ reason = "other" THEN 1 ELSE 0)
  /\ UNCHANGED <<row, stage, sock, restarting, life, history, trouble>>

(* `reconnecting`; or the fresh credentials of resetState and `pending`.   *)
Announce(s) ==
  /\ At(s, "close", "retry") \/ At(s, "close", "reset")
  /\ setSessionStatus(s, "close", "reconnecting")
  /\ Goto(s, "close", "restart")
  /\ UNCHANGED <<callVars, life, trouble>>

AbandonQuietly(s) ==  \* mutant
  /\ At(s, "close", "tell")
  /\ Goto(s, "close", "told")
  /\ UNCHANGED <<row, history, callVars, life, trouble>>

Abandon(s) ==
  /\ At(s, "close", "tell")
  /\ setSessionStatus(s, "close", "disconnected")
  /\ Goto(s, "close", "told")
  /\ UNCHANGED <<callVars, life, trouble>>

(* restartSocket, one at a time.  The socket it ends first has closed.     *)
Restart(s) ==
  /\ At(s, "close", "restart")
  /\ Goto(s, "close", IF restarting THEN "skipped" ELSE "reopen")
  /\ restarting' = TRUE
  /\ UNCHANGED <<row, stage, sock, reconnectAttempts, life, history, trouble>>

ReopenUnassigned(s) ==  \* mutant
  /\ At(s, "close", "reopen")
  /\ setSessionStatus(s, "close", "restarting")
  /\ \E n \in Socks :
       /\ sock < n /\ life[n] = "none" /\ (\A t \in Socks : t < n => life[t] # "none")
       /\ life' = [life EXCEPT ![n] = "connecting"]
       /\ task' = [task EXCEPT ![n]["connecting"] = "queued", ![s]["close"] = "retried"]
  /\ reconnectAttempts' = reconnectAttempts + 1
  /\ restarting' = FALSE
  /\ UNCHANGED <<stage, sock, trouble>>

(* The row is told, and a new socket made.                                 *)
Reopen(s) ==
  /\ At(s, "close", "reopen")
  /\ setSessionStatus(s, "close", "restarting")
  /\ \E n \in Socks :
       /\ createSocketInstance(n)
       /\ task' = [task EXCEPT ![n]["connecting"] = "queued", ![s]["close"] = "retried"]
  /\ reconnectAttempts' = reconnectAttempts + 1
  /\ restarting' = FALSE
  /\ UNCHANGED <<stage, trouble>>

(* A statement of a handler fails: it logs and ends, and a restart is off. *)
(* Only the reset of a logged out session is caught on the way.            *)
HandlerFails(s) ==
  /\ Happens
  /\ \/ /\ \/ \E e \in {"connecting", "open"} : At(s, e, "queued") /\ Goto(s, e, "failed")
           \/ (At(s, "close", "retry") \/ At(s, "close", "tell")) /\ Goto(s, "close", "failed")
           \/ At(s, "close", "reset") /\ Goto(s, "close", "restart")
        /\ UNCHANGED restarting
     \/ At(s, "close", "reopen") /\ Goto(s, "close", "failed") /\ restarting' = FALSE
  /\ UNCHANGED <<row, stage, sock, reconnectAttempts, life, history>>

Handler(s) ==
  \/ OnConnecting(s) \/ OnOpen(s) \/ Forgive(s) \/ OnClose(s)
  \/ Announce(s) \/ Abandon(s) \/ Restart(s) \/ Reopen(s)

SocketNext ==
  \/ LoadAuth \/ Created \/ CreationFails \/ EndSocket \/ persistState
  \/ \E s \in Socks : MakeFirst(s) \/ Opens(s) \/ Closes(s) \/ Handler(s) \/ HandlerFails(s)

SocketSpec == SocketInit /\ [][SocketNext]_socketVars

-----------------------------------------------------------------------------
(* Type invariant.                                                         *)
SocketTypeOK ==
  /\ row \in {"none", "pending", "connected", "disconnected"}
  /\ stage \in {"auth", "version", "status", "made", "failed"}
  /\ sock \in Socks \cup {NoSock} /\ restarting \in BOOLEAN /\ reconnectAttempts \in Nat
  /\ life \in [Socks -> Live \cup {"none", "closed"}]
  /\ task \in [Socks -> [Kinds -> Pending \cup Ended]]
  /\ newest \in Nat /\ late \in BOOLEAN /\ saved \in BOOLEAN /\ trouble \in 0..MaxTrouble

(* No session dies in silence: if its present socket has closed, the close *)
(* is still being answered, or was given up in the table, or a statement   *)
(* failed, or nobody heard of it.  A restart, or a handler that found one  *)
(* under way, is never the last word.                                      *)
NoSilentDeath ==
  sock # NoSock /\ life[sock] = "closed" => task[sock]["close"] \notin {"retried", "skipped"}

(* When the handlers are done the row tells the truth about the socket, or *)
(* a save of keys has put `pending` over it since (whatsappAuthState.js:132 *)
(* writes the status with the keys): only a handler that wrote after that  *)
(* of a younger event (they run side by side), a failed statement or an    *)
(* end() that nobody heard of can leave another status.  So the row never  *)
(* calls a socket connected, or given up, that is not.                     *)
Quiet == stage = "made" /\ \A s \in Socks, e \in Kinds : task[s][e] \in Ended

Truth ==
  IF life[sock] = "open" THEN "connected"
  ELSE IF life[sock] = "connecting" THEN "pending" ELSE "disconnected"

RowIsTrue ==
  Quiet /\ ~late /\ trouble = 0 /\ task[sock]["close"] # "unheard" =>
    row = Truth \/ (saved /\ row = "pending")

(* The line that the registry sees.                                        *)
Answering == \E s \in Socks : task[s]["close"] \in Pending

Line == INSTANCE SocketLine WITH
  Ctls <- {1},
  line <- [k \in {1} |-> IF sock = NoSock THEN "none"
                         ELSE IF life[sock] \in Live THEN "up"
                         ELSE IF Answering THEN "answering" ELSE "down"],
  listed <- (row # "none")

(* The socket is the line the registry takes it for: once its close is     *)
(* answered it is up or given up, and what has been given up never comes   *)
(* back on its own.                                                        *)
SocketIsLine == Line!LineSpec

=============================================================================
