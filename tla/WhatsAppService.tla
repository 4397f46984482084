-------------------------- MODULE WhatsAppService --------------------------
(***************************************************************************)
(* The registry of WhatsApp sessions (backend/src/services/                *)
(* whatsappService.js), for one session name in one process: the maps      *)
(* `sessions`, `creationLocks`, `reconnectLocks`, the set                  *)
(* `deletedSessions`, and the requests that create, reset, reconnect,      *)
(* disconnect, delete or ask for the status of the session, over           *)
(* controllers that are SocketLine's.  A step is what a request does       *)
(* between two awaits.  Once ensureSessionRecord has the record its callers*)
(* go on in microtasks, before anything else: Busy keeps the rest out.     *)
(* Left out: settings, pairing, sends and the fields a record shows.       *)
(***************************************************************************)
EXTENDS SocketLine, Naturals

CONSTANTS
  Procs, NoProc,  \* requests in flight together
  OpNames,        \* what they ask
  MaxCtl, MaxRec, \* bounds: controllers; records, the fake ones of a deleted session too
  MaxFail         \* bound: calls of createWhatsAppSocket that fail

ASSUME ServiceAssumption ==
  /\ NoProc \notin Procs /\ Ctls = 1..MaxCtl
  /\ MaxCtl \in Nat \ {0} /\ MaxRec \in Nat \ {0} /\ MaxFail \in Nat
  /\ OpNames \subseteq {"create", "status", "reset", "reconnect", "disconnect", "delete"}

Recs == 1..MaxRec
None == 0

VARIABLES
  sessions,   \* the record in the map, None if there is none
  ctlOf,      \* record.controller; None for a fake record
  made,       \* how many records there have been
  creating,   \* creationLocks: the record under creation
  reconnecting,  \* reconnectLocks: the request whose reconnection it is
  deleted,    \* the name is in deletedSessions
  calls,      \* of createWhatsAppSocket: whether it is under way, the record it
              \* is for, the reconnecting request (NoProc: createRecord)
  heard,      \* controllers whose events the registry listens to
  pc, op, held, waits,  \* requests: where, what, the record they got, whom they await
  astray,     \* history: a deletion crossed another use of the session, or a
              \* deleted session, or its fake record, was put to use
  fails       \* calls that failed

mapVars == <<sessions, creating, reconnecting, deleted>>
recVars == <<ctlOf, made>>
ctlVars == <<line, listed, calls, heard, fails>>
reqVars == <<pc, op, held, waits>>
vars == <<mapVars, recVars, ctlVars, reqVars, astray>>

Init ==
  /\ LineInit
  /\ sessions = None /\ creating = None /\ reconnecting = NoProc /\ deleted = FALSE
  /\ ctlOf = [r \in Recs |-> None] /\ made = 0
  /\ calls = [k \in Ctls |-> [at |-> "none", for |-> None, by |-> NoProc]]
  /\ heard = {} /\ fails = 0
  /\ pc = [p \in Procs |-> "idle"] /\ op = [p \in Procs |-> "none"]
  /\ held = [p \in Procs |-> None] /\ waits = [p \in Procs |-> None]
  /\ astray = FALSE

Busy == \E p \in Procs : pc[p] = "go"
InFlight(k) == calls[k].at = "making"
InUse == sessions # None \/ \E k \in Ctls : InFlight(k)

(* A call begins: a controller for record r, wanted by request p.          *)
Call(k, r, p) ==
  /\ calls[k].at = "none" /\ \A j \in Ctls : j < k => calls[j].at # "none"
  /\ calls' = [calls EXCEPT ![k] = [at |-> "making", for |-> r, by |-> p]]

(* sock.end() on the socket of controller k, if it has one: with its       *)
(* listeners on, it is answered like any other close.                      *)
End(k, deaf) ==
  IF k # None /\ line[k] = "up"
  THEN Turn(k, "up", IF deaf THEN {"down"} ELSE {"answering", "down"})
  ELSE UNCHANGED line

-----------------------------------------------------------------------------
(* Requests.                                                               *)

Move(p, step) == pc' = [pc EXCEPT ![p] = step]

(* A request ends; the end of a reconnection (whose last part is           *)
(* getStatusForSession) opens the lock and lets those go who joined it.    *)
Finished(p) ==
  /\ pc' = [q \in Procs |-> IF q = p \/ (op[p] = "settle" /\ pc[q] = "join" /\ waits[q] = p)
                            THEN "idle" ELSE pc[q]]
  /\ reconnecting' = IF op[p] = "settle" THEN NoProc ELSE reconnecting
  /\ op' = [op EXCEPT ![p] = "none"]
  /\ held' = [held EXCEPT ![p] = None]
  /\ waits' = [q \in Procs |-> IF pc'[q] = "idle" THEN None ELSE waits[q]]

Start(p, o) ==
  /\ pc[p] = "idle"
  /\ op' = [op EXCEPT ![p] = o]
  /\ deleted' = (deleted /\ o \notin {"create", "reset"})
  /\ Move(p, IF o = "status" THEN "status" ELSE IF o = "delete" THEN "tenant" ELSE "find")
  /\ UNCHANGED <<ctlVars, sessions, creating, reconnecting, recVars, held, waits, astray>>

(* getStatusForSession: a name without a row is put among the deleted.     *)
Status(p) ==
  /\ pc[p] = "status"
  /\ \/ deleted /\ Finished(p)
     \/ ~deleted /\ Move(p, "lookup") /\ UNCHANGED <<reconnecting, op, held, waits>>
  /\ UNCHANGED <<ctlVars, sessions, creating, deleted, recVars, astray>>

Lookup(p) ==
  /\ pc[p] = "lookup"
  /\ \/ /\ ~listed /\ Finished(p)
        /\ deleted' = TRUE
        /\ astray' = (astray \/ InUse)
     \/ /\ listed /\ Move(p, "find")
        /\ UNCHANGED <<reconnecting, deleted, op, held, waits, astray>>
  /\ UNCHANGED <<ctlVars, sessions, creating, recVars>>

(* ensureSessionRecord once findSessionByName has answered: a fake record  *)
(* of a deleted session, the one in the map, the one under creation, or a  *)
(* new creation.                                                           *)
Fake(p) ==
  /\ pc[p] = "find" /\ deleted
  /\ made < MaxRec /\ made' = made + 1
  /\ held' = [held EXCEPT ![p] = made']
  /\ Move(p, "days")
  /\ UNCHANGED <<ctlVars, mapVars, ctlOf, op, waits, astray>>

FakeReady(p) ==
  /\ pc[p] = "days" /\ Move(p, "go")
  /\ UNCHANGED <<ctlVars, mapVars, recVars, op, held, waits, astray>>

Existing(p) ==
  /\ pc[p] = "find" /\ ~deleted /\ sessions # None
  /\ held' = [held EXCEPT ![p] = sessions]
  /\ Move(p, "go")
  /\ UNCHANGED <<ctlVars, mapVars, recVars, op, waits, astray>>

Join(p) ==
  /\ pc[p] = "find" /\ ~deleted /\ sessions = None /\ creating # None
  /\ waits' = [waits EXCEPT ![p] = creating]
  /\ Move(p, "await")
  /\ UNCHANGED <<ctlVars, mapVars, recVars, op, held, astray>>

NewRecord(p, k) ==
  /\ made < MaxRec /\ made' = made + 1
  /\ Call(k, made', NoProc)
  /\ creating' = made'
  /\ waits' = [waits EXCEPT ![p] = made']
  /\ Move(p, "await")
  /\ UNCHANGED <<line, listed, heard, fails, sessions, reconnecting, deleted, ctlOf, op, held, astray>>

CreateAgain(p, k) ==  \* mutant
  /\ pc[p] = "find" /\ ~deleted /\ sessions = None
  /\ NewRecord(p, k)

Create(p, k) ==
  /\ pc[p] = "find" /\ ~deleted /\ sessions = None /\ creating = None
  /\ NewRecord(p, k)

-----------------------------------------------------------------------------
(* What the requests do with their record.                                 *)

(* createSession and getStatusForSession have only to answer; a reset goes *)
(* on with a reconnection of its own.                                      *)
Answered(p) ==
  /\ pc[p] = "go" /\ op[p] \in {"create", "status", "settle"}
  /\ Finished(p)
  /\ UNCHANGED <<ctlVars, sessions, creating, deleted, recVars, astray>>

ResetAuth(p) ==
  /\ pc[p] = "go" /\ op[p] = "reset"
  /\ op' = [op EXCEPT ![p] = "renew"]
  /\ held' = [held EXCEPT ![p] = None]
  /\ Move(p, "find")
  /\ UNCHANGED <<ctlVars, mapVars, recVars, waits, astray>>

(* The request has a record that is not the session's: the fake one of a  *)
(* deletion, or one of before it.                                          *)
Foreign(p) == sessions # held[p]

(* disconnectSession ends the socket but leaves its listeners on.          *)
Disconnect(p) ==
  /\ pc[p] = "go" /\ op[p] = "disconnect"
  /\ End(ctlOf[held[p]], FALSE)
  /\ heard' = heard \ {ctlOf[held[p]]}
  /\ sessions' = held[p]
  /\ astray' = (astray \/ Foreign(p))
  /\ op' = [op EXCEPT ![p] = "status"]
  /\ held' = [held EXCEPT ![p] = None]
  /\ Move(p, "status")
  /\ UNCHANGED <<listed, calls, fails, creating, reconnecting, deleted, recVars, waits>>

Reconnects(p) == pc[p] = "go" /\ op[p] \in {"reconnect", "renew"}

JoinReconnection(p) ==
  /\ Reconnects(p) /\ reconnecting # NoProc
  /\ waits' = [waits EXCEPT ![p] = reconnecting]
  /\ held' = [held EXCEPT ![p] = None]
  /\ Move(p, "join")
  /\ UNCHANGED <<ctlVars, mapVars, recVars, op, astray>>

ReconnectBegins(p, k) ==
  /\ Call(k, held[p], p)
  /\ reconnecting' = p
  /\ astray' = (astray \/ deleted \/ Foreign(p))
  /\ Move(p, "making")
  /\ UNCHANGED <<listed, fails, sessions, creating, deleted, recVars, op, held, waits>>

ReconnectKeepsEars(p, k) ==  \* mutant
  /\ Reconnects(p) /\ reconnecting = NoProc
  /\ End(ctlOf[held[p]], TRUE) /\ UNCHANGED heard
  /\ ReconnectBegins(p, k)

(* reconnectSession ends the old socket for good and makes a controller.   *)
Reconnect(p, k) ==
  /\ Reconnects(p) /\ reconnecting = NoProc
  /\ End(ctlOf[held[p]], TRUE)
  /\ heard' = heard \ {ctlOf[held[p]]}
  /\ ReconnectBegins(p, k)

(* With resetAuth the stored credentials are replaced first.               *)
ResetState(p) ==
  /\ pc[p] = "making" /\ op[p] = "renew"
  /\ listed' = TRUE
  /\ op' = [op EXCEPT ![p] = "reconnect"]
  /\ UNCHANGED <<line, calls, heard, fails, mapVars, recVars, pc, held, waits, astray>>

(* createWhatsAppSocket makes its first socket ...                         *)
FirstSocket(k) ==
  /\ InFlight(k) /\ Make(k)
  /\ calls[k].by # NoProc => op[calls[k].by] # "renew"
  /\ UNCHANGED <<calls, heard, fails, mapVars, recVars, reqVars, astray>>

(* ... and returns: the caller attaches its listeners and stores the       *)
(* record.  createRecord then drops the lock of the name, whosever it is   *)
(* by now, and those who awaited the record go on.                         *)
Stored(k) ==
  /\ InFlight(k) /\ line[k] # "none"
  /\ calls' = [calls EXCEPT ![k].at = "made"]
  /\ heard' = heard \cup {k}
  /\ ctlOf' = [ctlOf EXCEPT ![calls[k].for] = k]
  /\ sessions' = calls[k].for
  /\ listed' = TRUE

RecordCreated(k) ==
  /\ calls[k].by = NoProc /\ Stored(k)
  /\ creating' = None
  /\ pc' = [p \in Procs |-> IF pc[p] = "await" /\ waits[p] = calls[k].for THEN "go" ELSE pc[p]]
  /\ held' = [p \in Procs |-> IF pc[p] = "await" /\ pc'[p] = "go" THEN calls[k].for ELSE held[p]]
  /\ waits' = [p \in Procs |-> IF pc'[p] = "go" THEN None ELSE waits[p]]
  /\ UNCHANGED <<line, fails, reconnecting, deleted, made, op, astray>>

Reconnected(k) ==
  /\ calls[k].by # NoProc /\ Stored(k)
  /\ LET p == calls[k].by IN
     /\ op' = [op EXCEPT ![p] = "settle"]
     /\ held' = [held EXCEPT ![p] = None]
     /\ Move(p, "status")
  /\ UNCHANGED <<line, fails, creating, reconnecting, deleted, made, waits, astray>>

(* It throws, before or after its socket: createRecord's callers get the   *)
(* error and the map loses the name; a reconnection opens its lock.        *)
CallFails(k) ==
  /\ InFlight(k) /\ fails < MaxFail /\ fails' = fails + 1
  /\ calls' = [calls EXCEPT ![k].at = "failed"]

GiveUp(failed) ==
  /\ pc' = [p \in Procs |-> IF p \in failed THEN "idle" ELSE pc[p]]
  /\ op' = [p \in Procs |-> IF p \in failed THEN "none" ELSE op[p]]
  /\ held' = [p \in Procs |-> IF p \in failed THEN None ELSE held[p]]
  /\ waits' = [p \in Procs |-> IF p \in failed THEN None ELSE waits[p]]

RecordFails(k) ==
  /\ calls[k].by = NoProc /\ CallFails(k)
  /\ sessions' = None /\ creating' = None
  /\ GiveUp({p \in Procs : pc[p] = "await" /\ waits[p] = calls[k].for})
  /\ UNCHANGED <<line, listed, heard, reconnecting, deleted, recVars, astray>>

ReconnectFails(k) ==
  /\ calls[k].by # NoProc /\ CallFails(k)
  /\ reconnecting' = NoProc
  /\ GiveUp({p \in Procs : p = calls[k].by \/ (pc[p] = "join" /\ waits[p] = calls[k].by)})
  /\ UNCHANGED <<line, listed, heard, sessions, creating, deleted, recVars, astray>>

-----------------------------------------------------------------------------
(* deleteSession: the maps forget the session, then the row goes.  Nothing *)
(* stops what is under way: a reconnection that still has to answer drops  *)
(* the lock of the name when it ends, be it another's by then.             *)
Forget(p) ==
  /\ pc[p] = "tenant"
  /\ LET k == IF sessions = None THEN None ELSE ctlOf[sessions] IN
     End(k, FALSE) /\ heard' = heard \ {k}
  /\ sessions' = None /\ creating' = None /\ reconnecting' = NoProc /\ deleted' = TRUE
  /\ astray' = (astray \/ reconnecting # NoProc \/ \E k \in Ctls : InFlight(k))
  /\ Move(p, "erase")
  /\ UNCHANGED <<listed, calls, fails, recVars, op, held, waits>>

Erase(p) ==
  /\ pc[p] = "erase"
  /\ listed' = FALSE
  /\ astray' = (astray \/ InUse)
  /\ Finished(p)
  /\ UNCHANGED <<line, calls, heard, fails, sessions, creating, deleted, recVars>>

-----------------------------------------------------------------------------
(* The socket goes its way, and its handlers and the call that makes it    *)
(* write the row.                                                          *)
SocketMoves ==
  /\ \/ \E k \in Ctls : Drop(k) \/ Answer(k)
     \/ ~listed /\ WriteRow /\ \E k \in Ctls : InFlight(k) \/ line[k] # "none"
  /\ UNCHANGED <<calls, heard, fails, mapVars, recVars, reqVars, astray>>

Next ==
  \/ \E p \in Procs : Answered(p) \/ ResetAuth(p) \/ Disconnect(p) \/ JoinReconnection(p)
                      \/ \E k \in Ctls : Reconnect(p, k)
  \/ /\ ~Busy
     /\ \/ \E p \in Procs :
             \/ Status(p) \/ Lookup(p) \/ Fake(p) \/ FakeReady(p) \/ Existing(p) \/ Join(p)
             \/ ResetState(p) \/ Forget(p) \/ Erase(p)
             \/ \E o \in OpNames : Start(p, o)
             \/ \E k \in Ctls : Create(p, k)
        \/ \E k \in Ctls :
             FirstSocket(k) \/ RecordCreated(k) \/ Reconnected(k) \/ RecordFails(k) \/ ReconnectFails(k)
        \/ SocketMoves

Spec == Init /\ [][Next]_vars

-----------------------------------------------------------------------------
(* Type invariant.                                                         *)
TypeOK ==
  /\ line \in [Ctls -> {"none", "up", "answering", "down"}] /\ listed \in BOOLEAN
  /\ sessions \in Recs \cup {None} /\ ctlOf \in [Recs -> Ctls \cup {None}] /\ made \in 0..MaxRec
  /\ creating \in Recs \cup {None} /\ reconnecting \in Procs \cup {NoProc} /\ deleted \in BOOLEAN
  /\ calls \in [Ctls -> [at : {"none", "making", "made", "failed"},
                         for : Recs \cup {None}, by : Procs \cup {NoProc}]]
  /\ heard \subseteq Ctls /\ fails \in 0..MaxFail
  /\ pc \in [Procs -> {"idle", "status", "lookup", "find", "days", "await", "go", "join", "making", "tenant", "erase"}]
  /\ op \in [Procs -> {"none", "create", "status", "reset", "renew", "reconnect", "disconnect", "settle", "delete"}]
  /\ held \in [Procs -> Recs \cup {None}]
  /\ waits \in [Procs -> Recs \cup {None} \cup Procs]
  /\ astray \in BOOLEAN

(* One controller: however requests for the session overlap, unless a      *)
(* deletion crossed them, at most one is being made at a time, and the     *)
(* registry hears only the one of the record in its map.  Another one      *)
(* would feed every message of the number twice, and no request could end  *)
(* it.  (A controller that is not heard any more may still have a socket:  *)
(* disconnectSession leaves one.)                                          *)
OneController ==
  \/ astray
  \/ /\ \A j, k \in Ctls : InFlight(j) /\ InFlight(k) => j = k
     /\ \A k \in heard : sessions # None /\ ctlOf[sessions] = k

=============================================================================
