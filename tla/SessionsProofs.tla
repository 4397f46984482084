--------------------------- MODULE SessionsProofs ---------------------------
(***************************************************************************)
(* Theorems about the sessions of WhatsApp.  Of WhatsAppService, for any   *)
(* number of requests, controllers and records: the registry has one       *)
(* controller.  Of WhatsAppSocket, for any limit of attempts, any number   *)
(* of sockets and of troubles: a close is answered to the end, the row     *)
(* tells the truth when the handlers are done, and the controller is the   *)
(* line of SocketLine that the registry is built on.  Of SessionsScreen,   *)
(* for any sessions, polls and periods: its cards come true.               *)
(***************************************************************************)
EXTENDS WhatsAppService, WhatsAppSocket, SessionsScreen, TLAPS

-----------------------------------------------------------------------------
(* The registry.                                                           *)
Lines == {"none", "up", "answering", "down"}
Places == {"idle", "status", "lookup", "find", "days", "await", "go", "join", "making", "tenant", "erase"}
Asked == {"none", "create", "status", "reset", "renew", "reconnect", "disconnect", "settle", "delete"}

-----------------------------------------------------------------------------
(* The invariant.  A request that has its record, and a call, have one.    *)
RecordsHeld ==
  /\ \A p \in Procs : pc[p] \in {"go", "days"} => held[p] # None
  /\ \A k \in Ctls : InFlight(k) => calls[k].for # None

(* A request that waits for a reconnection, or whose call is under way, is *)
(* not yet answering its own.                                              *)
SettleLast == \A p \in Procs : pc[p] \in {"idle", "join", "making"} => op[p] # "settle"

Single == \A j, k \in Ctls : InFlight(j) /\ InFlight(k) => j = k

HeardIsStored == \A k \in heard : sessions # None /\ ctlOf[sessions] = k

Silence == \A k \in Ctls : InFlight(k) => heard = {}

(* A creation under way has its lock, and the map is empty; a reconnection *)
(* has its own and is of the record in the map.                            *)
CreationLocked ==
  \A k \in Ctls : InFlight(k) /\ calls[k].by = NoProc => creating # None /\ sessions = None

ReconnectionLocked ==
  \A k \in Ctls : InFlight(k) /\ calls[k].by # NoProc =>
    /\ pc[calls[k].by] = "making" /\ reconnecting = calls[k].by
    /\ sessions = calls[k].for

(* The lock of a reconnection is held over a record in the map, until its  *)
(* request has answered.                                                   *)
LockHeld ==
  /\ reconnecting # NoProc => sessions # None
  /\ \A p \in Procs : op[p] = "settle" => reconnecting = p

Locked == Single /\ HeardIsStored /\ Silence /\ CreationLocked /\ ReconnectionLocked /\ LockHeld

Sound == RecordsHeld /\ SettleLast /\ (astray \/ Locked)

Inv == TypeOK /\ Sound

-----------------------------------------------------------------------------
(* Types.                                                                  *)
LEMMA NoneIsNoCtl == None \notin Ctls /\ None \notin Recs /\ NoProc \notin Procs
BY ServiceAssumption DEF None, Recs

LEMMA TurnTyped ==
  ASSUME TypeOK, NEW k \in Ctls, NEW from, NEW to \in SUBSET Lines, Turn(k, from, to)
  PROVE  line' \in [Ctls -> Lines]
BY DEF TypeOK, Turn, Lines

LEMMA EndTyped ==
  ASSUME TypeOK, NEW k \in Ctls \cup {None}, NEW deaf, End(k, deaf)
  PROVE  line' \in [Ctls -> Lines]
<1>1. CASE k # None /\ line[k] = "up"
  <2>1. Turn(k, "up", IF deaf THEN {"down"} ELSE {"answering", "down"})  BY <1>1 DEF End
  <2>2. (IF deaf THEN {"down"} ELSE {"answering", "down"}) \in SUBSET Lines  BY DEF Lines
  <2> QED BY <1>1, <2>1, <2>2, TurnTyped
<1>2. CASE ~(k # None /\ line[k] = "up")
  BY <1>2 DEF End, TypeOK, Lines
<1> QED BY <1>1, <1>2

LEMMA CallTyped ==
  ASSUME TypeOK, NEW k \in Ctls, NEW r \in Recs, NEW p \in Procs \cup {NoProc}, Call(k, r, p)
  PROVE  calls' \in [Ctls -> [at : {"none", "making", "made", "failed"},
                              for : Recs \cup {None}, by : Procs \cup {NoProc}]]
BY DEF TypeOK, Call

(* What a request that ends leaves of the requests and of the lock.        *)
LEMMA FinishedTyped ==
  ASSUME TypeOK, NEW p \in Procs, Finished(p)
  PROVE  /\ pc' \in [Procs -> Places] /\ op' \in [Procs -> Asked]
         /\ held' \in [Procs -> Recs \cup {None}]
         /\ waits' \in [Procs -> Recs \cup {None} \cup Procs]
         /\ reconnecting' \in Procs \cup {NoProc}
BY DEF TypeOK, Finished, Places, Asked

LEMMA GiveUpTyped ==
  ASSUME TypeOK, NEW failed, GiveUp(failed)
  PROVE  /\ pc' \in [Procs -> Places] /\ op' \in [Procs -> Asked]
         /\ held' \in [Procs -> Recs \cup {None}]
         /\ waits' \in [Procs -> Recs \cup {None} \cup Procs]
BY DEF TypeOK, GiveUp, Places, Asked

LEMMA MoveTyped ==
  ASSUME TypeOK, NEW p \in Procs, NEW step \in Places, Move(p, step)
  PROVE  pc' \in [Procs -> Places]
BY DEF TypeOK, Move, Places

LEMMA StoredTyped ==
  ASSUME TypeOK, RecordsHeld, NEW k \in Ctls, Stored(k)
  PROVE  /\ calls' \in [Ctls -> [at : {"none", "making", "made", "failed"},
                              for : Recs \cup {None}, by : Procs \cup {NoProc}]]
         /\ heard' \subseteq Ctls /\ ctlOf' \in [Recs -> Ctls \cup {None}]
         /\ sessions' \in Recs /\ listed' \in BOOLEAN
         /\ calls[k].for \in Recs /\ calls[k].for = sessions'
<1>1. calls[k].for \in Recs  BY DEF TypeOK, RecordsHeld, Stored
<1>2. /\ calls' = [calls EXCEPT ![k].at = "made"]
      /\ heard' = heard \cup {k}
      /\ ctlOf' = [ctlOf EXCEPT ![calls[k].for] = k]
      /\ sessions' = calls[k].for /\ listed' = TRUE
  BY DEF Stored
<1>3. calls' \in [Ctls -> [at : {"none", "making", "made", "failed"},
                           for : Recs \cup {None}, by : Procs \cup {NoProc}]]
  BY <1>2 DEF TypeOK
<1>4. ctlOf' \in [Recs -> Ctls \cup {None}]  BY <1>1, <1>2 DEF TypeOK
<1> QED BY <1>1, <1>2, <1>3, <1>4 DEF TypeOK

LEMMA FailsTyped ==
  ASSUME TypeOK, NEW k \in Ctls, CallFails(k)
  PROVE  /\ calls' \in [Ctls -> [at : {"none", "making", "made", "failed"},
                              for : Recs \cup {None}, by : Procs \cup {NoProc}]]
         /\ fails' \in 0..MaxFail
<1>1. calls' = [calls EXCEPT ![k].at = "failed"] /\ fails < MaxFail /\ fails' = fails + 1
  BY DEF CallFails
<1>2. fails' \in 0..MaxFail  BY <1>1, ServiceAssumption DEF TypeOK
<1> QED BY <1>1, <1>2 DEF TypeOK

LEMMA MadeTyped ==
  ASSUME TypeOK, made < MaxRec, made' = made + 1
  PROVE  made' \in 0..MaxRec /\ made' \in Recs /\ made' # None
BY ServiceAssumption DEF TypeOK, Recs, None

(* The steps keep the types.                                               *)
LEMMA TypesKept ==
  ASSUME TypeOK, RecordsHeld, [Next]_vars
  PROVE  TypeOK'
<1> USE DEF Lines, Places, Asked
<1>1. ASSUME NEW p \in Procs, Answered(p) PROVE TypeOK'
  BY <1>1, FinishedTyped DEF Answered, TypeOK, ctlVars, recVars
<1>2. ASSUME NEW p \in Procs, ResetAuth(p) PROVE TypeOK'
  BY <1>2, MoveTyped DEF ResetAuth, TypeOK, ctlVars, mapVars, recVars
<1>3. ASSUME NEW p \in Procs, Disconnect(p) PROVE TypeOK'
  <2>1. held[p] \in Recs /\ ctlOf[held[p]] \in Ctls \cup {None}
    BY <1>3 DEF Disconnect, TypeOK, RecordsHeld
  <2>2. line' \in [Ctls -> Lines]  BY <1>3, <2>1, EndTyped DEF Disconnect
  <2> QED BY <1>3, <2>1, <2>2, MoveTyped DEF Disconnect, Foreign, TypeOK, recVars
<1>4. ASSUME NEW p \in Procs, JoinReconnection(p) PROVE TypeOK'
  BY <1>4, MoveTyped DEF JoinReconnection, Reconnects, TypeOK, ctlVars, mapVars, recVars
<1>5. ASSUME NEW p \in Procs, NEW k \in Ctls, Reconnect(p, k) PROVE TypeOK'
  <2>1. held[p] \in Recs /\ ctlOf[held[p]] \in Ctls \cup {None}
    BY <1>5 DEF Reconnect, Reconnects, TypeOK, RecordsHeld
  <2>2. line' \in [Ctls -> Lines]  BY <1>5, <2>1, EndTyped DEF Reconnect
  <2>3. calls' \in [Ctls -> [at : {"none", "making", "made", "failed"},
                             for : Recs \cup {None}, by : Procs \cup {NoProc}]]
    BY <1>5, <2>1, CallTyped DEF Reconnect, ReconnectBegins
  <2> QED BY <1>5, <2>2, <2>3, MoveTyped DEF Reconnect, ReconnectBegins, Foreign, TypeOK, recVars
<1>6. ASSUME NEW p \in Procs, Status(p) PROVE TypeOK'
  <2>1. CASE Finished(p)  BY <1>6, <2>1, FinishedTyped DEF Status, TypeOK, ctlVars, recVars
  <2>2. CASE ~Finished(p)  BY <1>6, <2>2, MoveTyped DEF Status, TypeOK, ctlVars, recVars
  <2> QED BY <2>1, <2>2
<1>7. ASSUME NEW p \in Procs, Lookup(p) PROVE TypeOK'
  <2>1. CASE ~listed
    BY <1>7, <2>1, FinishedTyped DEF Lookup, TypeOK, ctlVars, recVars, InUse
  <2>2. CASE listed  BY <1>7, <2>2, MoveTyped DEF Lookup, TypeOK, ctlVars, recVars
  <2> QED BY <2>1, <2>2
<1>8. ASSUME NEW p \in Procs, Fake(p) PROVE TypeOK'
  BY <1>8, MadeTyped, MoveTyped DEF Fake, TypeOK, ctlVars, mapVars
<1>9. ASSUME NEW p \in Procs, FakeReady(p) PROVE TypeOK'
  BY <1>9, MoveTyped DEF FakeReady, TypeOK, ctlVars, mapVars, recVars
<1>10. ASSUME NEW p \in Procs, Existing(p) PROVE TypeOK'
  BY <1>10, MoveTyped DEF Existing, TypeOK, ctlVars, mapVars, recVars
<1>11. ASSUME NEW p \in Procs, Join(p) PROVE TypeOK'
  BY <1>11, MoveTyped DEF Join, TypeOK, ctlVars, mapVars, recVars
<1>12. ASSUME NEW p \in Procs, ResetState(p) PROVE TypeOK'
  BY <1>12 DEF ResetState, TypeOK, mapVars, recVars
<1>13. ASSUME NEW p \in Procs, Forget(p) PROVE TypeOK'
  <2>1. PICK k \in Ctls \cup {None} : End(k, FALSE) /\ heard' = heard \ {k}
    BY <1>13 DEF Forget, TypeOK
  <2>2. line' \in [Ctls -> Lines]  BY <2>1, EndTyped
  <2> QED BY <1>13, <2>1, <2>2, MoveTyped DEF Forget, TypeOK, recVars
<1>14. ASSUME NEW p \in Procs, Erase(p) PROVE TypeOK'
  BY <1>14, FinishedTyped DEF Erase, TypeOK, recVars, InUse
<1>15. ASSUME NEW p \in Procs, NEW o \in OpNames, Start(p, o) PROVE TypeOK'
  <2>1. o \in Asked  BY ServiceAssumption
  <2>2. pc' \in [Procs -> Places]  BY <1>15, MoveTyped DEF Start
  <2> QED BY <1>15, <2>1, <2>2 DEF Start, TypeOK, ctlVars, recVars
<1>16. ASSUME NEW p \in Procs, NEW k \in Ctls, Create(p, k) PROVE TypeOK'
  <2>1. made' \in 0..MaxRec /\ made' \in Recs  BY <1>16, MadeTyped DEF Create, NewRecord
  <2>2. calls' \in [Ctls -> [at : {"none", "making", "made", "failed"},
                             for : Recs \cup {None}, by : Procs \cup {NoProc}]]
    BY <1>16, <2>1, CallTyped DEF Create, NewRecord
  <2> QED BY <1>16, <2>1, <2>2, MoveTyped DEF Create, NewRecord, TypeOK
<1>17. ASSUME NEW k \in Ctls, FirstSocket(k) PROVE TypeOK'
  <2>1. line' \in [Ctls -> Lines]  BY <1>17, TurnTyped DEF FirstSocket, Make
  <2> QED BY <1>17, <2>1 DEF FirstSocket, Make, TypeOK, mapVars, recVars, reqVars
<1>18. ASSUME NEW k \in Ctls, RecordCreated(k) PROVE TypeOK'
  BY <1>18, StoredTyped DEF RecordCreated, TypeOK
<1>19. ASSUME NEW k \in Ctls, Reconnected(k) PROVE TypeOK'
  <2>1. PICK p \in Procs : p = calls[k].by  BY <1>19 DEF Reconnected, TypeOK
  <2>2. op' = [op EXCEPT ![p] = "settle"] /\ held' = [held EXCEPT ![p] = None] /\ Move(p, "status")
    BY <1>19, <2>1 DEF Reconnected
  <2>3. pc' \in [Procs -> Places]  BY <2>2, MoveTyped
  <2> QED BY <1>19, <2>2, <2>3, StoredTyped DEF Reconnected, TypeOK
<1>20. ASSUME NEW k \in Ctls, RecordFails(k) PROVE TypeOK'
  BY <1>20, FailsTyped, GiveUpTyped DEF RecordFails, TypeOK, recVars
<1>21. ASSUME NEW k \in Ctls, ReconnectFails(k) PROVE TypeOK'
  BY <1>21, FailsTyped, GiveUpTyped DEF ReconnectFails, TypeOK, recVars
<1>22. ASSUME SocketMoves PROVE TypeOK'
  <2>1. line' \in [Ctls -> Lines] /\ listed' \in BOOLEAN
    <3>1. CASE \E k \in Ctls : Drop(k)  BY <3>1, TurnTyped DEF Drop, TypeOK
    <3>2. CASE \E k \in Ctls : Answer(k)  BY <3>2, TurnTyped DEF Answer, TypeOK
    <3>3. CASE WriteRow  BY <3>3 DEF WriteRow, TypeOK
    <3> QED BY <1>22, <3>1, <3>2, <3>3 DEF SocketMoves
  <2> QED BY <1>22, <2>1 DEF SocketMoves, TypeOK, mapVars, recVars, reqVars
<1>23. CASE UNCHANGED vars
  BY <1>23 DEF TypeOK, vars, mapVars, recVars, ctlVars, reqVars
<1> QED BY <1>1, <1>2, <1>3, <1>4, <1>5, <1>6, <1>7, <1>8, <1>9, <1>10, <1>11, <1>12, <1>13,
            <1>14, <1>15, <1>16, <1>17, <1>18, <1>19, <1>20, <1>21, <1>22, <1>23 DEF Next

-----------------------------------------------------------------------------
(* The steps keep the invariant.                                           *)

(* A request that ends, or gives up, gets neither a record nor a lock.     *)
LEMMA FinishedIs ==
  ASSUME TypeOK, SettleLast, NEW p \in Procs, Finished(p)
  PROVE  /\ \A q \in Procs : pc'[q] # "idle" => pc'[q] = pc[q] /\ held'[q] = held[q] /\ op'[q] = op[q]
         /\ \A q \in Procs : op'[q] = "settle" => op[q] = "settle" /\ q # p
         /\ \A q \in Procs : pc'[q] = "idle" => op'[q] # "settle"
         /\ \A q \in Procs : q # p /\ pc[q] # "join" => pc'[q] = pc[q]
         /\ op[p] = "settle" => reconnecting' = NoProc
         /\ op[p] # "settle" => reconnecting' = reconnecting
BY DEF Finished, TypeOK, SettleLast

LEMMA GiveUpIs ==
  ASSUME TypeOK, SettleLast, NEW failed, GiveUp(failed)
  PROVE  /\ \A q \in Procs : pc'[q] # "idle" => pc'[q] = pc[q] /\ held'[q] = held[q] /\ op'[q] = op[q]
         /\ \A q \in Procs : op'[q] = "settle" => op[q] = "settle"
         /\ \A q \in Procs : pc'[q] = "idle" => op'[q] # "settle"
BY DEF GiveUp, TypeOK, SettleLast

(* A call of createWhatsAppSocket is of its caller's record.               *)
LEMMA CallIs ==
  ASSUME TypeOK, NEW k \in Ctls, NEW r, NEW p, Call(k, r, p)
  PROVE  /\ ~InFlight(k) /\ InFlight(k)' /\ calls'[k].for = r /\ calls'[k].by = p
         /\ \A j \in Ctls : j # k => calls'[j] = calls[j]
BY DEF TypeOK, Call, InFlight

(* Its end is the end of it.                                               *)
LEMMA CallEnds ==
  ASSUME TypeOK, NEW k \in Ctls, Stored(k) \/ CallFails(k)
  PROVE  \A j \in Ctls : InFlight(j)' => j # k /\ InFlight(j) /\ calls'[j] = calls[j]
BY DEF TypeOK, Stored, CallFails, InFlight

LEMMA RecordsKept ==
  ASSUME TypeOK, RecordsHeld, SettleLast, [Next]_vars
  PROVE  RecordsHeld' /\ SettleLast'
<1> DEFINE Good == RecordsHeld' /\ SettleLast'
<1> USE DEF RecordsHeld, SettleLast, InFlight
<1>1. ASSUME NEW p \in Procs, Answered(p) PROVE Good
  BY <1>1, FinishedIs DEF Answered, ctlVars
<1>2. ASSUME NEW p \in Procs, ResetAuth(p) PROVE Good
  BY <1>2 DEF ResetAuth, TypeOK, Move, ctlVars
<1>3. ASSUME NEW p \in Procs, Disconnect(p) PROVE Good
  BY <1>3 DEF Disconnect, TypeOK, Move
<1>4. ASSUME NEW p \in Procs, JoinReconnection(p) PROVE Good
  BY <1>4 DEF JoinReconnection, Reconnects, TypeOK, Move, ctlVars
<1>5. ASSUME NEW p \in Procs, NEW k \in Ctls, Reconnect(p, k) PROVE Good
  <2>1. Call(k, held[p], p) /\ held[p] # None
    BY <1>5 DEF Reconnect, Reconnects, ReconnectBegins
  <2>2. \A j \in Ctls : InFlight(j)' => calls'[j].for # None  BY <2>1, CallIs
  <2> QED BY <1>5, <2>2 DEF Reconnect, Reconnects, ReconnectBegins, TypeOK, Move
<1>6. ASSUME NEW p \in Procs, Status(p) PROVE Good
  <2>1. CASE Finished(p)  BY <1>6, <2>1, FinishedIs DEF Status, ctlVars
  <2>2. CASE ~Finished(p)  BY <1>6, <2>2 DEF Status, TypeOK, Move, ctlVars
  <2> QED BY <2>1, <2>2
<1>7. ASSUME NEW p \in Procs, Lookup(p) PROVE Good
  <2>1. CASE ~listed  BY <1>7, <2>1, FinishedIs DEF Lookup, ctlVars
  <2>2. CASE listed  BY <1>7, <2>2 DEF Lookup, TypeOK, Move, ctlVars
  <2> QED BY <2>1, <2>2
<1>8. ASSUME NEW p \in Procs, Fake(p) PROVE Good
  BY <1>8, MadeTyped DEF Fake, TypeOK, Move, ctlVars
<1>9. ASSUME NEW p \in Procs, FakeReady(p) PROVE Good
  BY <1>9 DEF FakeReady, TypeOK, Move, ctlVars
<1>10. ASSUME NEW p \in Procs, Existing(p) PROVE Good
  BY <1>10 DEF Existing, TypeOK, Move, ctlVars
<1>11. ASSUME NEW p \in Procs, Join(p) PROVE Good
  BY <1>11 DEF Join, TypeOK, Move, ctlVars
<1>12. ASSUME NEW p \in Procs, ResetState(p) PROVE Good
  BY <1>12 DEF ResetState, TypeOK
<1>13. ASSUME NEW p \in Procs, Forget(p) PROVE Good
  BY <1>13 DEF Forget, TypeOK, Move
<1>14. ASSUME NEW p \in Procs, Erase(p) PROVE Good
  BY <1>14, FinishedIs DEF Erase
<1>15. ASSUME NEW p \in Procs, NEW o \in OpNames, Start(p, o) PROVE Good
  <2>1. o # "settle"  BY ServiceAssumption
  <2> QED BY <1>15, <2>1 DEF Start, TypeOK, Move, ctlVars
<1>16. ASSUME NEW p \in Procs, NEW k \in Ctls, Create(p, k) PROVE Good
  <2>1. Call(k, made', NoProc) /\ made' # None  BY <1>16, MadeTyped DEF Create, NewRecord
  <2>2. \A j \in Ctls : InFlight(j)' => calls'[j].for # None  BY <2>1, CallIs
  <2> QED BY <1>16, <2>2 DEF Create, NewRecord, TypeOK, Move
<1>17. ASSUME NEW k \in Ctls, FirstSocket(k) PROVE Good
  BY <1>17 DEF FirstSocket, reqVars
<1>18. ASSUME NEW k \in Ctls, RecordCreated(k) PROVE Good
  <2>1. calls[k].for # None  BY <1>18 DEF RecordCreated, Stored
  <2>2. \A j \in Ctls : InFlight(j)' => calls'[j].for # None  BY <1>18, CallEnds DEF RecordCreated
  <2> QED BY <1>18, <2>1, <2>2 DEF RecordCreated, TypeOK
<1>19. ASSUME NEW k \in Ctls, Reconnected(k) PROVE Good
  <2>1. PICK p \in Procs : p = calls[k].by  BY <1>19 DEF Reconnected, TypeOK
  <2>2. op' = [op EXCEPT ![p] = "settle"] /\ held' = [held EXCEPT ![p] = None] /\ Move(p, "status")
    BY <1>19, <2>1 DEF Reconnected
  <2>3. \A j \in Ctls : InFlight(j)' => calls'[j].for # None  BY <1>19, CallEnds DEF Reconnected
  <2> QED BY <2>2, <2>3 DEF TypeOK, Move
<1>20. ASSUME NEW k \in Ctls, RecordFails(k) PROVE Good
  BY <1>20, CallEnds, GiveUpIs DEF RecordFails
<1>21. ASSUME NEW k \in Ctls, ReconnectFails(k) PROVE Good
  BY <1>21, CallEnds, GiveUpIs DEF ReconnectFails
<1>22. ASSUME SocketMoves PROVE Good
  BY <1>22 DEF SocketMoves, reqVars
<1>23. CASE UNCHANGED vars
  BY <1>23 DEF vars, ctlVars, reqVars
<1> QED BY <1>1, <1>2, <1>3, <1>4, <1>5, <1>6, <1>7, <1>8, <1>9, <1>10, <1>11, <1>12, <1>13,
            <1>14, <1>15, <1>16, <1>17, <1>18, <1>19, <1>20, <1>21, <1>22, <1>23 DEF Next

(* A call can begin only when none is under way: a creation has the map    *)
(* empty and its lock free, a reconnection the other lock.                 *)
LEMMA NoneInFlight ==
  ASSUME Inv, Locked,
         \/ sessions = None /\ creating = None
         \/ sessions # None /\ reconnecting = NoProc
  PROVE  \A k \in Ctls : ~InFlight(k)
BY DEF Inv, Sound, RecordsHeld, Locked, CreationLocked, ReconnectionLocked

(* Locked is of the maps, the calls, and the requests that hold or         *)
(* reconnect.                                                              *)
LEMMA LockedStays ==
  ASSUME Inv, Locked,
         UNCHANGED <<calls, creating, reconnecting, ctlOf>>,
         sessions' = sessions, heard' \subseteq heard,
         \A q \in Procs : pc[q] = "making" => pc'[q] = "making",
         \A q \in Procs : op'[q] = "settle" => op[q] = "settle"
  PROVE  Locked'
<1>1. calls \in [Ctls -> [at : {"none", "making", "made", "failed"},
                          for : Recs \cup {None}, by : Procs \cup {NoProc}]]
  BY DEF Inv, TypeOK
<1>2. Single' /\ HeardIsStored' /\ Silence'
  BY DEF Locked, Single, HeardIsStored, Silence, InFlight
<1>3. CreationLocked'  BY DEF Locked, CreationLocked, InFlight
<1>4. ReconnectionLocked'  BY <1>1 DEF Locked, ReconnectionLocked, InFlight
<1>5. LockHeld'  BY DEF Locked, LockHeld
<1> QED BY <1>2, <1>3, <1>4, <1>5 DEF Locked

(* A request that ends leaves nobody else's lock open.                     *)
LEMMA LockedAtEnd ==
  ASSUME Inv, Locked, NEW p \in Procs, Finished(p), pc[p] # "making",
         UNCHANGED <<calls, sessions, heard, creating, ctlOf>>
  PROVE  Locked'
<1>1. TypeOK /\ SettleLast  BY DEF Inv, Sound
<1>2. CASE op[p] # "settle"
  BY <1>1, <1>2, FinishedIs, LockedStays DEF SettleLast
<1>3. CASE op[p] = "settle"
  <2>1. reconnecting = p /\ reconnecting' = NoProc  BY <1>1, <1>3, FinishedIs DEF Locked, LockHeld
  <2>2. \A k \in Ctls : InFlight(k) => calls[k].by = NoProc
    BY <1>3, <2>1, NoneIsNoCtl DEF Locked, ReconnectionLocked
  <2>3. \A q \in Procs : op'[q] # "settle"
    BY <1>1, <2>1, FinishedIs DEF Locked, LockHeld
  <2>4. Single' /\ HeardIsStored' /\ Silence'
    BY DEF Locked, Single, HeardIsStored, Silence, InFlight
  <2>5. CreationLocked'  BY DEF Locked, CreationLocked, InFlight
  <2>6. ReconnectionLocked'  BY <2>2 DEF ReconnectionLocked, InFlight
  <2>7. LockHeld'  BY <2>1, <2>3 DEF LockHeld
  <2> QED BY <2>4, <2>5, <2>6, <2>7 DEF Locked
<1> QED BY <1>2, <1>3

(* When nothing is under way any more, only the map and the locks matter.  *)
LEMMA LockedAtRest ==
  ASSUME \A k \in Ctls : ~InFlight(k)', HeardIsStored', LockHeld'
  PROVE  Locked'
BY DEF Locked, Single, Silence, CreationLocked, ReconnectionLocked

(* A creation begins.                                                      *)
LEMMA LockedByCreate ==
  ASSUME Inv, Locked, NEW p \in Procs, NEW k \in Ctls, Create(p, k)
  PROVE  Locked'
<1>1. TypeOK  BY DEF Inv
<1>2. Call(k, made', NoProc) /\ sessions = None /\ sessions' = None /\ creating' = made' /\ made' # None
  BY <1>1, MadeTyped DEF Create, NewRecord
<1>3. heard' = heard /\ reconnecting' = reconnecting /\ op' = op
  BY DEF Create, NewRecord
<1>4. \A j \in Ctls : InFlight(j)' => j = k
  <2>1. \A j \in Ctls : ~InFlight(j)  BY NoneInFlight DEF Create
  <2> QED BY <1>1, <1>2, <2>1, CallIs DEF InFlight
<1>5. calls'[k].by = NoProc  BY <1>1, <1>2, CallIs
<1>6. heard' = {}  BY <1>2, <1>3 DEF Locked, HeardIsStored
<1>7. Single' /\ HeardIsStored' /\ Silence'
  BY <1>4, <1>6 DEF Single, HeardIsStored, Silence
<1>8. CreationLocked' /\ ReconnectionLocked'
  BY <1>2, <1>4, <1>5 DEF CreationLocked, ReconnectionLocked
<1>9. LockHeld'  BY <1>2, <1>3 DEF Locked, LockHeld
<1> QED BY <1>7, <1>8, <1>9 DEF Locked

(* A reconnection of the record in the map begins.                         *)
LEMMA LockedByReconnect ==
  ASSUME Inv, Locked, NEW p \in Procs, NEW k \in Ctls, Reconnect(p, k), ~astray'
  PROVE  Locked'
<1>1. TypeOK  BY DEF Inv
<1>2. held[p] # None /\ reconnecting = NoProc
  BY DEF Inv, Sound, RecordsHeld, Reconnect, Reconnects
<1>3. Call(k, held[p], p) /\ sessions = held[p] /\ sessions' = held[p] /\ reconnecting' = p
  BY DEF Reconnect, ReconnectBegins, Foreign
<1>4. pc' = [pc EXCEPT ![p] = "making"] /\ op' = op /\ heard' = heard \ {ctlOf[held[p]]}
  BY DEF Reconnect, ReconnectBegins, Move
<1>5. \A j \in Ctls : InFlight(j)' => j = k
  <2>1. \A j \in Ctls : ~InFlight(j)  BY <1>2, <1>3, NoneInFlight
  <2> QED BY <1>1, <1>3, <2>1, CallIs DEF InFlight
<1>6. calls'[k].by = p /\ calls'[k].for = held[p]  BY <1>1, <1>3, CallIs
<1>7. heard' = {}  BY <1>3, <1>4 DEF Locked, HeardIsStored
<1>8. Single' /\ HeardIsStored' /\ Silence'
  BY <1>5, <1>7 DEF Single, HeardIsStored, Silence
<1>9. pc'[p] = "making" /\ p # NoProc  BY <1>1, <1>4, NoneIsNoCtl DEF TypeOK
<1>10. CreationLocked' /\ ReconnectionLocked'
  BY <1>3, <1>5, <1>6, <1>9 DEF CreationLocked, ReconnectionLocked
<1>11. LockHeld'
  <2>1. \A q \in Procs : op'[q] # "settle"
    BY <1>2, <1>4, NoneIsNoCtl DEF Locked, LockHeld
  <2> QED BY <1>2, <1>3, <2>1 DEF LockHeld
<1> QED BY <1>8, <1>10, <1>11 DEF Locked

(* A call that returns is the only one, and what it returns the only one   *)
(* the registry hears.                                                     *)
LEMMA LastCall ==
  ASSUME Inv, Locked, NEW k \in Ctls, InFlight(k), Stored(k) \/ CallFails(k)
  PROVE  heard = {} /\ \A j \in Ctls : ~InFlight(j)'
<1>1. TypeOK  BY DEF Inv
<1>2. \A j \in Ctls : InFlight(j)' => j # k /\ InFlight(j)  BY <1>1, CallEnds
<1> QED BY <1>2 DEF Locked, Single, Silence

LEMMA StoredIsHeard ==
  ASSUME Inv, NEW k \in Ctls, Stored(k), heard = {}
  PROVE  HeardIsStored' /\ sessions' # None
<1>1. TypeOK /\ RecordsHeld  BY DEF Inv, Sound
<1>2. calls[k].for \in Recs /\ sessions' = calls[k].for  BY <1>1, StoredTyped
<1>3. heard' = {k} /\ ctlOf' = [ctlOf EXCEPT ![calls[k].for] = k]  BY DEF Stored
<1>4. ctlOf'[sessions'] = k  BY <1>1, <1>2, <1>3 DEF TypeOK
<1> QED BY <1>2, <1>3, <1>4, NoneIsNoCtl DEF HeardIsStored

LEMMA LockedKept ==
  ASSUME Inv, Locked, [Next]_vars, ~astray'
  PROVE  Locked'
<1>0. TypeOK /\ RecordsHeld /\ SettleLast  BY DEF Inv, Sound
<1>1. ASSUME NEW p \in Procs, Answered(p) PROVE Locked'
  BY <1>1, LockedAtEnd DEF Answered, ctlVars, recVars
<1>2. ASSUME NEW p \in Procs, ResetAuth(p) PROVE Locked'
  BY <1>0, <1>2, LockedStays DEF ResetAuth, TypeOK, Move, ctlVars, mapVars, recVars
<1>3. ASSUME NEW p \in Procs, Disconnect(p) PROVE Locked'
  BY <1>0, <1>3, LockedStays DEF Disconnect, Foreign, TypeOK, Move, recVars
<1>4. ASSUME NEW p \in Procs, JoinReconnection(p) PROVE Locked'
  BY <1>0, <1>4, LockedStays DEF JoinReconnection, Reconnects, TypeOK, Move, ctlVars, mapVars, recVars
<1>5. ASSUME NEW p \in Procs, NEW k \in Ctls, Reconnect(p, k) PROVE Locked'
  BY <1>5, LockedByReconnect
<1>6. ASSUME NEW p \in Procs, Status(p) PROVE Locked'
  <2>1. CASE Finished(p)  BY <1>6, <2>1, LockedAtEnd DEF Status, ctlVars, recVars
  <2>2. CASE ~Finished(p)
    BY <1>0, <1>6, <2>2, LockedStays DEF Status, TypeOK, Move, ctlVars, recVars
  <2> QED BY <2>1, <2>2
<1>7. ASSUME NEW p \in Procs, Lookup(p) PROVE Locked'
  <2>1. CASE ~listed  BY <1>7, <2>1, LockedAtEnd DEF Lookup, ctlVars, recVars
  <2>2. CASE listed
    BY <1>0, <1>7, <2>2, LockedStays DEF Lookup, TypeOK, Move, ctlVars, recVars
  <2> QED BY <2>1, <2>2
<1>8. ASSUME NEW p \in Procs, Fake(p) PROVE Locked'
  BY <1>0, <1>8, LockedStays DEF Fake, TypeOK, Move, ctlVars, mapVars
<1>9. ASSUME NEW p \in Procs, FakeReady(p) PROVE Locked'
  BY <1>0, <1>9, LockedStays DEF FakeReady, TypeOK, Move, ctlVars, mapVars, recVars
<1>10. ASSUME NEW p \in Procs, Existing(p) PROVE Locked'
  BY <1>0, <1>10, LockedStays DEF Existing, TypeOK, Move, ctlVars, mapVars, recVars
<1>11. ASSUME NEW p \in Procs, Join(p) PROVE Locked'
  BY <1>0, <1>11, LockedStays DEF Join, TypeOK, Move, ctlVars, mapVars, recVars
<1>12. ASSUME NEW p \in Procs, ResetState(p) PROVE Locked'
  BY <1>0, <1>12, LockedStays DEF ResetState, TypeOK, mapVars, recVars
<1>13. ASSUME NEW p \in Procs, Forget(p) PROVE Locked'
  <2>1. reconnecting = NoProc /\ \A k \in Ctls : ~InFlight(k)  BY <1>13 DEF Forget
  <2>2. sessions' = None /\ reconnecting' = NoProc /\ calls' = calls /\ op' = op
    BY <1>13 DEF Forget
  <2>3. heard' = {}  BY <1>13 DEF Forget, Locked, HeardIsStored
  <2>4. HeardIsStored'  BY <2>3 DEF HeardIsStored
  <2>5. LockHeld'  BY <2>1, <2>2, NoneIsNoCtl DEF Locked, LockHeld
  <2>6. \A k \in Ctls : ~InFlight(k)'  BY <2>1, <2>2 DEF InFlight
  <2> QED BY <2>4, <2>5, <2>6, LockedAtRest
<1>14. ASSUME NEW p \in Procs, Erase(p) PROVE Locked'
  BY <1>14, LockedAtEnd DEF Erase, recVars
<1>15. ASSUME NEW p \in Procs, NEW o \in OpNames, Start(p, o) PROVE Locked'
  <2>1. o # "settle"  BY ServiceAssumption
  <2> QED BY <1>0, <1>15, <2>1, LockedStays DEF Start, TypeOK, Move, ctlVars, recVars
<1>16. ASSUME NEW p \in Procs, NEW k \in Ctls, Create(p, k) PROVE Locked'
  BY <1>16, LockedByCreate
<1>17. ASSUME NEW k \in Ctls, FirstSocket(k) PROVE Locked'
  BY <1>17, LockedStays DEF FirstSocket, mapVars, recVars, reqVars
<1>18. ASSUME NEW k \in Ctls, RecordCreated(k) PROVE Locked'
  <2>1. heard = {} /\ \A j \in Ctls : ~InFlight(j)'
    BY <1>18, LastCall DEF RecordCreated, Stored
  <2>2. HeardIsStored' /\ sessions' # None  BY <1>18, <2>1, StoredIsHeard DEF RecordCreated
  <2>3. LockHeld'  BY <1>18, <2>2 DEF RecordCreated, Locked, LockHeld
  <2> QED BY <2>1, <2>2, <2>3, LockedAtRest
<1>19. ASSUME NEW k \in Ctls, Reconnected(k) PROVE Locked'
  <2>1. InFlight(k) /\ calls[k].by # NoProc  BY <1>19 DEF Reconnected, Stored
  <2>2. PICK p \in Procs : p = calls[k].by  BY <1>0, <2>1 DEF TypeOK
  <2>3. heard = {} /\ \A j \in Ctls : ~InFlight(j)'  BY <1>19, <2>1, LastCall DEF Reconnected
  <2>4. HeardIsStored' /\ sessions' # None  BY <1>19, <2>3, StoredIsHeard DEF Reconnected
  <2>5. reconnecting = p  BY <2>1, <2>2 DEF Locked, ReconnectionLocked
  <2>6. op' = [op EXCEPT ![p] = "settle"] /\ reconnecting' = p  BY <1>19, <2>2, <2>5 DEF Reconnected
  <2>7. \A q \in Procs : op'[q] = "settle" => q = p  BY <2>5, <2>6 DEF Locked, LockHeld
  <2>8. LockHeld'  BY <2>4, <2>6, <2>7 DEF LockHeld
  <2> QED BY <2>3, <2>4, <2>8, LockedAtRest
<1>20. ASSUME NEW k \in Ctls, RecordFails(k) PROVE Locked'
  <2>1. InFlight(k) /\ calls[k].by = NoProc  BY <1>20 DEF RecordFails, CallFails
  <2>2. heard = {} /\ \A j \in Ctls : ~InFlight(j)'  BY <1>20, <2>1, LastCall DEF RecordFails
  <2>3. reconnecting = NoProc  BY <2>1 DEF Locked, CreationLocked, LockHeld
  <2>4. reconnecting' = reconnecting /\ heard' = heard  BY <1>20 DEF RecordFails
  <2>5. \A q \in Procs : op'[q] # "settle"
    BY <1>0, <1>20, <2>3, GiveUpIs, NoneIsNoCtl DEF RecordFails, Locked, LockHeld
  <2>6. HeardIsStored' /\ LockHeld'  BY <2>2, <2>3, <2>4, <2>5 DEF HeardIsStored, LockHeld
  <2> QED BY <2>2, <2>6, LockedAtRest
<1>21. ASSUME NEW k \in Ctls, ReconnectFails(k) PROVE Locked'
  <2>1. InFlight(k) /\ calls[k].by # NoProc  BY <1>21 DEF ReconnectFails, CallFails
  <2>2. PICK p \in Procs : p = calls[k].by  BY <1>0, <2>1 DEF TypeOK
  <2>3. heard = {} /\ \A j \in Ctls : ~InFlight(j)'  BY <1>21, <2>1, LastCall DEF ReconnectFails
  <2>4. reconnecting = p /\ pc[p] = "making"  BY <2>1, <2>2 DEF Locked, ReconnectionLocked
  <2>5. reconnecting' = NoProc /\ heard' = heard  BY <1>21 DEF ReconnectFails
  <2>6. \A q \in Procs : op[q] # "settle"  BY <1>0, <2>4 DEF Locked, LockHeld, SettleLast
  <2>7. \A q \in Procs : op'[q] # "settle"
    BY <1>0, <1>21, <2>6, GiveUpIs DEF ReconnectFails
  <2>8. HeardIsStored' /\ LockHeld'  BY <2>3, <2>5, <2>7 DEF HeardIsStored, LockHeld
  <2> QED BY <2>3, <2>8, LockedAtRest
<1>22. ASSUME SocketMoves PROVE Locked'
  BY <1>22, LockedStays DEF SocketMoves, mapVars, recVars, reqVars
<1>23. CASE UNCHANGED vars
  BY <1>23, LockedStays DEF vars, mapVars, recVars, ctlVars, reqVars
<1> QED BY <1>1, <1>2, <1>3, <1>4, <1>5, <1>6, <1>7, <1>8, <1>9, <1>10, <1>11, <1>12, <1>13,
            <1>14, <1>15, <1>16, <1>17, <1>18, <1>19, <1>20, <1>21, <1>22, <1>23 DEF Next

(* Once a deletion has crossed another use, that stays on record.          *)
LEMMA AstrayStays == [Next]_vars /\ astray => astray'
<1> SUFFICES ASSUME [Next]_vars, astray PROVE astray'
  OBVIOUS
<1>1. ASSUME NEW p \in Procs,
             \/ Answered(p) \/ ResetAuth(p) \/ Disconnect(p) \/ JoinReconnection(p)
             \/ \E k \in Ctls : Reconnect(p, k)
      PROVE  astray'
  BY <1>1 DEF Answered, ResetAuth, Disconnect, JoinReconnection, Reconnect, ReconnectBegins
<1>2. ASSUME NEW p \in Procs,
             \/ Status(p) \/ Lookup(p) \/ Fake(p) \/ FakeReady(p) \/ Existing(p) \/ Join(p)
             \/ ResetState(p) \/ Forget(p) \/ Erase(p)
             \/ \E o \in OpNames : Start(p, o)
             \/ \E k \in Ctls : Create(p, k)
      PROVE  astray'
  BY <1>2 DEF Status, Lookup, Fake, FakeReady, Existing, Join, ResetState, Forget, Erase,
     Start, Create, NewRecord
<1>3. ASSUME NEW k \in Ctls,
             \/ FirstSocket(k) \/ RecordCreated(k) \/ Reconnected(k)
             \/ RecordFails(k) \/ ReconnectFails(k)
      PROVE  astray'
  BY <1>3 DEF FirstSocket, RecordCreated, Reconnected, RecordFails, ReconnectFails
<1>4. CASE SocketMoves  BY <1>4 DEF SocketMoves
<1>5. CASE UNCHANGED vars  BY <1>5 DEF vars
<1> QED BY <1>1, <1>2, <1>3, <1>4, <1>5 DEF Next

-----------------------------------------------------------------------------
(* The results.                                                            *)

(* The invariant holds at the start.                                       *)
LEMMA InvInit == Init => Inv
<1> SUFFICES ASSUME Init PROVE Inv
  OBVIOUS
<1>1. TypeOK
  <2>1. 0 \in 0..MaxRec /\ 0 \in 0..MaxFail  BY ServiceAssumption
  <2>2. /\ line \in [Ctls -> {"none", "up", "answering", "down"}] /\ listed \in BOOLEAN
        /\ calls \in [Ctls -> [at : {"none", "making", "made", "failed"},
                               for : Recs \cup {None}, by : Procs \cup {NoProc}]]
    BY DEF Init, LineInit
  <2>3. /\ sessions = 0 /\ creating = 0 /\ made = 0 /\ fails = 0 /\ heard = {}
        /\ reconnecting = NoProc /\ deleted = FALSE /\ astray = FALSE
        /\ ctlOf = [r \in Recs |-> 0]
        /\ pc = [p \in Procs |-> "idle"] /\ op = [p \in Procs |-> "none"]
        /\ held = [p \in Procs |-> 0] /\ waits = [p \in Procs |-> 0]
    BY DEF Init, None
  <2> QED BY <2>1, <2>2, <2>3 DEF TypeOK, None
<1>2. Sound
  BY NoneIsNoCtl DEF Init, Sound, RecordsHeld, SettleLast, InFlight, Locked, Single, HeardIsStored,
     Silence, CreationLocked, ReconnectionLocked, LockHeld
<1> QED BY <1>1, <1>2 DEF Inv

(* The maps, the locks and the calls of whatsappService.js stay consistent *)
(* through every interleaving of requests: a creation has creationLocks    *)
(* and an empty map, a reconnection its own lock and the record in it.     *)
THEOREM Invariant == Spec => []Inv
<1>1. Inv /\ [Next]_vars => Inv'
  <2> SUFFICES ASSUME Inv, [Next]_vars PROVE Inv'
    OBVIOUS
  <2>1. TypeOK'  BY TypesKept DEF Inv, Sound
  <2>2. RecordsHeld' /\ SettleLast'  BY RecordsKept DEF Inv, Sound
  <2>3. astray' \/ Locked'  BY AstrayStays, LockedKept DEF Inv, Sound
  <2> QED BY <2>1, <2>2, <2>3 DEF Inv, Sound
<1> QED BY InvInit, <1>1, PTL DEF Spec

(* Every variable of the registry keeps its type, whatever the requests.   *)
THEOREM Typed == Spec => []TypeOK
<1>1. Inv => TypeOK  BY DEF Inv
<1> QED BY Invariant, <1>1, PTL

(* However requests overlap, unless a deletion crossed them, at most one   *)
(* controller is being made and the registry hears only the one of the     *)
(* record in its map (ensureSessionRecord, reconnectSession).              *)
THEOREM OnlyOneController == Spec => []OneController
<1>1. Inv => OneController
  BY DEF Inv, Sound, Locked, Single, HeardIsStored, OneController
<1> QED BY Invariant, <1>1, PTL

-----------------------------------------------------------------------------
(* The controller.                                                         *)
Steps == Pending \cup Ended

(* Where the handler of each event may be.                                 *)
Allowed(e) ==
  IF e = "connecting" THEN {"none", "queued", "done", "failed"}
  ELSE IF e = "open" THEN {"none", "queued", "opened", "done", "failed"}
  ELSE Steps \ {"queued", "opened", "done"}

-----------------------------------------------------------------------------
(* The invariant.  There is a socket from the first one on.                *)
StageAgrees ==
  /\ stage \in {"auth", "version"} => sock = NoSock
  /\ stage \in {"status", "made"} => sock # NoSock

(* Sockets are made one after the other, and the last is the present one.  *)
OpenedInOrder == \A s \in Socks : life[s] = "none" <=> sock < s

(* A socket's events follow its life.                                      *)
TasksFollow ==
  /\ \A s \in Socks, e \in Kinds : task[s][e] \in Allowed(e)
  /\ \A s \in Socks :
       /\ life[s] = "none" <=> task[s]["connecting"] = "none"
       /\ task[s]["open"] # "none" => life[s] \in {"open", "closed"}
       /\ life[s] = "open" => task[s]["open"] # "none"
       /\ life[s] = "closed" <=> task[s]["close"] # "none"

(* All sockets before the present one have been replaced by their closes,  *)
(* and the flag is up just while the present one's is doing so: no handler *)
(* ever finds it up.                                                       *)
RestartsInTurn ==
  /\ \A s \in Socks : /\ task[s]["close"] # "skipped"
                      /\ task[s]["close"] = "retried" <=> s < sock
  /\ restarting <=> sock # NoSock /\ task[sock]["close"] = "reopen"

NoneFailed == trouble = 0 => \A s \in Socks, e \in Kinds : task[s][e] # "failed"

Structure == StageAgrees /\ OpenedInOrder /\ TasksFollow /\ RestartsInTurn /\ NoneFailed

(* Unless an older handler wrote after a younger one, the row is what the  *)
(* youngest that has written says, or `pending` once keys were saved after *)
(* it, and those that are done have written.                               *)
Word(s, e) ==
  IF e = "open" THEN "connected"
  ELSE IF e = "close" /\ task[s]["close"] = "told" THEN "disconnected" ELSE "pending"

LastWord ==
  newest = 0 \/ \E s \in Socks, e \in Kinds :
                  /\ task[s][e] # "none" /\ newest = Age(s, e)
                  /\ row = IF saved THEN "pending" ELSE Word(s, e)

WritesCounted ==
  \A s \in Socks :
    /\ task[s]["connecting"] = "done" => newest >= Age(s, "connecting")
    /\ task[s]["open"] \in {"opened", "done"} => newest >= Age(s, "open")
    /\ task[s]["close"] = "told" => newest >= Age(s, "close")

Words == late \/ (LastWord /\ WritesCounted)

SocketInv == SocketTypeOK /\ Structure /\ Words

-----------------------------------------------------------------------------
(* Tasks and ages.                                                         *)
LEMMA SocksAre == NoSock \notin Socks /\ Socks \subseteq Nat \ {0} /\ NoSock = 0
BY SocketAssumption DEF Socks, NoSock

TaskBecomes(s, e, v) ==
  /\ task'[s][e] = v
  /\ \A t \in Socks, f \in Kinds : t # s \/ f # e => task'[t][f] = task[t][f]

LEMMA TaskSet ==
  ASSUME SocketTypeOK, NEW s \in Socks, NEW e \in Kinds, NEW v \in Steps,
         task' = [task EXCEPT ![s][e] = v]
  PROVE  task' \in [Socks -> [Kinds -> Steps]] /\ TaskBecomes(s, e, v)
<1>1. task \in [Socks -> [Kinds -> Steps]]  BY DEF SocketTypeOK, Steps
<1>2. task' = [task EXCEPT ![s] = [task[s] EXCEPT ![e] = v]]  BY <1>1
<1>3. [task[s] EXCEPT ![e] = v] \in [Kinds -> Steps]  BY <1>1
<1>4. task' \in [Socks -> [Kinds -> Steps]]  BY <1>1, <1>2, <1>3
<1>5. task'[s] = [task[s] EXCEPT ![e] = v] /\ \A t \in Socks : t # s => task'[t] = task[t]
  BY <1>1, <1>2
<1>6. task[s] \in [Kinds -> Steps]  BY <1>1
<1>7. task'[s][e] = v /\ \A f \in Kinds : f # e => task'[s][f] = task[s][f]  BY <1>5, <1>6
<1> QED BY <1>4, <1>5, <1>7 DEF TaskBecomes

LEMMA AgeType == \A s \in Socks, e \in Kinds : Age(s, e) \in Nat \ {0}
BY SocksAre DEF Age, Kinds

(* Two events of the same age are the same.                                *)
LEMMA AgesDiffer ==
  ASSUME NEW s \in Socks, NEW t \in Socks, NEW e \in Kinds, NEW f \in Kinds
  PROVE  /\ Age(s, e) = Age(t, f) => s = t /\ e = f
         /\ s < t => Age(s, e) < Age(t, f)
<1>1. s \in Nat /\ t \in Nat  BY SocksAre
<1>2. \E i \in {0, 1, 2} : Age(s, e) = 3 * s + i /\ (i = 0 <=> e = "connecting") /\ (i = 1 <=> e = "open")
  BY DEF Age, Kinds
<1>3. \E i \in {0, 1, 2} : Age(t, f) = 3 * t + i /\ (i = 0 <=> f = "connecting") /\ (i = 1 <=> f = "open")
  BY DEF Age, Kinds
<1> QED BY <1>1, <1>2, <1>3 DEF Kinds

LEMMA AgesInLife ==
  ASSUME NEW s \in Socks
  PROVE  Age(s, "connecting") < Age(s, "open") /\ Age(s, "open") < Age(s, "close")
BY SocksAre DEF Age

(* What a write leaves.                                                    *)
LEMMA Written ==
  ASSUME SocketTypeOK, NEW s \in Socks, NEW e \in Kinds, NEW status, setSessionStatus(s, e, status)
  PROVE  /\ row' \in {"pending", "connected", "disconnected"}
         /\ newest' \in Nat /\ late' \in BOOLEAN /\ saved' = FALSE /\ (late => late')
         /\ ~late' => newest' = Age(s, e) /\ newest' >= newest
<1>1. Age(s, e) \in Nat \ {0} /\ newest \in Nat /\ late \in BOOLEAN  BY AgeType DEF SocketTypeOK
<1>2. /\ row' = IF status \in {"connected", "disconnected"} THEN status ELSE "pending"
      /\ late' = (late \/ Age(s, e) < newest)
      /\ newest' = IF late' THEN 0 ELSE Age(s, e)
      /\ saved' = FALSE
  BY DEF setSessionStatus, Wrote
<1>3. late' \in BOOLEAN /\ (late => late')  BY <1>2
<1>4. newest' \in Nat  BY <1>1, <1>2
<1>5. ASSUME ~late' PROVE newest' = Age(s, e) /\ newest' >= newest
  <2>1. ~(Age(s, e) < newest)  BY <1>2, <1>5
  <2> QED BY <1>1, <1>2, <1>5, <2>1
<1> QED BY <1>2, <1>3, <1>4, <1>5

-----------------------------------------------------------------------------
(* The steps keep the types.                                               *)
LEMMA StepsAre ==
  /\ "connecting" \in Kinds /\ "open" \in Kinds /\ "close" \in Kinds
  /\ Reasons \subseteq Steps
  /\ {"none", "queued", "opened", "done", "failed", "unheard", "retry", "reset", "tell", "told",
      "restart", "reopen", "retried", "skipped"} \subseteq Steps
BY DEF Kinds, Steps, Pending, Ended, Reasons

(* The handlers move one task.                                             *)
LEMMA TaskTyped ==
  ASSUME SocketTypeOK, NEW s \in Socks, NEW e \in Kinds, NEW v \in Steps, Goto(s, e, v)
  PROVE  task' \in [Socks -> [Kinds -> Steps]] /\ TaskBecomes(s, e, v)
BY TaskSet DEF Goto

LEMMA HappensTyped ==
  ASSUME SocketTypeOK, Happens
  PROVE  trouble' \in 0..MaxTrouble /\ trouble' # 0
BY SocketAssumption DEF SocketTypeOK, Happens

LEMMA ReportIs ==
  ASSUME SocketTypeOK, NEW s \in Socks, NEW e \in Kinds, NEW first \in Steps, Report(s, e, first)
  PROVE  /\ \E v \in {first, "failed"} :
              TaskBecomes(s, e, v) /\ (v = "failed" /\ v # first => trouble' # 0)
         /\ trouble' \in 0..MaxTrouble
         /\ trouble' = 0 => trouble = 0
         /\ task' \in [Socks -> [Kinds -> Steps]]
<1>1. CASE task' = [task EXCEPT ![s][e] = first] /\ UNCHANGED trouble
  <2>1. task' \in [Socks -> [Kinds -> Steps]] /\ TaskBecomes(s, e, first)  BY <1>1, TaskSet
  <2> QED BY <1>1, <2>1 DEF SocketTypeOK
<1>2. CASE task' = [task EXCEPT ![s][e] = "failed"] /\ Happens
  <2>1. task' \in [Socks -> [Kinds -> Steps]] /\ TaskBecomes(s, e, "failed")
    BY <1>2, TaskSet, StepsAre
  <2> QED BY <1>2, <2>1, HappensTyped
<1> QED BY <1>1, <1>2 DEF Report

(* A new socket: the present one from now on.                              *)
LEMMA SocketMade ==
  ASSUME SocketTypeOK, NEW n \in Socks, createSocketInstance(n)
  PROVE  sock' = n /\ life' \in [Socks -> Live \cup {"none", "closed"}]
BY DEF createSocketInstance, SocketTypeOK, Live

LEMMA SocketTypesKept ==
  ASSUME SocketTypeOK, Structure, [SocketNext]_socketVars
  PROVE  SocketTypeOK'
<1>1. CASE LoadAuth  BY <1>1 DEF LoadAuth, SocketTypeOK, history
<1>2. CASE Created
  <2>1. setSessionStatus(1, "connecting", "connecting") /\ 1 \in Socks
    BY <1>2, SocketAssumption DEF Created, Socks
  <2>2. row' \in {"pending", "connected", "disconnected"} /\ newest' \in Nat /\ late' \in BOOLEAN
       /\ saved' = FALSE
    BY StepsAre, <2>1, Written
  <2> QED BY <1>2, <2>2 DEF Created, SocketTypeOK
<1>3. CASE CreationFails
  BY <1>3, HappensTyped DEF CreationFails, SocketTypeOK, history
<1>4. CASE EndSocket
  <2>1. sock \in Socks  BY <1>4 DEF EndSocket, SocketTypeOK, Structure, StageAgrees
  <2>2. PICK first \in {"unheard", "other"} : task' = [task EXCEPT ![sock]["close"] = first]
    BY <1>4 DEF EndSocket
  <2>3. first \in Steps  BY StepsAre DEF Reasons
  <2>4. task' \in [Socks -> [Kinds -> Steps]]  BY <2>1, <2>2, <2>3, StepsAre, TaskSet
  <2> QED BY <1>4, <2>1, <2>4 DEF EndSocket, SocketTypeOK, callVars, history, Steps
<1>5. ASSUME NEW s \in Socks, MakeFirst(s) PROVE SocketTypeOK'
  <2>1. sock' = s /\ life' \in [Socks -> Live \cup {"none", "closed"}]  BY <1>5, SocketMade DEF MakeFirst
  <2>2. task' \in [Socks -> [Kinds -> Steps]]  BY <1>5, TaskSet, StepsAre DEF MakeFirst
  <2> QED BY <1>5, <2>1, <2>2 DEF MakeFirst, SocketTypeOK, history, Steps
<1>6. ASSUME NEW s \in Socks, Opens(s) PROVE SocketTypeOK'
  <2>1. task' \in [Socks -> [Kinds -> Steps]] /\ trouble' \in 0..MaxTrouble
    BY <1>6, ReportIs, StepsAre DEF Opens
  <2> QED BY <1>6, <2>1 DEF Opens, SocketTypeOK, callVars, history, Steps, Live
<1>7. ASSUME NEW s \in Socks, Closes(s) PROVE SocketTypeOK'
  <2>1. task' \in [Socks -> [Kinds -> Steps]] /\ trouble' \in 0..MaxTrouble
    BY <1>7, ReportIs, StepsAre DEF Closes
  <2> QED BY <1>7, <2>1 DEF Closes, SocketTypeOK, callVars, history, Steps, Live
<1>8. ASSUME NEW s \in Socks, NEW e \in Kinds, NEW status, NEW v \in Steps,
             setSessionStatus(s, e, status), Goto(s, e, v), UNCHANGED <<callVars, life, trouble>>
      PROVE  SocketTypeOK'
  <2>1. row' \in {"pending", "connected", "disconnected"} /\ newest' \in Nat /\ late' \in BOOLEAN
       /\ saved' = FALSE
    BY <1>8, Written
  <2>2. task' \in [Socks -> [Kinds -> Steps]]  BY <1>8, TaskTyped
  <2> QED BY <1>8, <2>1, <2>2 DEF SocketTypeOK, callVars, Steps
<1>9. ASSUME NEW s \in Socks, OnConnecting(s) PROVE SocketTypeOK'
  BY <1>8, <1>9, StepsAre DEF OnConnecting
<1>10. ASSUME NEW s \in Socks, OnOpen(s) PROVE SocketTypeOK'
  BY <1>8, <1>10, StepsAre DEF OnOpen
<1>11. ASSUME NEW s \in Socks, Announce(s) PROVE SocketTypeOK'
  BY <1>8, <1>11, StepsAre DEF Announce
<1>12. ASSUME NEW s \in Socks, Abandon(s) PROVE SocketTypeOK'
  BY <1>8, <1>12, StepsAre DEF Abandon
<1>13. ASSUME NEW s \in Socks, Forgive(s) PROVE SocketTypeOK'
  <2>1. task' \in [Socks -> [Kinds -> Steps]]  BY <1>13, TaskTyped, StepsAre DEF Forgive
  <2> QED BY <1>13, <2>1 DEF Forgive, SocketTypeOK, history, Steps
<1>14. ASSUME NEW s \in Socks, OnClose(s) PROVE SocketTypeOK'
  <2>1. PICK reason \in Reasons :
          /\ Goto(s, "close", Response(reason, reconnectAttempts))
          /\ \/ reconnectAttempts' = reconnectAttempts + 1
             \/ reconnectAttempts' = reconnectAttempts + 0
    BY <1>14 DEF OnClose
  <2>2. Response(reason, reconnectAttempts) \in Steps  BY StepsAre DEF Response
  <2>3. task' \in [Socks -> [Kinds -> Steps]]  BY <2>1, <2>2, TaskTyped, StepsAre
  <2>4. reconnectAttempts' \in Nat  BY <2>1 DEF SocketTypeOK
  <2> QED BY <1>14, <2>3, <2>4 DEF OnClose, SocketTypeOK, history, Steps
<1>15. ASSUME NEW s \in Socks, Restart(s) PROVE SocketTypeOK'
  <2>1. task' \in [Socks -> [Kinds -> Steps]]  BY <1>15, TaskTyped, StepsAre DEF Restart
  <2> QED BY <1>15, <2>1 DEF Restart, SocketTypeOK, history, Steps
<1>16. ASSUME NEW s \in Socks, Reopen(s) PROVE SocketTypeOK'
  <2>1. row' \in {"pending", "connected", "disconnected"} /\ newest' \in Nat /\ late' \in BOOLEAN
       /\ saved' = FALSE
    BY <1>16, Written, StepsAre DEF Reopen
  <2>2. PICK n \in Socks :
          /\ createSocketInstance(n)
          /\ task' = [task EXCEPT ![n]["connecting"] = "queued", ![s]["close"] = "retried"]
    BY <1>16 DEF Reopen
  <2>3. sock' = n /\ life' \in [Socks -> Live \cup {"none", "closed"}]  BY <2>2, SocketMade
  <2>4. task' \in [Socks -> [Kinds -> Steps]]  BY <2>2, StepsAre DEF SocketTypeOK, Steps
  <2>5. reconnectAttempts' \in Nat  BY <1>16 DEF Reopen, SocketTypeOK
  <2> QED BY <1>16, <2>1, <2>3, <2>4, <2>5 DEF Reopen, SocketTypeOK, Steps
<1>17. ASSUME NEW s \in Socks, HandlerFails(s) PROVE SocketTypeOK'
  <2>1. PICK e \in Kinds, v \in {"failed", "restart"} : Goto(s, e, v)
    BY <1>17, StepsAre DEF HandlerFails
  <2>2. task' \in [Socks -> [Kinds -> Steps]]  BY <2>1, TaskTyped, StepsAre
  <2>3. trouble' \in 0..MaxTrouble  BY <1>17, HappensTyped DEF HandlerFails
  <2>4. restarting' \in BOOLEAN  BY <1>17 DEF HandlerFails, SocketTypeOK
  <2> QED BY <1>17, <2>2, <2>3, <2>4 DEF HandlerFails, SocketTypeOK, history, Steps
<1>18. CASE persistState  BY <1>18 DEF persistState, SocketTypeOK, callVars
<1>19. CASE UNCHANGED socketVars
  BY <1>19 DEF SocketTypeOK, socketVars, callVars, history
<1> QED BY <1>1, <1>2, <1>3, <1>4, <1>5, <1>6, <1>7, <1>9, <1>10, <1>11, <1>12, <1>13, <1>14,
           <1>15, <1>16, <1>17, <1>18, <1>19 DEF SocketNext, Handler

-----------------------------------------------------------------------------
(* The steps keep the structure.                                           *)

(* Only the close of the present socket is being answered.                 *)
LEMMA Present ==
  ASSUME SocketTypeOK, Structure, NEW s \in Socks, task[s]["close"] \notin {"none", "retried"}
  PROVE  s = sock /\ life[s] = "closed" /\ (restarting <=> task[s]["close"] = "reopen")
<1>1. life[s] = "closed"  BY DEF Structure, TasksFollow
<1>2. ~(sock < s) /\ ~(s < sock)  BY <1>1 DEF Structure, OpenedInOrder, RestartsInTurn
<1>3. s \in Nat /\ sock \in Nat  BY SocksAre DEF SocketTypeOK
<1>4. s = sock  BY <1>2, <1>3
<1> QED BY <1>1, <1>4, SocksAre DEF Structure, RestartsInTurn

LEMMA TaskMoves ==
  ASSUME SocketTypeOK, Structure, NEW s \in Socks, NEW e \in Kinds,
         NEW v \in Allowed(e) \ {"none", "retried", "skipped"},
         task[s][e] # "none", e = "close" => task[s][e] # "retried",
         TaskBecomes(s, e, v), UNCHANGED <<stage, sock, life>>,
         e = "close" => (restarting' <=> v = "reopen"), e # "close" => restarting' = restarting,
         v = "failed" => trouble' # 0, trouble' = 0 => trouble = 0
  PROVE  Structure'
<1>1. v \in Steps  BY DEF Allowed, Steps, Pending, Ended
<1>2. /\ task'[s][e] = v
      /\ \A t \in Socks, f \in Kinds : t # s \/ f # e => task'[t][f] = task[t][f]
  BY DEF TaskBecomes
<1>3. StageAgrees' /\ OpenedInOrder'  BY DEF Structure, StageAgrees, OpenedInOrder
<1>4. TasksFollow'
  <2>1. \A t \in Socks, f \in Kinds : task'[t][f] \in Allowed(f)
    BY <1>2 DEF Structure, TasksFollow
  <2>2. \A t \in Socks, f \in Kinds : task'[t][f] # "none" <=> task[t][f] # "none"
    BY <1>2
  <2> QED BY <2>1, <2>2, StepsAre DEF Structure, TasksFollow
<1>5. RestartsInTurn'
  <2>1. \A t \in Socks : /\ task'[t]["close"] # "skipped"
                         /\ task'[t]["close"] = "retried" <=> t < sock
    <3>1. CASE e = "close"
      <4>1. s = sock  BY <3>1, Present
      <4>2. ~(s < sock)  BY <4>1, SocksAre
      <4> QED BY <1>2, <3>1, <4>2, StepsAre DEF Structure, RestartsInTurn
    <3>2. CASE e # "close"  BY <1>2, <3>2, StepsAre DEF Structure, RestartsInTurn
    <3> QED BY <3>1, <3>2
  <2>2. restarting' <=> sock # NoSock /\ task'[sock]["close"] = "reopen"
    <3>1. CASE e = "close"
      <4>1. s = sock /\ sock # NoSock  BY <3>1, Present, SocksAre
      <4>2. restarting' <=> v = "reopen"  BY <3>1
      <4> QED BY <1>2, <3>1, <4>1, <4>2
    <3>2. CASE e # "close"
      <4>1. sock # NoSock => sock \in Socks  BY DEF SocketTypeOK
      <4>2. restarting' = restarting  BY <3>2
      <4> QED BY <1>2, <3>2, <4>1, <4>2, StepsAre DEF Structure, RestartsInTurn
    <3> QED BY <3>1, <3>2
  <2> QED BY <2>1, <2>2 DEF RestartsInTurn
<1>6. NoneFailed'  BY <1>2 DEF Structure, NoneFailed
<1> QED BY <1>3, <1>4, <1>5, <1>6 DEF Structure

(* A live socket is the present one.                                       *)
LEMMA LiveIsPresent ==
  ASSUME SocketTypeOK, Structure, NEW s \in Socks, life[s] \in Live
  PROVE  s = sock /\ task[s]["close"] = "none" /\ task[s]["connecting"] # "none"
<1>1. task[s]["close"] = "none" /\ life[s] # "none"  BY DEF Structure, TasksFollow, Live
<1>2. ~(sock < s) /\ ~(s < sock)  BY <1>1 DEF Structure, OpenedInOrder, RestartsInTurn
<1>3. s \in Nat /\ sock \in Nat  BY SocksAre DEF SocketTypeOK
<1> QED BY <1>1, <1>2, <1>3 DEF Structure, TasksFollow

(* It opens, or it closes, and the event is reported or dropped.           *)
LEMMA LifeMoves ==
  ASSUME SocketTypeOK, Structure, NEW s \in Socks, NEW e \in {"open", "close"},
         e = "open" => life[s] = "connecting", e = "close" => life[s] \in Live,
         NEW v \in Allowed(e) \ {"none", "retried", "skipped", "reopen"},
         TaskBecomes(s, e, v),
         life' = [life EXCEPT ![s] = IF e = "open" THEN "open" ELSE "closed"],
         UNCHANGED <<stage, sock, restarting>>,
         v = "failed" => trouble' # 0, trouble' = 0 => trouble = 0
  PROVE  Structure'
<1>1. v \in Steps /\ e \in Kinds  BY DEF Allowed, Steps, Pending, Ended, Kinds
<1>2. /\ task'[s][e] = v
      /\ \A t \in Socks, f \in Kinds : t # s \/ f # e => task'[t][f] = task[t][f]
  BY DEF TaskBecomes
<1>3. /\ life'[s] = IF e = "open" THEN "open" ELSE "closed"
      /\ \A t \in Socks : t # s => life'[t] = life[t]
  BY DEF SocketTypeOK
<1>4. s = sock /\ task[s]["close"] = "none" /\ task[s]["connecting"] # "none" /\ life[s] \in Live
  BY LiveIsPresent DEF Live
<1>5. StageAgrees' /\ OpenedInOrder'
  BY <1>3, <1>4 DEF Structure, StageAgrees, OpenedInOrder, Live
<1>6. TasksFollow'
  <2>1. \A t \in Socks, f \in Kinds : task'[t][f] \in Allowed(f)
    BY <1>2 DEF Structure, TasksFollow
  <2>2. CASE e = "open"
    BY <1>2, <1>3, <1>4, <2>1, <2>2, StepsAre DEF Structure, TasksFollow
  <2>3. CASE e = "close"
    BY <1>2, <1>3, <1>4, <2>1, <2>3, StepsAre DEF Structure, TasksFollow, Live
  <2> QED BY <2>2, <2>3
<1>7. RestartsInTurn'
  <2>1. ~(s < sock) /\ sock # NoSock  BY <1>4, SocksAre
  <2>2. task'[s]["close"] \notin {"retried", "skipped", "reopen"}  BY <1>1, <1>2, <1>4, StepsAre
  <2>3. \A t \in Socks : t # s => task'[t]["close"] = task[t]["close"]  BY <1>2, StepsAre
  <2>4. ~restarting  BY <1>4, <2>1 DEF Structure, RestartsInTurn
  <2> QED BY <1>4, <2>1, <2>2, <2>3, <2>4 DEF Structure, RestartsInTurn
<1>8. NoneFailed'  BY <1>2 DEF Structure, NoneFailed
<1> QED BY <1>5, <1>6, <1>7, <1>8 DEF Structure

(* The next socket is made, by the call or in place of a closed one.       *)
LEMMA NextMade ==
  ASSUME SocketTypeOK, Structure, NEW n \in Socks, createSocketInstance(n)
  PROVE  /\ sock' = n /\ sock < n /\ \A t \in Socks : t < n <=> life[t] # "none"
         /\ \A t \in Socks : t < n => t <= sock
         /\ \A e \in Kinds : task[n][e] = "none"
         /\ life'[n] = "connecting" /\ \A t \in Socks : t # n => life'[t] = life[t]
<1>1. /\ life[n] = "none" /\ \A t \in Socks : t < n => life[t] # "none"
      /\ life' = [life EXCEPT ![n] = "connecting"] /\ sock' = n
  BY DEF createSocketInstance
<1>2. sock < n /\ \A t \in Socks : t < n => ~(sock < t)
  BY <1>1 DEF Structure, OpenedInOrder
<1>3. sock \in Nat /\ n \in Nat /\ \A t \in Socks : t \in Nat  BY SocksAre DEF SocketTypeOK
<1>4. \A t \in Socks : life[t] # "none" => t < n
  BY <1>2, <1>3 DEF Structure, OpenedInOrder
<1>5. \A e \in Kinds : task[n][e] = "none"
  BY <1>1, StepsAre DEF Structure, TasksFollow, Kinds
<1> QED BY <1>1, <1>2, <1>3, <1>4, <1>5 DEF SocketTypeOK

LEMMA StructureOfNext ==
  ASSUME SocketTypeOK, Structure, NEW n \in Socks, createSocketInstance(n),
         task'[n]["connecting"] = "queued",
         \A e \in Kinds : e # "connecting" => task'[n][e] = "none",
         sock # NoSock => /\ life[sock] = "closed" /\ task'[sock]["close"] = "retried"
                          /\ \A e \in Kinds : e # "close" => task'[sock][e] = task[sock][e],
         \A t \in Socks : t \notin {n, sock} => task'[t] = task[t],
         restarting' = FALSE, stage' \notin {"auth", "version"}, trouble' = trouble
  PROVE  Structure'
<1>1. /\ sock' = n /\ sock < n /\ \A t \in Socks : t < n <=> life[t] # "none"
      /\ \A t \in Socks : t < n => t <= sock
      /\ \A e \in Kinds : task[n][e] = "none"
      /\ life'[n] = "connecting" /\ \A t \in Socks : t # n => life'[t] = life[t]
  BY NextMade
<1>2. sock \in Nat /\ n \in Nat /\ \A t \in Socks : t \in Nat \ {0}
  <2>1. sock \in Socks \cup {NoSock}  BY DEF SocketTypeOK
  <2> QED BY <2>1, SocksAre
<1>3. sock # NoSock => sock \in Socks  BY DEF SocketTypeOK
<1>4. StageAgrees'  BY <1>1, SocksAre DEF StageAgrees
<1>5. OpenedInOrder'
  <2>1. \A t \in Socks : t # n => (life[t] = "none" <=> n < t)
    BY <1>1, <1>2
  <2> QED BY <1>1, <1>2, <2>1 DEF OpenedInOrder
<1>6. TasksFollow'
  <2>1. "retried" \in Allowed("close") /\ "queued" \in Allowed("connecting")
        /\ \A e \in Kinds : "none" \in Allowed(e)
    BY DEF Allowed, Steps, Pending, Ended
  <2>2. \A t \in Socks : t # n => \A e \in Kinds : task'[t][e] \in Allowed(e)
    <3> SUFFICES ASSUME NEW t \in Socks, t # n, NEW e \in Kinds PROVE task'[t][e] \in Allowed(e)
      OBVIOUS
    <3>1. task[t][e] \in Allowed(e)  BY DEF Structure, TasksFollow
    <3>2. CASE t = sock /\ e = "close"  BY <2>1, <3>2, SocksAre
    <3>3. CASE t = sock /\ e # "close"  BY <3>1, <3>3, SocksAre
    <3>4. CASE t # sock  BY <3>1, <3>4
    <3> QED BY <3>2, <3>3, <3>4
  <2>3. \A e \in Kinds : task'[n][e] \in Allowed(e)  BY <2>1, StepsAre
  <2>4. \A t \in Socks : t \notin {n, sock} =>
          /\ life'[t] = "none" <=> task'[t]["connecting"] = "none"
          /\ task'[t]["open"] # "none" => life'[t] \in {"open", "closed"}
          /\ life'[t] = "open" => task'[t]["open"] # "none"
          /\ life'[t] = "closed" <=> task'[t]["close"] # "none"
    BY <1>1 DEF Structure, TasksFollow
  <2>5. ASSUME sock # NoSock
        PROVE  /\ life'[sock] = "closed" /\ task'[sock]["connecting"] # "none"
               /\ task'[sock]["close"] # "none"
    BY <1>1, <1>2, <1>3, <2>5, StepsAre DEF Structure, TasksFollow
  <2>6. life'[n] = "connecting" /\ task'[n]["connecting"] # "none"
        /\ task'[n]["open"] = "none" /\ task'[n]["close"] = "none"
    BY <1>1, StepsAre
  <2>7. \A t \in Socks, e \in Kinds : task'[t][e] \in Allowed(e)  BY <2>2, <2>3
  <2> QED BY <2>4, <2>5, <2>6, <2>7, SocksAre DEF TasksFollow
<1>7. RestartsInTurn'
  <2>1. \A t \in Socks : t \notin {n, sock} =>
          task'[t]["close"] # "skipped" /\ (task'[t]["close"] = "retried" <=> t < n)
    <3>1. \A t \in Socks : t \notin {n, sock} => (t < n <=> t < sock)
      <4> SUFFICES ASSUME NEW t \in Socks, t # sock PROVE t < n <=> t < sock
        OBVIOUS
      <4>1. t < n => t <= sock  BY <1>1
      <4>2. sock < n /\ t \in Nat /\ sock \in Nat /\ n \in Nat  BY <1>1, <1>2
      <4> QED BY <4>1, <4>2
    <3> QED BY <3>1 DEF Structure, RestartsInTurn
  <2>2. task'[n]["close"] = "none" /\ ~(n < n)  BY <1>2, StepsAre
  <2>3. \A t \in Socks : task'[t]["close"] # "skipped" /\ (task'[t]["close"] = "retried" <=> t < n)
    BY <1>1, <1>2, <2>1, <2>2, SocksAre
  <2> QED BY <1>1, <2>2, <2>3 DEF RestartsInTurn
<1>8. NoneFailed'
  <2> SUFFICES ASSUME trouble' = 0, NEW t \in Socks, NEW e \in Kinds PROVE task'[t][e] # "failed"
    BY DEF NoneFailed
  <2>1. task[t][e] # "failed"  BY DEF Structure, NoneFailed
  <2>2. CASE t = n  BY <2>2, StepsAre
  <2>3. CASE t = sock /\ t # n  BY <2>1, <2>3, SocksAre
  <2>4. CASE t \notin {n, sock}  BY <2>1, <2>4
  <2> QED BY <2>2, <2>3, <2>4
<1> QED BY <1>4, <1>5, <1>6, <1>7, <1>8 DEF Structure

LEMMA AllowedAre ==
  /\ {"done", "failed"} \subseteq Allowed("connecting")
  /\ {"queued", "opened", "done", "failed"} \subseteq Allowed("open")
  /\ {"retry", "reset", "tell", "restart", "reopen", "told", "failed", "unheard"} \subseteq Allowed("close")
  /\ Reasons \subseteq Allowed("close")
  /\ Reasons \cap {"none", "retried", "skipped", "reopen", "failed", "unheard"} = {}
BY DEF Allowed, Steps, Pending, Ended, Reasons

(* What a failing handler leaves.                                          *)
LEMMA FailureIs ==
  ASSUME SocketTypeOK, Structure, NEW s \in Socks, HandlerFails(s)
  PROVE  \E e \in Kinds, v \in {"failed", "restart"} :
           /\ Goto(s, e, v) /\ task[s][e] # "none" /\ (e = "close" => task[s][e] # "retried")
           /\ (v = "restart" => e = "close")
           /\ (e = "close" => restarting' = FALSE) /\ (e # "close" => restarting' = restarting)
<1>1. CASE /\ \E e \in {"connecting", "open"} : At(s, e, "queued") /\ Goto(s, e, "failed")
           /\ UNCHANGED restarting
  BY <1>1, StepsAre DEF At
<1>2. CASE (At(s, "close", "retry") \/ At(s, "close", "tell")) /\ Goto(s, "close", "failed")
           /\ UNCHANGED restarting
  BY <1>2, StepsAre, Present DEF At, SocketTypeOK
<1>3. CASE At(s, "close", "reset") /\ Goto(s, "close", "restart") /\ UNCHANGED restarting
  BY <1>3, StepsAre, Present DEF At, SocketTypeOK
<1>4. CASE At(s, "close", "reopen") /\ Goto(s, "close", "failed") /\ restarting' = FALSE
  BY <1>4, StepsAre DEF At
<1> QED BY <1>1, <1>2, <1>3, <1>4 DEF HandlerFails

LEMMA StructureKept ==
  ASSUME SocketTypeOK, Structure, [SocketNext]_socketVars
  PROVE  Structure'
<1>1. ASSUME UNCHANGED <<sock, restarting, life, task, trouble>>, UNCHANGED stage \/
             <<stage, stage'>> \in {<<"auth", "version">>, <<"status", "made">>}
      PROVE  Structure'
  BY <1>1 DEF Structure, StageAgrees, OpenedInOrder, TasksFollow, RestartsInTurn, NoneFailed
<1>2. CASE LoadAuth  BY <1>1, <1>2 DEF LoadAuth
<1>3. CASE Created  BY <1>1, <1>3 DEF Created
<1>4. CASE CreationFails
  <2>1. trouble' # 0  BY <1>4, HappensTyped DEF CreationFails
  <2> QED BY <1>4, <2>1
      DEF CreationFails, Structure, StageAgrees, OpenedInOrder, TasksFollow, RestartsInTurn, NoneFailed
<1>5. CASE EndSocket
  <2>1. sock \in Socks  BY <1>5 DEF EndSocket, SocketTypeOK, Structure, StageAgrees
  <2>2. PICK first \in {"unheard", "other"} : task' = [task EXCEPT ![sock]["close"] = first]
    BY <1>5 DEF EndSocket
  <2>3. PICK s \in Socks : s = sock  BY <2>1
  <2>4. first \in Steps /\ first \in Allowed("close")  BY StepsAre, AllowedAre DEF Reasons
  <2>5. TaskBecomes(s, "close", first)  BY <2>2, <2>3, <2>4, StepsAre, TaskSet
  <2>6. /\ life[s] \in Live /\ life' = [life EXCEPT ![s] = "closed"]
        /\ UNCHANGED <<stage, sock, restarting, trouble>>
    BY <1>5, <2>3 DEF EndSocket, callVars
  <2> QED BY <2>4, <2>5, <2>6, LifeMoves
<1>6. ASSUME NEW s \in Socks, MakeFirst(s) PROVE Structure'
  <2>1. TaskBecomes(s, "connecting", "queued")  BY <1>6, StepsAre, TaskSet DEF MakeFirst
  <2>2. \A e \in Kinds : task[s][e] = "none"  BY <1>6, NextMade DEF MakeFirst
  <2>3. \A e \in Kinds : e # "connecting" => task'[s][e] = "none"  BY <2>1, <2>2 DEF TaskBecomes
  <2>4. sock = NoSock /\ restarting = FALSE
    BY <1>6 DEF MakeFirst, SocketTypeOK, Structure, StageAgrees, RestartsInTurn
  <2>5. \A t \in Socks : t # s => task'[t] = task[t]
    BY <1>6 DEF MakeFirst, SocketTypeOK
  <2>6. stage' = "status" /\ trouble' = trouble /\ restarting' = FALSE /\ createSocketInstance(s)
    BY <1>6, <2>4 DEF MakeFirst
  <2> QED BY <2>1, <2>3, <2>4, <2>5, <2>6, StepsAre, StructureOfNext DEF TaskBecomes
<1>7. ASSUME NEW s \in Socks, Opens(s) PROVE Structure'
  <2>1. PICK v \in {"queued", "failed"} : TaskBecomes(s, "open", v) /\ (v = "failed" => trouble' # 0)
    BY <1>7, ReportIs, StepsAre DEF Opens
  <2>2. trouble' = 0 => trouble = 0  BY <1>7, ReportIs, StepsAre DEF Opens
  <2>3. v \in Allowed("open")  BY AllowedAre
  <2> QED BY <1>7, <2>1, <2>2, <2>3, LifeMoves DEF Opens, callVars
<1>8. ASSUME NEW s \in Socks, Closes(s) PROVE Structure'
  <2>1. PICK reason \in Reasons : Report(s, "close", reason)  BY <1>8 DEF Closes
  <2>2. reason \in Steps /\ reason # "failed"  BY StepsAre, AllowedAre
  <2>3. PICK v \in {reason, "failed"} : TaskBecomes(s, "close", v) /\ (v = "failed" => trouble' # 0)
    BY <2>1, <2>2, ReportIs, StepsAre
  <2>4. trouble' = 0 => trouble = 0  BY <2>1, <2>2, ReportIs, StepsAre
  <2>5. v \in Allowed("close") \ {"none", "retried", "skipped", "reopen"}  BY AllowedAre
  <2> QED BY <1>8, <2>3, <2>4, <2>5, LifeMoves DEF Closes, callVars
<1>9. ASSUME NEW s \in Socks, NEW e \in {"connecting", "open"}, NEW v \in {"opened", "done"},
             v \in Allowed(e), task[s][e] # "none", Goto(s, e, v),
             UNCHANGED <<stage, sock, restarting, life, trouble>>
      PROVE  Structure'
  <2>1. TaskBecomes(s, e, v)  BY <1>9, TaskTyped, StepsAre
  <2> QED BY <1>9, <2>1, StepsAre, TaskMoves
<1>10. ASSUME NEW s \in Socks, OnConnecting(s) PROVE Structure'
  BY <1>9, <1>10, AllowedAre DEF OnConnecting, At, callVars
<1>11. ASSUME NEW s \in Socks, OnOpen(s) PROVE Structure'
  BY <1>9, <1>11, AllowedAre DEF OnOpen, At, callVars
<1>12. ASSUME NEW s \in Socks, Forgive(s) PROVE Structure'
  BY <1>9, <1>12, AllowedAre DEF Forgive, At
<1>13. ASSUME NEW s \in Socks, NEW v \in {"retry", "reset", "tell", "restart", "told"},
             task[s]["close"] \notin {"none", "retried", "reopen"}, Goto(s, "close", v),
             UNCHANGED <<stage, sock, restarting, life, trouble>>
      PROVE  Structure'
  <2>1. TaskBecomes(s, "close", v)  BY <1>13, TaskTyped, StepsAre
  <2>2. v \in Allowed("close")  BY AllowedAre
  <2>3. restarting' <=> v = "reopen"  BY <1>13, Present
  <2> QED BY <1>13, <2>1, <2>2, <2>3, StepsAre, TaskMoves
<1>14. ASSUME NEW s \in Socks, OnClose(s) PROVE Structure'
  <2>1. PICK reason \in Reasons :
          At(s, "close", reason) /\ Goto(s, "close", Response(reason, reconnectAttempts))
    BY <1>14 DEF OnClose
  <2>2. PICK v \in {"retry", "reset", "tell"} : v = Response(reason, reconnectAttempts)
    BY DEF Response
  <2>3. task[s]["close"] \notin {"none", "retried", "reopen"}  BY <2>1, AllowedAre DEF At
  <2> QED BY <1>13, <1>14, <2>1, <2>2, <2>3 DEF OnClose
<1>15. ASSUME NEW s \in Socks, Announce(s) PROVE Structure'
  BY <1>13, <1>15 DEF Announce, At, callVars
<1>16. ASSUME NEW s \in Socks, Abandon(s) PROVE Structure'
  BY <1>13, <1>16 DEF Abandon, At, callVars
<1>17. ASSUME NEW s \in Socks, Restart(s) PROVE Structure'
  <2>1. task[s]["close"] = "restart" /\ ~restarting
    BY <1>17, Present DEF Restart, At
  <2>2. Goto(s, "close", "reopen") /\ restarting' = TRUE
    BY <1>17, <2>1 DEF Restart
  <2>3. TaskBecomes(s, "close", "reopen")  BY <2>2, TaskTyped, StepsAre
  <2>4. "reopen" \in Allowed("close") \ {"none", "retried", "skipped"}  BY AllowedAre
  <2>5. UNCHANGED <<stage, sock, life, trouble>>  BY <1>17 DEF Restart
  <2> QED BY <2>1, <2>2, <2>3, <2>4, <2>5, StepsAre, TaskMoves
<1>18. ASSUME NEW s \in Socks, Reopen(s) PROVE Structure'
  <2>1. PICK n \in Socks :
          /\ createSocketInstance(n)
          /\ task' = [task EXCEPT ![n]["connecting"] = "queued", ![s]["close"] = "retried"]
    BY <1>18 DEF Reopen
  <2>2. s = sock /\ life[s] = "closed"  BY <1>18, Present DEF Reopen, At
  <2>3. n # s  BY <2>1, <2>2 DEF createSocketInstance
  <2>4. task \in [Socks -> [Kinds -> Steps]]  BY DEF SocketTypeOK, Steps
  <2>5. \A t \in Socks : task[t] \in [Kinds -> Steps]  BY <2>4
  <2>6. /\ task'[n] = [task[n] EXCEPT !["connecting"] = "queued"]
        /\ task'[s] = [task[s] EXCEPT !["close"] = "retried"]
        /\ \A t \in Socks : t \notin {n, s} => task'[t] = task[t]
    BY <2>1, <2>3, <2>4
  <2>7. \A e \in Kinds : task[n][e] = "none"  BY <2>1, NextMade
  <2>8. task'[n]["connecting"] = "queued" /\ \A e \in Kinds : e # "connecting" => task'[n][e] = "none"
    BY <2>5, <2>6, <2>7, StepsAre
  <2>9. task'[s]["close"] = "retried" /\ \A e \in Kinds : e # "close" => task'[s][e] = task[s][e]
    BY <2>5, <2>6, StepsAre
  <2>10. stage' \notin {"auth", "version"} /\ restarting' = FALSE /\ trouble' = trouble
    BY <1>18, <2>2, SocksAre DEF Reopen, Structure, StageAgrees
  <2>11. /\ life[sock] = "closed" /\ task'[sock]["close"] = "retried"
         /\ \A e \in Kinds : e # "close" => task'[sock][e] = task[sock][e]
    BY <2>2, <2>9
  <2>12. \A t \in Socks : t \notin {n, sock} => task'[t] = task[t]  BY <2>2, <2>6
  <2> QED BY <2>1, <2>8, <2>10, <2>11, <2>12, StructureOfNext
<1>19. ASSUME NEW s \in Socks, HandlerFails(s) PROVE Structure'
  <2>1. PICK e \in Kinds, v \in {"failed", "restart"} :
           /\ Goto(s, e, v) /\ task[s][e] # "none" /\ (e = "close" => task[s][e] # "retried")
           /\ (v = "restart" => e = "close")
           /\ (e = "close" => restarting' = FALSE) /\ (e # "close" => restarting' = restarting)
    BY <1>19, FailureIs
  <2>2. TaskBecomes(s, e, v)  BY <2>1, TaskTyped, StepsAre
  <2>3. v \in Allowed(e) \ {"none", "retried", "skipped"}
    <3>1. e \in {"connecting", "open", "close"}  BY DEF Kinds
    <3> QED BY <2>1, <3>1, AllowedAre
  <2>4. trouble' # 0 /\ UNCHANGED <<stage, sock, life>>  BY <1>19, HappensTyped DEF HandlerFails
  <2>5. e = "close" => (restarting' <=> v = "reopen")  BY <2>1
  <2> QED BY <2>1, <2>2, <2>3, <2>4, <2>5, TaskMoves
<1>20. CASE persistState \/ UNCHANGED socketVars
  BY <1>1, <1>20 DEF persistState, socketVars, callVars
<1> QED BY <1>2, <1>3, <1>4, <1>5, <1>6, <1>7, <1>8, <1>10, <1>11, <1>12, <1>14, <1>15, <1>16,
           <1>17, <1>18, <1>19, <1>20 DEF SocketNext, Handler

-----------------------------------------------------------------------------
(* The steps keep the words.                                               *)

(* A handler is done, as far as the row goes.                              *)
HasWritten(s, e) ==
  task[s][e] \in (IF e = "connecting" THEN {"done"} ELSE IF e = "open" THEN {"opened", "done"} ELSE {"told"})

LEMMA CountedAre ==
  /\ WritesCounted <=> \A s \in Socks, e \in Kinds : HasWritten(s, e) => newest >= Age(s, e)
  /\ WritesCounted' <=> \A s \in Socks, e \in Kinds : HasWritten(s, e)' => newest' >= Age(s, e)
BY DEF WritesCounted, HasWritten, Kinds, Age

(* No handler writes the row.                                              *)
LEMMA WordsStay ==
  ASSUME SocketTypeOK, Words, UNCHANGED <<newest, late>>,
         UNCHANGED <<row, saved>> \/ (row' = "pending" /\ saved' = TRUE),
         \A t \in Socks, f \in Kinds : task[t][f] # "none" => task'[t][f] # "none",
         \A t \in Socks, f \in Kinds : HasWritten(t, f)' => HasWritten(t, f),
         \A t \in Socks : task'[t]["close"] = "told" <=> task[t]["close"] = "told"
  PROVE  Words'
<1>1. newest' = newest /\ late' = late
  OBVIOUS
<1>2. CASE late  BY <1>1, <1>2 DEF Words
<1>3. CASE ~late
  <2>1. LastWord /\ WritesCounted  BY <1>3 DEF Words
  <2>2. \A t \in Socks, f \in Kinds : Word(t, f)' = Word(t, f)  BY DEF Word
  <2>3. LastWord'  BY <1>1, <2>1, <2>2 DEF LastWord
  <2>4. WritesCounted'  BY <1>1, <2>1, CountedAre
  <2> QED BY <2>3, <2>4 DEF Words
<1> QED BY <1>2, <1>3

(* Event e of socket s writes the row.                                     *)
LEMMA WordsWritten ==
  ASSUME SocketTypeOK, Words, NEW s \in Socks, NEW e \in Kinds, NEW status,
         setSessionStatus(s, e, status), task'[s][e] # "none", row' = Word(s, e)',
         \A t \in Socks, f \in Kinds : HasWritten(t, f)' => HasWritten(t, f) \/ (t = s /\ f = e)
  PROVE  Words'
<1>1. /\ late => late'
      /\ ~late' => newest' = Age(s, e) /\ newest' >= newest
      /\ newest \in Nat /\ newest' \in Nat /\ saved' = FALSE
  BY Written DEF SocketTypeOK
<1>2. CASE late'  BY <1>2 DEF Words
<1>3. CASE ~late'
  <2>1. WritesCounted  BY <1>1, <1>3 DEF Words
  <2>2. newest' = Age(s, e) /\ newest' >= newest  BY <1>1, <1>3
  <2>3. LastWord'  BY <1>1, <2>2 DEF LastWord, Age
  <2>4. \A t \in Socks, f \in Kinds : HasWritten(t, f)' => newest' >= Age(t, f)
    <3> SUFFICES ASSUME NEW t \in Socks, NEW f \in Kinds, HasWritten(t, f)' PROVE newest' >= Age(t, f)
      OBVIOUS
    <3>1. Age(t, f) \in Nat /\ newest \in Nat /\ newest' \in Nat  BY <1>1, AgeType
    <3>2. CASE HasWritten(t, f)
      <4>1. newest >= Age(t, f)  BY <2>1, <3>2, CountedAre
      <4> QED BY <2>2, <3>1, <4>1
    <3>3. CASE t = s /\ f = e  BY <2>2, <3>1, <3>3
    <3> QED BY <3>2, <3>3
  <2>5. WritesCounted'  BY <2>4, CountedAre
  <2> QED BY <2>3, <2>5 DEF Words
<1> QED BY <1>2, <1>3

(* A task moves without writing: it is not done for that.                  *)
LEMMA WordsOfTask ==
  ASSUME SocketTypeOK, Words, UNCHANGED <<row, newest, late, saved>>, NEW s \in Socks, NEW e \in Kinds, NEW v \in Steps,
         TaskBecomes(s, e, v), v \notin {"none", "opened", "told"},
         v = "done" => task[s][e] \in {"done", "opened"} /\ e = "open",
         task[s][e] # "told"
  PROVE  Words'
<1>1. \A t \in Socks, f \in Kinds : task[t][f] # "none" => task'[t][f] # "none"
  BY DEF TaskBecomes
<1>2. \A t \in Socks, f \in Kinds : HasWritten(t, f)' => HasWritten(t, f)
  BY DEF TaskBecomes, HasWritten
<1>3. \A t \in Socks : task'[t]["close"] = "told" <=> task[t]["close"] = "told"
  BY StepsAre DEF TaskBecomes
<1> QED BY <1>1, <1>2, <1>3, WordsStay

LEMMA WordsOfWriter ==
  ASSUME SocketTypeOK, Words, NEW s \in Socks, NEW e \in Kinds, NEW status, NEW v \in Steps \ {"none"},
         setSessionStatus(s, e, status), TaskBecomes(s, e, v), row' = Word(s, e)'
  PROVE  Words'
<1>1. task'[s][e] # "none"  BY DEF TaskBecomes
<1>2. \A t \in Socks, f \in Kinds : HasWritten(t, f)' => HasWritten(t, f) \/ (t = s /\ f = e)
  BY DEF TaskBecomes, HasWritten
<1> QED BY <1>1, <1>2, WordsWritten

LEMMA WordsKept ==
  ASSUME SocketTypeOK, Structure, Words, [SocketNext]_socketVars
  PROVE  Words'
<1>1. CASE LoadAuth
  <2>1. \A s \in Socks, e \in Kinds : task[s][e] = "none"
    <3>1. sock = NoSock  BY <1>1 DEF LoadAuth, Structure, StageAgrees
    <3>2. \A s \in Socks : life[s] = "none"  BY <3>1, SocksAre DEF Structure, OpenedInOrder
    <3> QED BY <3>2 DEF Structure, TasksFollow, Kinds
  <2>2. task' = task /\ newest' = newest /\ late' = late  BY <1>1 DEF LoadAuth, history
  <2>3. ~late => newest = 0  BY <2>1 DEF Words, LastWord
  <2>4. ~late => LastWord' /\ WritesCounted'
    BY <2>1, <2>2, <2>3, StepsAre DEF LastWord, WritesCounted
  <2> QED BY <2>2, <2>4 DEF Words
<1>2. CASE Created
  <2>1. setSessionStatus(1, "connecting", "connecting") /\ 1 \in Socks /\ task' = task
    BY <1>2, SocketAssumption DEF Created, Socks
  <2>2. sock \in Socks  BY <1>2 DEF Created, SocketTypeOK, Structure, StageAgrees
  <2>3. ~(sock < 1)  BY <2>2, SocksAre
  <2>4. task[1]["connecting"] # "none"  BY <2>1, <2>3 DEF Structure, OpenedInOrder, TasksFollow
  <2>5. row' = Word(1, "connecting")'  BY <2>1 DEF setSessionStatus, Word
  <2>6. \A t \in Socks, f \in Kinds : HasWritten(t, f)' => HasWritten(t, f)
    BY <2>1 DEF HasWritten
  <2> QED BY <2>1, <2>4, <2>5, <2>6, StepsAre, WordsWritten
<1>3. CASE CreationFails
  BY <1>3, WordsStay DEF CreationFails, history, HasWritten
<1>4. CASE EndSocket
  <2>1. sock \in Socks  BY <1>4 DEF EndSocket, SocketTypeOK, Structure, StageAgrees
  <2>2. PICK first \in {"unheard", "other"} : task' = [task EXCEPT ![sock]["close"] = first]
    BY <1>4 DEF EndSocket
  <2>3. PICK s \in Socks : s = sock  BY <2>1
  <2>4. first \in Steps  BY StepsAre DEF Reasons
  <2>5. TaskBecomes(s, "close", first)  BY <2>2, <2>3, <2>4, StepsAre, TaskSet
  <2>6. task[s]["close"] = "none"  BY <1>4, <2>3, LiveIsPresent DEF EndSocket
  <2> QED BY <1>4, <2>4, <2>5, <2>6, StepsAre, WordsOfTask DEF EndSocket, history
<1>5. ASSUME NEW s \in Socks, MakeFirst(s) PROVE Words'
  <2>1. TaskBecomes(s, "connecting", "queued")  BY <1>5, StepsAre, TaskSet DEF MakeFirst
  <2>2. task[s]["connecting"] = "none"  BY <1>5, NextMade, StepsAre DEF MakeFirst
  <2> QED BY <1>5, <2>1, <2>2, StepsAre, WordsOfTask DEF MakeFirst, history
<1>6. ASSUME NEW s \in Socks, Opens(s) PROVE Words'
  <2>1. PICK v \in {"queued", "failed"} : TaskBecomes(s, "open", v)
    BY <1>6, ReportIs, StepsAre DEF Opens
  <2>2. task[s]["open"] # "told"
    BY StepsAre DEF Structure, TasksFollow, Allowed
  <2> QED BY <1>6, <2>1, <2>2, StepsAre, WordsOfTask DEF Opens, history
<1>7. ASSUME NEW s \in Socks, Closes(s) PROVE Words'
  <2>1. PICK reason \in Reasons : Report(s, "close", reason)  BY <1>7 DEF Closes
  <2>2. PICK v \in {reason, "failed"} : TaskBecomes(s, "close", v)
    BY <2>1, ReportIs, StepsAre
  <2>3. v \in Steps \ {"none", "opened", "told", "done"}  BY StepsAre DEF Reasons
  <2>4. task[s]["close"] = "none"  BY <1>7, LiveIsPresent DEF Closes
  <2> QED BY <1>7, <2>2, <2>3, <2>4, StepsAre, WordsOfTask DEF Closes, history
<1>8. ASSUME NEW s \in Socks, OnConnecting(s) PROVE Words'
  <2>1. TaskBecomes(s, "connecting", "done")  BY <1>8, TaskTyped, StepsAre DEF OnConnecting
  <2>2. row' = Word(s, "connecting")'  BY <1>8 DEF OnConnecting, setSessionStatus, Word
  <2> QED BY <1>8, <2>1, <2>2, StepsAre, WordsOfWriter DEF OnConnecting
<1>9. ASSUME NEW s \in Socks, OnOpen(s) PROVE Words'
  <2>1. TaskBecomes(s, "open", "opened")  BY <1>9, TaskTyped, StepsAre DEF OnOpen
  <2>2. row' = Word(s, "open")'  BY <1>9 DEF OnOpen, setSessionStatus, Word
  <2> QED BY <1>9, <2>1, <2>2, StepsAre, WordsOfWriter DEF OnOpen
<1>10. ASSUME NEW s \in Socks, Forgive(s) PROVE Words'
  <2>1. TaskBecomes(s, "open", "done")  BY <1>10, TaskTyped, StepsAre DEF Forgive
  <2> QED BY <1>10, <2>1, StepsAre, WordsOfTask DEF Forgive, history, At
<1>11. ASSUME NEW s \in Socks, OnClose(s) PROVE Words'
  <2>1. PICK reason \in Reasons :
          At(s, "close", reason) /\ Goto(s, "close", Response(reason, reconnectAttempts))
    BY <1>11 DEF OnClose
  <2>2. PICK v \in {"retry", "reset", "tell"} : v = Response(reason, reconnectAttempts)
    BY DEF Response
  <2>3. TaskBecomes(s, "close", v)  BY <2>1, <2>2, TaskTyped, StepsAre
  <2>4. task[s]["close"] # "told"  BY <2>1 DEF At, Reasons
  <2> QED BY <1>11, <2>3, <2>4, StepsAre, WordsOfTask DEF OnClose, history
<1>12. ASSUME NEW s \in Socks, Announce(s) PROVE Words'
  <2>1. TaskBecomes(s, "close", "restart")  BY <1>12, TaskTyped, StepsAre DEF Announce
  <2>2. row' = Word(s, "close")'  BY <1>12, <2>1 DEF Announce, setSessionStatus, Word, TaskBecomes
  <2> QED BY <1>12, <2>1, <2>2, StepsAre, WordsOfWriter DEF Announce
<1>13. ASSUME NEW s \in Socks, Abandon(s) PROVE Words'
  <2>1. TaskBecomes(s, "close", "told")  BY <1>13, TaskTyped, StepsAre DEF Abandon
  <2>2. row' = Word(s, "close")'  BY <1>13, <2>1 DEF Abandon, setSessionStatus, Word, TaskBecomes
  <2> QED BY <1>13, <2>1, <2>2, StepsAre, WordsOfWriter DEF Abandon
<1>14. ASSUME NEW s \in Socks, Restart(s) PROVE Words'
  <2>1. PICK v \in {"skipped", "reopen"} : Goto(s, "close", v)  BY <1>14 DEF Restart
  <2>2. TaskBecomes(s, "close", v)  BY <2>1, TaskTyped, StepsAre
  <2> QED BY <1>14, <2>2, StepsAre, WordsOfTask DEF Restart, history, At
<1>15. ASSUME NEW s \in Socks, Reopen(s) PROVE Words'
  <2>1. PICK n \in Socks :
          /\ createSocketInstance(n)
          /\ task' = [task EXCEPT ![n]["connecting"] = "queued", ![s]["close"] = "retried"]
    BY <1>15 DEF Reopen
  <2>2. life[s] = "closed"  BY <1>15, Present DEF Reopen, At
  <2>3. n # s  BY <2>1, <2>2 DEF createSocketInstance
  <2>4. task \in [Socks -> [Kinds -> Steps]]  BY DEF SocketTypeOK, Steps
  <2>5. /\ task'[n] = [task[n] EXCEPT !["connecting"] = "queued"]
        /\ task'[s] = [task[s] EXCEPT !["close"] = "retried"]
        /\ \A t \in Socks : t \notin {n, s} => task'[t] = task[t]
    BY <2>1, <2>3, <2>4
  <2>6. \A t \in Socks : task[t] \in [Kinds -> Steps]  BY <2>4
  <2>7. /\ task'[s]["close"] = "retried" /\ task'[n]["connecting"] = "queued"
        /\ \A t \in Socks, f \in Kinds :
             ~(t = s /\ f = "close") /\ ~(t = n /\ f = "connecting") => task'[t][f] = task[t][f]
    BY <2>5, <2>6, StepsAre
  <2>8. row' = Word(s, "close")'  BY <1>15, <2>7 DEF Reopen, setSessionStatus, Word
  <2>9. \A t \in Socks, f \in Kinds : HasWritten(t, f)' => HasWritten(t, f)
    BY <2>7 DEF HasWritten
  <2>10. task'[s]["close"] # "none" /\ setSessionStatus(s, "close", "restarting")
    BY <1>15, <2>7 DEF Reopen
  <2> QED BY <2>8, <2>9, <2>10, StepsAre, WordsWritten
<1>16. ASSUME NEW s \in Socks, HandlerFails(s) PROVE Words'
  <2>1. PICK e \in Kinds, v \in {"failed", "restart"} : Goto(s, e, v) /\ task[s][e] # "told"
    BY <1>16, StepsAre DEF HandlerFails, At
  <2>2. TaskBecomes(s, e, v)  BY <2>1, TaskTyped, StepsAre
  <2> QED BY <1>16, <2>1, <2>2, StepsAre, WordsOfTask DEF HandlerFails, history
<1>17. CASE persistState \/ UNCHANGED socketVars
  BY <1>17, WordsStay DEF persistState, socketVars, history, HasWritten
<1> QED BY <1>1, <1>2, <1>3, <1>4, <1>5, <1>6, <1>7, <1>8, <1>9, <1>10, <1>11, <1>12, <1>13,
           <1>14, <1>15, <1>16, <1>17 DEF SocketNext, Handler

-----------------------------------------------------------------------------
(* The results.                                                            *)
LEMMA SocketInvInit == SocketInit => SocketInv
<1> SUFFICES ASSUME SocketInit PROVE SocketInv
  OBVIOUS
<1>1. \A s \in Socks : life[s] = "none" /\ \A e \in Kinds : task[s][e] = "none"
  BY DEF SocketInit
<1>2. SocketTypeOK
  <2>1. 0 \in 0..MaxTrouble  BY SocketAssumption
  <2>2. task \in [Socks -> [Kinds -> Steps]]  BY StepsAre DEF SocketInit
  <2> QED BY <2>1, <2>2 DEF SocketInit, SocketTypeOK, Steps
<1>3. OpenedInOrder
  <2>1. \A s \in Socks : sock < s  BY SocksAre DEF SocketInit
  <2> QED BY <1>1, <2>1 DEF OpenedInOrder
<1>4. TasksFollow
  <2>1. \A e \in Kinds : "none" \in Allowed(e)  BY StepsAre DEF Allowed
  <2> QED BY <1>1, <2>1, StepsAre DEF TasksFollow
<1>5. RestartsInTurn
  <2>1. \A s \in Socks : ~(s < sock)  BY SocksAre DEF SocketInit
  <2> QED BY <1>1, <2>1, StepsAre DEF SocketInit, RestartsInTurn
<1>6. StageAgrees /\ NoneFailed  BY <1>1 DEF SocketInit, StageAgrees, NoneFailed
<1>7. Words  BY <1>1, StepsAre DEF SocketInit, Words, LastWord, WritesCounted
<1> QED BY <1>2, <1>3, <1>4, <1>5, <1>6, <1>7 DEF SocketInv, Structure

(* The sockets of a controller follow each other, the events of each its   *)
(* life, and the row the youngest event that has written it                *)
(* (handleConnectionUpdate, restartSocket).                                *)
THEOREM SocketInvariant == SocketSpec => []SocketInv
<1>1. SocketInv /\ [SocketNext]_socketVars => SocketInv'
  BY SocketTypesKept, StructureKept, WordsKept DEF SocketInv
<1> QED BY SocketInvInit, <1>1, PTL DEF SocketSpec

(* Every variable of the controller keeps its type.                        *)
THEOREM SocketTyped == SocketSpec => []SocketTypeOK
<1>1. SocketInv => SocketTypeOK  BY DEF SocketInv
<1> QED BY SocketInvariant, <1>1, PTL

(* The close of the present socket ends with a new one, with the row told, *)
(* with a failed statement or unheard: a restart is never the last word.   *)
THEOREM NeverSilent == SocketSpec => []NoSilentDeath
<1>1. SocketInv => NoSilentDeath
  <2> SUFFICES ASSUME SocketInv, sock # NoSock PROVE task[sock]["close"] \notin {"retried", "skipped"}
    BY DEF NoSilentDeath
  <2>1. sock \in Socks /\ ~(sock < sock)  BY SocksAre DEF SocketInv, SocketTypeOK
  <2> QED BY <2>1 DEF SocketInv, Structure, RestartsInTurn
<1> QED BY SocketInvariant, <1>1, PTL

(* restartSocket never returns early: a socket closes once, and no other is *)
(* made while its close is being answered, so no handler finds the flag    *)
(* `restarting` up.                                                        *)
THEOREM RestartsAlone == SocketSpec => [](\A s \in Socks : task[s]["close"] # "skipped")
<1>1. SocketInv => \A s \in Socks : task[s]["close"] # "skipped"
  BY DEF SocketInv, Structure, RestartsInTurn
<1> QED BY SocketInvariant, <1>1, PTL

(* When all handlers of connection.update are done the row says what the   *)
(* present socket is, or `pending` when keys were saved since, unless an   *)
(* older handler wrote after a younger one, a statement failed or nobody   *)
(* heard of the socket's end.                                              *)
THEOREM RowTellsTruth == SocketSpec => []RowIsTrue
<1>1. SocketInv => RowIsTrue
  <2> SUFFICES ASSUME SocketInv, Quiet, ~late, trouble = 0, task[sock]["close"] # "unheard"
               PROVE  row = Truth \/ (saved /\ row = "pending")
    BY DEF RowIsTrue
  <2>1. PICK c \in Socks : c = sock
    BY DEF SocketInv, SocketTypeOK, Structure, StageAgrees, Quiet
  <2>2. /\ LastWord
        /\ \A s \in Socks, e \in Kinds : HasWritten(s, e) => newest >= Age(s, e)
    BY CountedAre DEF SocketInv, Words
  <2>3. ASSUME NEW e \in Kinds, HasWritten(c, e)
        PROVE  \E f \in Kinds : /\ task[c][f] # "none" /\ Age(c, f) >= Age(c, e)
                                /\ row = IF saved THEN "pending" ELSE Word(c, f)
    <3>1. newest >= Age(c, e) /\ newest \in Nat /\ Age(c, e) \in Nat \ {0}
      BY <2>2, <2>3, AgeType DEF SocketInv, SocketTypeOK
    <3>2. newest # 0  BY <3>1
    <3>3. PICK s \in Socks, f \in Kinds : /\ task[s][f] # "none" /\ newest = Age(s, f)
                                         /\ row = IF saved THEN "pending" ELSE Word(s, f)
      BY <2>2, <3>2 DEF LastWord
    <3>4. life[s] # "none"
      BY <3>3 DEF SocketInv, Structure, TasksFollow, Kinds
    <3>5. ~(c < s)  BY <2>1, <3>4 DEF SocketInv, Structure, OpenedInOrder
    <3>6. Age(s, f) \in Nat  BY AgeType
    <3>7. ~(s < c)
      <4>1. s < c => Age(s, f) < Age(c, e)  BY AgesDiffer
      <4> QED BY <3>1, <3>3, <3>6, <4>1
    <3>8. s = c  BY <3>5, <3>7, SocksAre
    <3> QED BY <3>1, <3>3, <3>8
  <2>4. \A e \in Kinds : task[c][e] \in Ended \cap Allowed(e) /\ task[c][e] # "failed"
    BY DEF Quiet, SocketInv, Structure, TasksFollow, NoneFailed
  <2>5. /\ Age(c, "connecting") < Age(c, "open") /\ Age(c, "open") < Age(c, "close")
        /\ \A e \in Kinds : Age(c, e) \in Nat
    BY AgesInLife, AgeType
  <2>6. ASSUME life[c] = "open" PROVE row = "connected" \/ (saved /\ row = "pending")
    <3>1. task[c]["open"] # "none" /\ task[c]["close"] = "none"
      BY <2>6 DEF SocketInv, Structure, TasksFollow
    <3>2. task[c]["open"] = "done"  BY <2>4, <3>1, StepsAre DEF Ended, Allowed
    <3>3. HasWritten(c, "open")  BY <3>2 DEF HasWritten
    <3>4. PICK f \in Kinds : /\ task[c][f] # "none" /\ Age(c, f) >= Age(c, "open")
                           /\ row = IF saved THEN "pending" ELSE Word(c, f)
      BY <2>3, <3>3, StepsAre
    <3>5. f = "open"  BY <2>5, <3>1, <3>4, StepsAre DEF Kinds
    <3> QED BY <3>4, <3>5 DEF Word
  <2>7. ASSUME life[c] = "connecting" PROVE row = "pending"
    <3>1. task[c]["connecting"] # "none" /\ task[c]["open"] = "none" /\ task[c]["close"] = "none"
      BY <2>7 DEF SocketInv, Structure, TasksFollow
    <3>2. task[c]["connecting"] = "done"  BY <2>4, <3>1, StepsAre DEF Ended, Allowed
    <3>3. HasWritten(c, "connecting")  BY <3>2 DEF HasWritten
    <3>4. PICK f \in Kinds : task[c][f] # "none" /\ row = IF saved THEN "pending" ELSE Word(c, f)
      BY <2>3, <3>3, StepsAre
    <3>5. f = "connecting"  BY <3>1, <3>4 DEF Kinds
    <3> QED BY <3>4, <3>5 DEF Word
  <2>8. ASSUME task[c]["close"] = "told" PROVE row = "disconnected" \/ (saved /\ row = "pending")
    <3>1. HasWritten(c, "close")  BY <2>8 DEF HasWritten
    <3>2. PICK f \in Kinds : /\ Age(c, f) >= Age(c, "close")
                           /\ row = IF saved THEN "pending" ELSE Word(c, f)
      BY <2>3, <3>1, StepsAre
    <3>3. f = "close"  BY <2>5, <3>2, StepsAre DEF Kinds
    <3> QED BY <2>8, <3>2, <3>3 DEF Word
  <2>9. life[c] \in {"open", "connecting"} \/ task[c]["close"] = "told"
    <3>1. life[c] # "none"
      <4>1. ~(sock < c)  BY <2>1, SocksAre
      <4> QED BY <4>1 DEF SocketInv, Structure, OpenedInOrder
    <3>2. life[c] = "closed" => task[c]["close"] # "none"
      BY DEF SocketInv, Structure, TasksFollow
    <3>3. task[c]["close"] \notin {"retried", "skipped"}
      <4>1. ~(c < sock)  BY <2>1, SocksAre
      <4> QED BY <4>1 DEF SocketInv, Structure, RestartsInTurn
    <3>4. task[c]["close"] \in Ended \cap Allowed("close") /\ task[c]["close"] \notin {"failed", "unheard"}
      BY <2>1, <2>4, StepsAre
    <3>5. life[c] \in {"none", "connecting", "open", "closed"}
      BY DEF SocketInv, SocketTypeOK, Live
    <3> QED BY <3>1, <3>2, <3>3, <3>4, <3>5 DEF Ended, Allowed
  <2>10. task[c]["close"] = "told" => life[c] = "closed"
    BY DEF SocketInv, Structure, TasksFollow
  <2> QED BY <2>1, <2>6, <2>7, <2>8, <2>9, <2>10 DEF Truth
<1> QED BY SocketInvariant, <1>1, PTL

-----------------------------------------------------------------------------
(* The controller implements the line of SocketLine.                       *)
LineNow == IF sock = NoSock THEN "none"
           ELSE IF life[sock] \in Live THEN "up"
           ELSE IF Answering THEN "answering" ELSE "down"

LineTable ==
  /\ sock = NoSock => LineNow = "none"
  /\ sock # NoSock =>
       /\ sock \in Socks
       /\ life[sock] \in Live => LineNow = "up"
       /\ life[sock] \notin Live /\ task[sock]["close"] \in Pending => LineNow = "answering"
       /\ life[sock] \notin Live /\ task[sock]["close"] \notin Pending => LineNow = "down"

(* Whatever is being answered is the close of the present socket.          *)
LEMMA LineNowIs == SocketInv => LineTable
<1> SUFFICES ASSUME SocketInv PROVE LineTable
  OBVIOUS
<1>1. sock # NoSock => sock \in Socks  BY DEF SocketInv, SocketTypeOK
<1>2. Answering => task[sock]["close"] \in Pending
  <2> SUFFICES ASSUME NEW s \in Socks, task[s]["close"] \in Pending PROVE s = sock
    BY DEF Answering
  <2>1. task[s]["close"] \notin {"none", "retried"}  BY DEF Pending, Reasons
  <2> QED BY <2>1, Present DEF SocketInv
<1>3. sock # NoSock /\ task[sock]["close"] \in Pending => Answering  BY <1>1 DEF Answering
<1> QED BY <1>1, <1>2, <1>3 DEF LineTable, LineNow

LineView == [k \in {1} |-> LineNow]
Row      == row # "none"

(* The steps of the line that a step of the controller may be.             *)
LEMMA Stands ==
  ASSUME LineNow' = LineNow, row' = row \/ row' # "none"
  PROVE  [Line!LineStep]_(Line!lineVars)
<1>1. LineView' = LineView  BY DEF LineView
<1>2. CASE Row' = Row  BY <1>1, <1>2 DEF Line!lineVars, LineView, Row, LineNow
<1>3. CASE Row' = TRUE  BY <1>1, <1>3 DEF Line!LineStep, Line!WriteRow, LineView, Row, LineNow
<1>4. Row' = Row \/ Row' = TRUE  BY DEF Row
<1> QED BY <1>2, <1>3, <1>4

LEMMA TurnIs ==
  ASSUME NEW l, LineNow' = l
  PROVE  LineView' = [LineView EXCEPT ![1] = l] /\ LineView[1] = LineNow
BY DEF LineView

LEMMA Begins ==
  ASSUME LineNow = "none", LineNow' = "up", row' = row
  PROVE  [Line!LineStep]_(Line!lineVars)
<1>1. Line!Make(1)  BY TurnIs DEF Line!Make, Line!Turn, LineView, LineNow
<1> QED BY <1>1 DEF Line!LineStep

LEMMA Falls ==
  ASSUME LineNow = "up", LineNow' \in {"answering", "down"}, row' = row
  PROVE  [Line!LineStep]_(Line!lineVars)
<1>1. Line!Drop(1)  BY TurnIs DEF Line!Drop, Line!Turn, LineView, LineNow
<1> QED BY <1>1 DEF Line!LineStep

LEMMA IsAnswered ==
  ASSUME LineNow = "answering", LineNow' \in {"up", "down"}, row' = row \/ row' # "none"
  PROVE  [Line!LineStep]_(Line!lineVars)
<1>1. Line!Turn(1, "answering", {"up", "down"})  BY TurnIs DEF Line!Turn, LineView, LineNow
<1>2. Row' \in {Row, TRUE}  BY DEF Row
<1>3. Line!Answer(1)  BY <1>1, <1>2 DEF Line!Answer, Row
<1> QED BY <1>3 DEF Line!LineStep

LEMMA RowWritten ==
  ASSUME NEW s, NEW e, NEW status, setSessionStatus(s, e, status)
  PROVE  row' # "none"
BY DEF setSessionStatus

(* A handler moves on within its answer, or it is not of a close.          *)
LEMMA HandlerStands ==
  ASSUME SocketInv, SocketInv', NEW s \in Socks, NEW e \in Kinds, NEW v \in Steps, Goto(s, e, v),
         UNCHANGED <<sock, life>>, row' = row \/ row' # "none",
         e = "close" => task[s][e] \in Pending /\ v \in Pending
  PROVE  [Line!LineStep]_(Line!lineVars)
<1>1. TaskBecomes(s, e, v)  BY TaskTyped DEF SocketInv
<1>2. LineTable /\ LineTable'  BY LineNowIs, PTL
<1>3. sock # NoSock => (task'[sock]["close"] \in Pending <=> task[sock]["close"] \in Pending)
  BY <1>1, <1>2, StepsAre DEF TaskBecomes, LineTable
<1>4. LineNow' = LineNow  BY <1>2, <1>3 DEF LineTable
<1> QED BY <1>4, Stands

(* It ends without a new socket.                                           *)
LEMMA HandlerEnds ==
  ASSUME SocketInv, SocketInv', NEW s \in Socks, NEW v \in Steps \ Pending, Goto(s, "close", v),
         UNCHANGED <<sock, life>>, row' = row \/ row' # "none", task[s]["close"] \in Pending
  PROVE  [Line!LineStep]_(Line!lineVars)
<1>1. TaskBecomes(s, "close", v)  BY TaskTyped, StepsAre DEF SocketInv
<1>2. LineTable /\ LineTable'  BY LineNowIs, PTL
<1>3. s = sock /\ sock # NoSock /\ life[s] = "closed"
  BY Present, SocksAre DEF SocketInv, Pending, Reasons
<1>4. LineNow = "answering"  BY <1>2, <1>3 DEF LineTable, Live
<1>5. LineNow' = "down"  BY <1>1, <1>2, <1>3 DEF LineTable, Live, TaskBecomes
<1> QED BY <1>4, <1>5, IsAnswered

(* The present socket closes, and its close is heard or not.               *)
LEMMA PresentFalls ==
  ASSUME SocketInv, SocketInv', NEW s \in Socks, life[s] \in Live, life' = [life EXCEPT ![s] = "closed"],
         UNCHANGED <<row, sock>>
  PROVE  [Line!LineStep]_(Line!lineVars)
<1>1. s = sock /\ sock # NoSock  BY LiveIsPresent, SocksAre DEF SocketInv
<1>2. life'[s] \notin Live  BY DEF SocketInv, SocketTypeOK, Live
<1>3. LineTable /\ LineTable'  BY LineNowIs, PTL
<1>4. LineNow = "up" /\ LineNow' \in {"answering", "down"}  BY <1>1, <1>2, <1>3 DEF LineTable
<1> QED BY <1>4, Falls

(* createWhatsAppSocket and its handlers are, step by step, the line that  *)
(* the registry of sessions takes the controller for.                      *)
THEOREM Implements == SocketSpec => SocketIsLine
<1>1. SocketInit => Line!LineInit
  BY DEF SocketInit, Line!LineInit
<1>2. SocketInv /\ SocketInv' /\ [SocketNext]_socketVars => [Line!LineStep]_(Line!lineVars)
  <2> SUFFICES ASSUME SocketInv, SocketInv', [SocketNext]_socketVars PROVE [Line!LineStep]_(Line!lineVars)
    OBVIOUS
  <2> DEFINE Step == [Line!LineStep]_(Line!lineVars)
  <2>0. LineTable /\ LineTable'  BY LineNowIs, PTL
  <2>1. ASSUME UNCHANGED <<sock, life, task>>, row' = row \/ row' # "none" PROVE Step
    <3>1. LineNow' = LineNow  BY <2>1 DEF LineNow, Answering
    <3> QED BY <2>1, <3>1, Stands
  <2>2. CASE LoadAuth
    <3>1. row' = row \/ row' # "none"  BY <2>2 DEF LoadAuth
    <3> QED BY <2>1, <2>2, <3>1 DEF LoadAuth
  <2>3. CASE Created
    <3>1. row' # "none"  BY <2>3, RowWritten DEF Created
    <3> QED BY <2>1, <2>3, <3>1 DEF Created
  <2>4. CASE CreationFails \/ persistState \/ UNCHANGED socketVars
    BY <2>1, <2>4 DEF CreationFails, persistState, socketVars, callVars
  <2>5. CASE EndSocket
    <3>1. PICK s \in Socks : s = sock
      BY <2>5 DEF EndSocket, SocketInv, SocketTypeOK, Structure, StageAgrees
    <3> QED BY <2>5, <3>1, PresentFalls DEF EndSocket, callVars
  <2>6. ASSUME NEW s \in Socks, MakeFirst(s) PROVE Step
    <3>1. sock = NoSock  BY <2>6 DEF MakeFirst, SocketInv, Structure, StageAgrees
    <3>2. sock' = s /\ life'[s] = "connecting"  BY <2>6, NextMade DEF MakeFirst, SocketInv
    <3>3. LineNow = "none" /\ LineNow' = "up"
      BY <2>0, <3>1, <3>2, SocksAre DEF LineTable, Live
    <3> QED BY <2>6, <3>3, Begins DEF MakeFirst
  <2>7. ASSUME NEW s \in Socks, Opens(s) PROVE Step
    <3>1. s = sock /\ sock # NoSock  BY <2>7, LiveIsPresent, SocksAre DEF Opens, SocketInv, Live
    <3>2. life'[s] \in Live /\ life[s] \in Live  BY <2>7 DEF Opens, SocketInv, SocketTypeOK, Live
    <3>3. sock' = sock /\ row' = row  BY <2>7 DEF Opens, callVars
    <3>4. LineNow' = LineNow  BY <2>0, <3>1, <3>2, <3>3 DEF LineTable
    <3> QED BY <3>3, <3>4, Stands
  <2>8. ASSUME NEW s \in Socks, Closes(s) PROVE Step
    BY <2>8, PresentFalls DEF Closes, callVars
  <2>9. ASSUME NEW s \in Socks, OnConnecting(s) PROVE Step
    <3>1. row' # "none"  BY <2>9, RowWritten DEF OnConnecting
    <3> QED BY <2>9, <3>1, HandlerStands, StepsAre DEF OnConnecting, callVars
  <2>10. ASSUME NEW s \in Socks, OnOpen(s) PROVE Step
    <3>1. row' # "none"  BY <2>10, RowWritten DEF OnOpen
    <3> QED BY <2>10, <3>1, HandlerStands, StepsAre DEF OnOpen, callVars
  <2>11. ASSUME NEW s \in Socks, Forgive(s) PROVE Step
    BY <2>11, HandlerStands, StepsAre DEF Forgive
  <2>12. ASSUME NEW s \in Socks, OnClose(s) PROVE Step
    <3>1. PICK reason \in Reasons :
            At(s, "close", reason) /\ Goto(s, "close", Response(reason, reconnectAttempts))
      BY <2>12 DEF OnClose
    <3>2. PICK v \in {"retry", "reset", "tell"} : v = Response(reason, reconnectAttempts)
      BY DEF Response
    <3>3. task[s]["close"] \in Pending /\ v \in Pending  BY <3>1 DEF At, Pending
    <3> QED BY <2>12, <3>1, <3>2, <3>3, HandlerStands, StepsAre DEF OnClose
  <2>13. ASSUME NEW s \in Socks, Announce(s) PROVE Step
    <3>1. row' # "none"  BY <2>13, RowWritten DEF Announce
    <3>2. task[s]["close"] \in Pending /\ "restart" \in Pending  BY <2>13 DEF Announce, At, Pending
    <3> QED BY <2>13, <3>1, <3>2, HandlerStands, StepsAre DEF Announce, callVars
  <2>14. ASSUME NEW s \in Socks, Abandon(s) PROVE Step
    <3>1. row' # "none"  BY <2>14, RowWritten DEF Abandon
    <3>2. task[s]["close"] \in Pending /\ "told" \notin Pending
      BY <2>14 DEF Abandon, At, Pending, Reasons
    <3> QED BY <2>14, <3>1, <3>2, HandlerEnds, StepsAre DEF Abandon, callVars
  <2>15. ASSUME NEW s \in Socks, Restart(s) PROVE Step
    <3>1. ~restarting  BY <2>15, Present DEF Restart, At, SocketInv
    <3>2. Goto(s, "close", "reopen")  BY <2>15, <3>1 DEF Restart
    <3>3. task[s]["close"] \in Pending /\ "reopen" \in Pending  BY <2>15 DEF Restart, At, Pending
    <3> QED BY <2>15, <3>2, <3>3, HandlerStands, StepsAre DEF Restart
  <2>16. ASSUME NEW s \in Socks, Reopen(s) PROVE Step
    <3>1. row' # "none"  BY <2>16, RowWritten DEF Reopen
    <3>2. PICK n \in Socks : createSocketInstance(n)  BY <2>16 DEF Reopen
    <3>3. sock' = n /\ life'[n] = "connecting"  BY <3>2, NextMade DEF SocketInv
    <3>4. LineNow' = "up"  BY <2>0, <3>3, SocksAre DEF LineTable, Live
    <3>5. s = sock /\ sock # NoSock /\ life[s] = "closed"
      BY <2>16, Present, SocksAre DEF Reopen, At, SocketInv
    <3>6. task[s]["close"] \in Pending  BY <2>16 DEF Reopen, At, Pending
    <3>7. LineNow = "answering"  BY <2>0, <3>5, <3>6 DEF LineTable, Live
    <3> QED BY <3>1, <3>4, <3>7, IsAnswered
  <2>17. ASSUME NEW s \in Socks, HandlerFails(s) PROVE Step
    <3>1. CASE \E e \in {"connecting", "open"} : Goto(s, e, "failed")
      BY <2>17, <3>1, HandlerStands, StepsAre DEF HandlerFails
    <3>2. CASE task[s]["close"] \in Pending /\ Goto(s, "close", "failed")
      <4>1. "failed" \notin Pending  BY DEF Pending, Reasons
      <4> QED BY <2>17, <3>2, <4>1, HandlerEnds, StepsAre DEF HandlerFails
    <3>3. CASE task[s]["close"] \in Pending /\ Goto(s, "close", "restart")
      <4>1. "restart" \in Pending  BY DEF Pending
      <4> QED BY <2>17, <3>3, <4>1, HandlerStands, StepsAre DEF HandlerFails
    <3> QED BY <2>17, <3>1, <3>2, <3>3 DEF HandlerFails, At, Pending
  <2> QED BY <2>2, <2>3, <2>4, <2>5, <2>6, <2>7, <2>8, <2>9, <2>10, <2>11, <2>12, <2>13, <2>14,
             <2>15, <2>16, <2>17 DEF SocketNext, Handler
<1> QED BY SocketInvariant, <1>1, <1>2, PTL DEF SocketSpec, SocketIsLine, Line!LineSpec

-----------------------------------------------------------------------------
(* The page of the connections (SessionsScreen): types.                    *)
CardStatuses == Statuses \cup {"none", "pairing_code"}
PollForm     == [id : Sessions, at : {"asked", "read"}, got : Statuses \cup {"none"},
                 by : {"refresh", "poller", "load"}, old : BOOLEAN]
CallKinds    == {"create", "sync", "resync", "showQr", "pairing", "reconnect", "renewQr", "resetAuth",
                 "disconnect", "delete"}

CallSound ==
  /\ call.at \in {"none", "asked", "read"}
  /\ call.kind = "list" \/ call.kind \in CallKinds \/ call = NoCall
  /\ call.kind \in CallKinds =>
       call.id \in Sessions /\ (call.at = "read" => call.got \in Statuses)
  /\ call.kind = "list" /\ call.at = "read" =>
       DOMAIN call.list \subseteq Sessions /\ \A s \in DOMAIN call.list : call.list[s] \in Statuses

PageTypes ==
  /\ server \in [Sessions -> Statuses]
  /\ Carded \subseteq Sessions /\ \A s \in Carded : cards[s] \in CardStatuses
  /\ qr \in Sessions \cup {NoSession} /\ poller \in [Sessions -> 0..PollEvery]
  /\ timer \in 1..RefreshEvery /\ gone \subseteq Sessions /\ calm \in [Sessions -> 0..RefreshEvery]
  /\ polls \subseteq PollForm

(* A poll that saw all that happened has read what the server has.         *)
YoungPollsRead == \A p \in polls : ~p.old /\ p.at = "read" => p.got = server[p.id]

(* A card has been looked at since something last happened: it is true, or *)
(* its answer is on the way.                                               *)
Seen(s) == cards[s] = server[s] \/ \E p \in polls : p.id = s /\ ~p.old

(* The timer goes off before the card has been left alone for a period.    *)
Due(s) == calm[s] + timer <= RefreshEvery

(* While an answer to the refresh is on the way that saw all that happened *)
(* all cards have been looked at: the refresh asked for every one.         *)
AskedForAll == (\E p \in polls : ~p.old /\ p.by = "refresh") => \A s \in Carded \ gone : Seen(s)

CardsInv ==
  /\ PageTypes /\ CallSound /\ YoungPollsRead /\ AskedForAll
  /\ \A s \in Carded \ gone : Seen(s) \/ Due(s)

LEMMA PageConstants ==
  NoSession \notin Sessions /\ PollEvery \in Nat \ {0} /\ RefreshEvery \in Nat \ {0}
BY SessionsAssumption

LEMMA Stirred ==
  ASSUME NEW S \in SUBSET PollForm, Stir(S)
  PROVE  PutOff(Sessions) /\ polls' \subseteq PollForm /\ \A p \in polls' : p.old
<1>1. polls' = Aged(S) /\ PutOff(Sessions)
  BY DEF Stir
<1>2. \A p \in polls' : p \in PollForm /\ p.old = TRUE
  BY <1>1 DEF Aged, PollForm
<1> QED BY <1>1, <1>2

(* A card that is set: the others stay.                                    *)
LEMMA CardSet ==
  ASSUME PageTypes, NEW s \in Sessions, NEW status \in CardStatuses, SetCards(With(s, status))
  PROVE  /\ timer' \in 1..RefreshEvery
         /\ Carded' = Carded \cup {s} /\ Carded' \subseteq Sessions
         /\ \A i \in Carded' : cards'[i] \in CardStatuses
         /\ cards'[s] = status /\ \A i \in Carded : i # s => cards'[i] = cards[i]
<1>1. cards' = [i \in Carded \cup {s} |-> IF i = s THEN status ELSE cards[i]] /\ timer' = RefreshEvery
  BY DEF SetCards, With
<1>2. Carded' = Carded \cup {s}
  BY <1>1 DEF Carded
<1>3. \A i \in Carded' : cards'[i] = IF i = s THEN status ELSE cards[i]
  BY <1>1, <1>2
<1> QED BY <1>1, <1>2, <1>3, PageConstants DEF PageTypes

LEMMA CardsTouched ==
  ASSUME PageTypes, SetCards(cards)
  PROVE  timer' \in 1..RefreshEvery /\ cards' = cards
BY PageConstants DEF SetCards

LEMMA PollsStarted ==
  ASSUME PageTypes, NEW s \in Sessions
  PROVE  StartPolling(s) \in [Sessions -> 0..PollEvery] /\ StopPolling(s) \in [Sessions -> 0..PollEvery]
BY PageConstants DEF PageTypes, StartPolling, StopPolling

-----------------------------------------------------------------------------
(* Whatever happens: only types are left to see to.                        *)
CardTypes ==
  /\ Carded \subseteq Sessions /\ \A s \in Carded : cards[s] \in CardStatuses
  /\ timer \in 1..RefreshEvery

OtherTypes ==
  /\ server \in [Sessions -> Statuses] /\ qr \in Sessions \cup {NoSession}
  /\ poller \in [Sessions -> 0..PollEvery] /\ gone \subseteq Sessions

LEMMA PageParts ==
  PageTypes <=> CardTypes /\ OtherTypes /\ calm \in [Sessions -> 0..RefreshEvery] /\ polls \subseteq PollForm
BY DEF PageTypes, CardTypes, OtherTypes

LEMMA SetTypes ==
  ASSUME PageTypes, NEW s \in Sessions, NEW status \in CardStatuses, SetCards(With(s, status))
  PROVE  CardTypes'
BY CardSet DEF CardTypes

LEMMA TouchedTypes ==
  ASSUME PageTypes, SetCards(cards)
  PROVE  CardTypes'
BY CardsTouched DEF PageTypes, CardTypes, Carded

(* When every card is put off the timer has a period at most before it,    *)
(* and nobody need have looked.                                            *)
LEMMA AllPutOff ==
  ASSUME CardsInv, PutOff(Sessions), polls' \subseteq PollForm,
         \A p \in polls' : p.old \/ (p.at = "asked" /\ p.by # "refresh"),
         CardTypes', OtherTypes', CallSound'
  PROVE  CardsInv'
<1>1. calm' = [s \in Sessions |-> 0]
  BY DEF PutOff
<1>2. calm' \in [Sessions -> 0..RefreshEvery]
  BY <1>1, PageConstants
<1>3. PageTypes'
  BY <1>2 DEF PageTypes, CardTypes, OtherTypes
<1>4. ASSUME NEW s \in Carded' \ gone'
      PROVE  Due(s)'
  <2>1. s \in Sessions
    BY <1>4 DEF CardTypes
  <2>2. calm'[s] = 0
    BY <1>1, <2>1
  <2>3. PICK t \in 1..RefreshEvery : timer' = t
    BY DEF CardTypes
  <2>4. 0 + t <= RefreshEvery
    BY PageConstants
  <2> QED BY <2>2, <2>3, <2>4 DEF Due
<1>5. YoungPollsRead' /\ AskedForAll'
  BY DEF YoungPollsRead, AskedForAll
<1> QED BY <1>3, <1>4, <1>5 DEF CardsInv

LEMMA HappenedKeeps ==
  ASSUME CardsInv, NEW S \in SUBSET PollForm, Stir(S), CardTypes', OtherTypes', CallSound'
  PROVE  CardsInv'
BY Stirred, AllPutOff

(* What a step leaves alone of the cards.                                  *)
LEMMA SeenStays ==
  ASSUME CardsInv, UNCHANGED <<server, cards, gone>>,
         \A p \in polls : ~p.old => \E r \in polls' : r.id = p.id /\ ~r.old
  PROVE  Carded' = Carded /\ \A s \in Carded \ gone : Seen(s) => Seen(s)'
<1>1. Carded' = Carded
  BY DEF Carded
<1>2. ASSUME NEW s \in Carded \ gone, Seen(s) PROVE Seen(s)'
  BY <1>2 DEF Seen
<1> QED BY <1>1, <1>2

(* A step that leaves cards, polls and timer alone.                        *)
LEMMA PageSame ==
  ASSUME CardsInv, UNCHANGED <<server, cards, poller, timer, gone, polls, calm>>,
         qr' \in Sessions \cup {NoSession}, CallSound'
  PROVE  CardsInv'
BY DEF CardsInv, PageTypes, YoungPollsRead, Seen, Due, AskedForAll, Carded

(* What is asked for.                                                      *)
LEMMA PollsAsked ==
  ASSUME NEW S \in SUBSET Sessions, NEW by \in {"refresh", "poller", "load"}
  PROVE  /\ Poll(S, by) \subseteq PollForm
         /\ \A p \in Poll(S, by) : p.at = "asked" /\ p.by = by /\ ~p.old
         /\ \A s \in S \ gone : \E p \in Poll(S, by) : p.id = s /\ ~p.old
<1>1. ASSUME NEW s \in S \ gone
      PROVE  [id |-> s, at |-> "asked", got |-> "none", by |-> by, old |-> FALSE] \in PollForm
  BY <1>1 DEF PollForm
<1>2. Poll(S, by) \subseteq PollForm
  BY <1>1 DEF Poll
<1>3. \A p \in Poll(S, by) : p.at = "asked" /\ p.by = by /\ ~p.old
  BY DEF Poll
<1>4. ASSUME NEW s \in S \ gone
      PROVE  \E p \in Poll(S, by) : p.id = s /\ ~p.old
  <2>1. [id |-> s, at |-> "asked", got |-> "none", by |-> by, old |-> FALSE] \in Poll(S, by)
    BY <1>4 DEF Poll
  <2> QED BY <2>1
<1> QED BY <1>2, <1>3, <1>4

(* The server, and what a call of the user does at its click.              *)
LEMMA ServerSteps ==
  ASSUME CardsInv, (\E s \in Sessions : ServerChanges(s)) \/ ServeCall
  PROVE  CardsInv'
<1>1. PageTypes /\ CallSound /\ polls \in SUBSET PollForm /\ CardTypes /\ OtherTypes
  BY PageParts DEF CardsInv, PageTypes
<1>2. ASSUME NEW s \in Sessions, ServerChanges(s)
      PROVE  CardsInv'
  <2>1. PICK status \in Statuses : server' = [server EXCEPT ![s] = status]
    BY <1>2 DEF ServerChanges
  <2>2. Stir(polls) /\ UNCHANGED <<cards, qr, poller, timer, gone, call>>
    BY <1>2 DEF ServerChanges, Happening
  <2>3. CardTypes' /\ OtherTypes' /\ CallSound'
    BY <1>1, <2>1, <2>2 DEF CardTypes, OtherTypes, CallSound, Carded
  <2> QED BY <1>1, <2>2, <2>3, HappenedKeeps
<1>3. CASE ServeCall /\ call.kind = "list"
  <2>1. /\ call.at = "asked" /\ UNCHANGED <<server, polls, calm, cards, qr, poller, timer, gone>>
        /\ call' = [call EXCEPT !.at = "read",
                      !.list = [s \in {i \in Sessions : server[i] # "deleted"} |-> server[s]]]
    BY <1>3 DEF ServeCall
  <2>2. CallSound'
    <3>1. PICK list : list = [s \in {i \in Sessions : server[i] # "deleted"} |-> server[s]]
      OBVIOUS
    <3>2. DOMAIN list \subseteq Sessions /\ \A s \in DOMAIN list : list[s] \in Statuses
      BY <1>1, <3>1 DEF PageTypes
    <3>3. call' = [call EXCEPT !.at = "read", !.list = list]
      BY <2>1, <3>1
    <3>4. call'.kind = "list" /\ call'.at = "read" /\ call'.list = list
      BY <3>3, <1>1, <1>3, <2>1
    <3> QED BY <3>2, <3>4 DEF CallSound, CallKinds
  <2> QED BY <2>1, <2>2, PageSame DEF CardsInv, PageTypes
<1>4. CASE ServeCall /\ call.kind # "list"
  <2>1. /\ call.at = "asked" /\ call.kind \in CallKinds /\ call.id \in Sessions
        /\ UNCHANGED <<cards, qr, poller, timer, gone>>
    <3>1. call.at = "asked" /\ UNCHANGED <<cards, qr, poller, timer, gone>>
      BY <1>4 DEF ServeCall
    <3>2. NoCall.at = "none"
      BY DEF NoCall
    <3>3. call # NoCall
      BY <3>1, <3>2
    <3> QED BY <1>1, <1>4, <3>1, <3>3 DEF CallSound
  <2>2. PICK status \in Done(call.kind, server[call.id]) :
          /\ server' = [server EXCEPT ![call.id] = status]
          /\ call' = [call EXCEPT !.at = "read", !.got = status]
          /\ IF status # server[call.id] THEN Stir(polls) ELSE UNCHANGED <<polls, calm>>
    BY <1>4 DEF ServeCall
  <2>3. status \in Statuses
    BY <1>1, <2>1, <2>2 DEF Done, Statuses, PageTypes
  <2>4. CallSound'
    <3>1. call'.kind = call.kind /\ call'.at = "read" /\ call'.id = call.id /\ call'.got = status
      BY <1>1, <2>1, <2>2 DEF CallSound
    <3> QED BY <2>1, <2>3, <3>1 DEF CallSound, CallKinds
  <2>5. CardTypes' /\ OtherTypes'
    BY <1>1, <2>1, <2>2, <2>3 DEF CardTypes, OtherTypes, Carded
  <2>6. CASE Stir(polls)
    BY <1>1, <2>4, <2>5, <2>6, HappenedKeeps
  <2>7. CASE status = server[call.id] /\ UNCHANGED <<polls, calm>>
    <3>1. server' = server
      BY <1>1, <2>1, <2>2, <2>7 DEF PageTypes
    <3> QED BY <2>1, <2>4, <2>7, <3>1, PageSame DEF CardsInv, PageTypes
  <2> QED BY <2>2, <2>6, <2>7
<1> QED BY <1>2, <1>3, <1>4

LEMMA UserSteps ==
  ASSUME CardsInv, NEW s \in Sessions,
         syncSession(s) \/ callOfCard(s) \/ renewQr(s) \/ deleteSession(s) \/ setPhone(s)
  PROVE  CardsInv'
<1>1. PageTypes /\ CallSound /\ polls \in SUBSET PollForm /\ CardTypes /\ OtherTypes
  BY PageParts DEF CardsInv, PageTypes
<1>2. Stir(polls) /\ UNCHANGED <<server, gone>>
  BY DEF syncSession, callOfCard, renewQr, deleteSession, setPhone, UserCalls, Happening
<1>3. CardTypes'
  <2>1. CASE syncSession(s)
    <3>1. CASE SetCards(cards)
      BY <1>1, <3>1, TouchedTypes
    <3>2. CASE SetCards(With(s, IF s \in Carded THEN cards[s] ELSE "none"))
      <4>1. PICK status : status = IF s \in Carded THEN cards[s] ELSE "none"
        OBVIOUS
      <4>2. status \in CardStatuses
        BY <1>1, <4>1 DEF PageTypes, CardStatuses
      <4> QED BY <1>1, <3>2, <4>1, <4>2, SetTypes
    <3> QED BY <2>1, <3>1, <3>2 DEF syncSession
  <2>2. CASE callOfCard(s) \/ deleteSession(s) \/ setPhone(s)
    BY <1>1, <2>2, TouchedTypes DEF callOfCard, deleteSession, setPhone
  <2>3. CASE renewQr(s)
    <3>1. SetCards(With(s, "pending")) /\ "pending" \in CardStatuses
      BY <2>3 DEF renewQr, CardStatuses, Statuses
    <3> QED BY <1>1, <3>1, SetTypes
  <2> QED BY <2>1, <2>2, <2>3
<1>4. OtherTypes'
  <2>1. qr' \in Sessions \cup {NoSession}
    BY <1>1 DEF OtherTypes, syncSession, callOfCard, renewQr, deleteSession, setPhone
  <2>2. poller' \in [Sessions -> 0..PollEvery]
    BY <1>1, PollsStarted DEF OtherTypes, syncSession, callOfCard, renewQr, deleteSession, setPhone
  <2> QED BY <1>1, <1>2, <2>1, <2>2 DEF OtherTypes
<1>5. CallSound'
  <2>1. CASE setPhone(s)
    BY <1>1, <2>1 DEF setPhone, CallSound
  <2>2. CASE \E kind \in CallKinds : UserCalls(kind, s)
    <3>1. PICK kind \in CallKinds : call' = [NoCall EXCEPT !.kind = kind, !.id = s, !.at = "asked", !.qr = qr]
      BY <2>2 DEF UserCalls
    <3>2. call'.kind = kind /\ call'.id = s /\ call'.at = "asked"
      BY <3>1 DEF NoCall
    <3> QED BY <3>2 DEF CallSound, CallKinds
  <2> QED BY <2>1, <2>2 DEF syncSession, callOfCard, renewQr, deleteSession, CallKinds
<1> QED BY <1>1, <1>2, <1>3, <1>4, <1>5, HappenedKeeps

(* The answers to a call.                                                  *)
LEMMA AnswerSteps ==
  ASSUME CardsInv,
         Synced \/ QrShown \/ PairingShown \/ Restarted \/ Disconnected \/ Deleted \/ loadExistingSessions
           \/ handleApiError
  PROVE  CardsInv'
<1>1. PageTypes /\ CallSound /\ polls \in SUBSET PollForm /\ CardTypes /\ OtherTypes
  BY PageParts DEF CardsInv, PageTypes
<1>2. NoCall.kind = "none" /\ NoCall.at = "none"
  BY DEF NoCall
<1>3. "none" \notin CallKinds /\ "list" \notin CallKinds /\ Statuses \subseteq CardStatuses
  BY DEF CallKinds, CardStatuses
<1>4. ASSUME call' = NoCall PROVE CallSound'
  BY <1>2, <1>3, <1>4 DEF CallSound
<1>5. ASSUME NEW kinds \in SUBSET CallKinds, CallAnswered(kinds)
      PROVE  call.id \in Sessions /\ call.got \in Statuses
  BY <1>1, <1>5 DEF CallAnswered, CallSound
<1>6. CASE Synced
  <2>1. /\ call.id \in Sessions /\ call.got \in CardStatuses
    BY <1>3, <1>5, <1>6 DEF Synced, CallKinds
  <2>2. Stir(polls) /\ SetCards(With(call.id, call.got)) /\ call' = NoCall /\ UNCHANGED <<server, gone>>
    BY <1>6 DEF Synced
  <2>3. CardTypes'
    BY <1>1, <2>1, <2>2, SetTypes
  <2>4. OtherTypes'
    BY <1>1, <1>6, <2>1, <2>2, PollsStarted DEF Synced, OtherTypes
  <2> QED BY <1>1, <1>4, <2>2, <2>3, <2>4, HappenedKeeps
<1>7. CASE QrShown \/ PairingShown \/ Disconnected
  <2>1. /\ call.id \in Sessions /\ call.got \in CardStatuses
    BY <1>3, <1>5, <1>7 DEF QrShown, PairingShown, Disconnected, CallKinds
  <2>2. Stir(polls) /\ call' = NoCall /\ UNCHANGED <<server, gone>>
    BY <1>7 DEF QrShown, PairingShown, Disconnected
  <2>3. PICK status \in CardStatuses : SetCards(With(call.id, status))
    BY <1>7, <2>1 DEF QrShown, PairingShown, Disconnected, CardStatuses, Statuses
  <2>4. CardTypes'
    BY <1>1, <2>1, <2>3, SetTypes
  <2>5. OtherTypes'
    BY <1>1, <1>7, <2>1, <2>2, PollsStarted DEF QrShown, PairingShown, Disconnected, OtherTypes
  <2> QED BY <1>1, <1>4, <2>2, <2>4, <2>5, HappenedKeeps
<1>8. CASE Restarted
  <2>1. call.id \in Sessions /\ call.got \in Statuses
    BY <1>5, <1>8 DEF Restarted, CallKinds
  <2>2. /\ Stir(polls) /\ call' = [call EXCEPT !.kind = "resync", !.at = "asked"] /\ SetCards(cards)
        /\ UNCHANGED <<server, qr, poller, gone>>
    BY <1>8 DEF Restarted
  <2>3. call.kind \in {"reconnect", "renewQr", "resetAuth"}
    BY <1>8 DEF Restarted, CallAnswered
  <2>4. call'.kind = "resync" /\ call'.at = "asked" /\ call'.id = call.id
    BY <1>1, <2>2, <2>3 DEF CallSound, CallKinds, NoCall
  <2>5. CallSound'
    BY <2>1, <2>4 DEF CallSound, CallKinds
  <2>6. CardTypes' /\ OtherTypes'
    BY <1>1, <2>2, TouchedTypes DEF OtherTypes
  <2> QED BY <1>1, <2>2, <2>5, <2>6, HappenedKeeps
<1>9. CASE Deleted
  <2>1. call.id \in Sessions
    BY <1>5, <1>9 DEF Deleted, CallKinds
  <2>2. /\ Stir(polls) /\ SetCards(Without({call.id})) /\ gone' = gone \cup {call.id}
        /\ qr' = (IF call.qr = call.id THEN NoSession ELSE qr)
        /\ call' = [NoCall EXCEPT !.kind = "list", !.at = "asked"] /\ UNCHANGED <<server, poller>>
    BY <1>9 DEF Deleted
  <2>3. CardTypes'
    BY <1>1, <2>2, PageConstants DEF SetCards, Without, CardTypes, Carded
  <2>4. OtherTypes'
    BY <1>1, <2>1, <2>2 DEF OtherTypes
  <2>5. CallSound'
    BY <1>3, <2>2 DEF CallSound, NoCall
  <2> QED BY <1>1, <2>2, <2>3, <2>4, <2>5, HappenedKeeps
<1>10. CASE loadExistingSessions
  <2>1. PICK kept, missing : kept = DOMAIN call.list \ gone /\ missing = Carded \ DOMAIN call.list
    OBVIOUS
  <2>2. /\ SetCards([i \in kept \cup (Carded \ missing) |-> IF i \in kept THEN call.list[i] ELSE cards[i]])
        /\ gone' = gone \cup missing /\ polls' = Aged(polls) \cup Poll(kept, "load")
        /\ PutOff(Sessions) /\ call' = NoCall
        /\ UNCHANGED <<server, qr, poller>>
    BY <1>10, <2>1 DEF loadExistingSessions
  <2>3. kept \subseteq Sessions /\ \A s \in kept : call.list[s] \in Statuses
    BY <1>1, <1>10, <2>1 DEF loadExistingSessions, CallAnswered, CallSound
  <2>4. polls' \subseteq PollForm /\ \A p \in polls' : p.old \/ (p.at = "asked" /\ p.by # "refresh")
    <3>1. Poll(kept, "load") \subseteq PollForm /\ \A p \in Poll(kept, "load") : p.at = "asked" /\ p.by = "load"
      BY <2>3, PollsAsked
    <3>2. Aged(polls) \subseteq PollForm /\ \A p \in Aged(polls) : p.old
      BY <1>1 DEF Aged, PollForm
    <3> QED BY <2>2, <3>1, <3>2
  <2>5. missing \subseteq Sessions
    BY <1>1, <2>1 DEF CardTypes
  <2>6. CardTypes'
    <3>1. /\ cards' = [i \in kept \cup (Carded \ missing) |-> IF i \in kept THEN call.list[i] ELSE cards[i]]
          /\ timer' = RefreshEvery
      BY <2>2 DEF SetCards
    <3>2. Carded' = kept \cup (Carded \ missing)
      BY <3>1 DEF Carded
    <3>3. \A i \in Carded' : cards'[i] \in CardStatuses
      BY <1>1, <1>3, <2>3, <3>1, <3>2 DEF CardTypes
    <3> QED BY <1>1, <2>3, <3>1, <3>2, <3>3, PageConstants DEF CardTypes
  <2>7. OtherTypes'
    BY <1>1, <2>2, <2>5 DEF OtherTypes
  <2> QED BY <1>4, <2>2, <2>4, <2>6, <2>7, AllPutOff
<1>11. CASE handleApiError
  <2>1. /\ call.at \in {"asked", "read"} /\ call' = NoCall /\ Stir(polls) /\ UNCHANGED <<server, qr, gone>>
        /\ poller' = IF call.kind = "resync" THEN StartPolling(call.id) ELSE poller
    BY <1>11 DEF handleApiError
  <2>2. call.kind = "list" \/ call.id \in Sessions
    BY <1>1, <1>2, <2>1 DEF CallSound
  <2>3. CASE call.kind = "list"
    <3>1. UNCHANGED <<cards, timer>> /\ poller' = poller
      BY <1>11, <2>1, <2>3 DEF handleApiError
    <3>2. CardTypes' /\ OtherTypes'
      BY <1>1, <2>1, <3>1 DEF CardTypes, OtherTypes, Carded
    <3> QED BY <1>1, <1>4, <2>1, <3>2, HappenedKeeps
  <2>4. CASE call.kind # "list"
    <3>1. SetCards(With(call.id, IF call.id \in Carded THEN cards[call.id] ELSE "none"))
      BY <1>11, <2>4 DEF handleApiError
    <3>2. PICK status : status = IF call.id \in Carded THEN cards[call.id] ELSE "none"
      OBVIOUS
    <3>3. status \in CardStatuses
      BY <1>1, <3>2 DEF PageTypes, CardStatuses
    <3>4. CardTypes'
      BY <1>1, <2>2, <2>4, <3>1, <3>2, <3>3, SetTypes
    <3>5. OtherTypes'
      BY <1>1, <2>1, <2>2, <2>4, PollsStarted DEF OtherTypes
    <3> QED BY <1>1, <1>4, <2>1, <3>4, <3>5, HappenedKeeps
  <2> QED BY <2>3, <2>4
<1> QED BY <1>6, <1>7, <1>8, <1>9, <1>10, <1>11

(* The polls: what a tick asks for, what the server answers, and an answer *)
(* that sets its card.                                                     *)
LEMMA TickStep ==
  ASSUME CardsInv, Tick
  PROVE  CardsInv'
<1>1. PageTypes /\ CallSound
  BY DEF CardsInv
<1>2. PICK due, asked :
        /\ due \subseteq Sessions
        /\ asked = Poll(due, "poller") \cup (IF timer = 1 THEN Poll(Refreshed, "refresh") ELSE {})
        /\ polls' = polls \cup asked
        /\ poller' = [s \in Sessions |-> IF s \in due THEN PollEvery ELSE IF poller[s] = 0 THEN 0 ELSE poller[s] - 1]
        /\ timer' = (IF timer = 1 THEN RefreshEvery ELSE timer - 1)
        /\ calm' = [s \in Sessions |-> IF calm[s] < RefreshEvery THEN calm[s] + 1 ELSE calm[s]]
        /\ UNCHANGED <<server, cards, qr, gone, call>>
  <2>1. PICK due : due = {s \in Sessions : poller[s] = 1}
    OBVIOUS
  <2> QED BY <2>1 DEF Tick
<1>3. Refreshed \subseteq Sessions /\ Refreshed = Carded
  BY <1>1 DEF Refreshed, PageTypes
<1>4. asked \subseteq PollForm /\ \A p \in asked : p.at = "asked"
  BY <1>2, <1>3, PollsAsked
<1>5. poller' \in [Sessions -> 0..PollEvery]
  BY <1>1, <1>2, PageConstants DEF PageTypes
<1>6. timer' \in 1..RefreshEvery
  BY <1>1, <1>2, PageConstants DEF PageTypes
<1>7. calm' \in [Sessions -> 0..RefreshEvery]
  BY <1>1, <1>2, PageConstants DEF PageTypes
<1>8. PageTypes'
  BY <1>1, <1>2, <1>4, <1>5, <1>6, <1>7 DEF PageTypes, Carded
<1>9. CallSound'
  BY <1>1, <1>2 DEF CallSound
<1>10. YoungPollsRead'
  BY <1>2, <1>4 DEF CardsInv, YoungPollsRead
<1>11. Carded' = Carded /\ \A s \in Carded \ gone : Seen(s) => Seen(s)'
  BY <1>2, SeenStays
<1>12. CASE timer = 1
  <2>1. \A s \in Carded \ gone : \E p \in asked : p.id = s /\ ~p.old
    BY <1>2, <1>3, <1>12, PollsAsked
  <2>2. \A s \in Carded' \ gone' : Seen(s)'
    BY <1>2, <1>11, <2>1 DEF Seen
  <2> QED BY <1>8, <1>9, <1>10, <2>2 DEF CardsInv, AskedForAll
<1>13. CASE timer # 1
  <2>1. \A p \in asked : p.by = "poller"
    BY <1>2, <1>13, PollsAsked
  <2>2. AskedForAll'
    BY <1>2, <1>11, <2>1 DEF CardsInv, AskedForAll
  <2>3. ASSUME NEW s \in Carded \ gone, Due(s)
        PROVE  Due(s)'
    <3>1. s \in Sessions /\ calm[s] \in 0..RefreshEvery /\ timer \in 1..RefreshEvery
      BY <1>1, <2>3 DEF PageTypes
    <3>2. calm'[s] = (IF calm[s] < RefreshEvery THEN calm[s] + 1 ELSE calm[s]) /\ timer' = timer - 1
      BY <1>2, <1>13, <3>1
    <3> QED BY <2>3, <3>1, <3>2, PageConstants DEF Due
  <2>4. \A s \in Carded' \ gone' : Seen(s)' \/ Due(s)'
    BY <1>2, <1>11, <2>3 DEF CardsInv
  <2> QED BY <1>8, <1>9, <1>10, <2>2, <2>4 DEF CardsInv
<1> QED BY <1>12, <1>13

LEMMA PollServed ==
  ASSUME CardsInv, NEW p \in polls, ServePoll(p)
  PROVE  CardsInv'
<1>1. PageTypes /\ CallSound
  BY DEF CardsInv
<1>2. PICK r : r = [p EXCEPT !.at = "read", !.got = server[p.id]]
  OBVIOUS
<1>3. p \in PollForm
  BY <1>1 DEF PageTypes
<1>4. r.id = p.id /\ r.at = "read" /\ r.got = server[r.id] /\ r.by = p.by /\ r.old = p.old /\ r \in PollForm
  BY <1>1, <1>2, <1>3 DEF PollForm, PageTypes
<1>5. polls' = (polls \ {p}) \cup {r} /\ UNCHANGED <<server, cards, qr, poller, timer, gone, call, calm>>
  BY <1>2 DEF ServePoll
<1>6. PageTypes' /\ CallSound'
  BY <1>1, <1>4, <1>5 DEF PageTypes, CallSound, Carded
<1>7. YoungPollsRead'
  BY <1>4, <1>5 DEF CardsInv, YoungPollsRead
<1>8. Carded' = Carded /\ \A s \in Carded \ gone : Seen(s) => Seen(s)'
  BY <1>4, <1>5, SeenStays
<1>9. \A s \in Carded \ gone : Due(s) => Due(s)'
  BY <1>5 DEF Due
<1>10. AskedForAll'
  BY <1>4, <1>5, <1>8 DEF CardsInv, AskedForAll
<1> QED BY <1>5, <1>6, <1>7, <1>8, <1>9, <1>10 DEF CardsInv

(* An answer that saw all that happened: its own card is true, and the     *)
(* others were asked for by the same refresh, or are put off.              *)
LEMMA CardShown ==
  ASSUME CardsInv, NEW p \in polls, pollStatus(p), ~p.old, CardTypes', OtherTypes', CallSound'
  PROVE  CardsInv'
<1>1. PageTypes /\ p \in PollForm
  BY DEF CardsInv, PageTypes
<1>2. /\ p.id \in Sessions /\ p.got \in CardStatuses /\ p.at = "read"
      /\ SetCards(With(p.id, p.got)) /\ UNCHANGED <<server, gone, call>>
      /\ polls' = polls \ {p} /\ PutOff(IF p.by = "refresh" THEN {} ELSE Sessions \ {p.id})
  BY <1>1 DEF pollStatus, PollForm, CardStatuses
<1>3. p.got = server[p.id]
  BY <1>2 DEF CardsInv, YoungPollsRead
<1>4. /\ Carded' = Carded \cup {p.id} /\ Carded' \subseteq Sessions /\ cards'[p.id] = server'[p.id]
      /\ \A i \in Carded : i # p.id => cards'[i] = cards[i]
  BY <1>1, <1>2, <1>3, CardSet
<1>5. ASSUME NEW s \in Carded' \ gone', s = p.id \/ Seen(s)
      PROVE  Seen(s)'
  <2>1. CASE s = p.id
    BY <1>4, <2>1 DEF Seen
  <2>2. CASE s # p.id /\ Seen(s)
    BY <1>2, <1>4, <1>5, <2>2 DEF Seen
  <2> QED BY <1>5, <2>1, <2>2
<1>6. AskedForAll'
  <2>1. SUFFICES ASSUME NEW q \in polls', ~q.old, q.by = "refresh", NEW s \in Carded' \ gone'
                 PROVE  Seen(s)'
    BY DEF AskedForAll
  <2>2. s \in Carded \ gone => Seen(s)
    BY <1>2, <2>1 DEF CardsInv, AskedForAll
  <2> QED BY <1>2, <1>4, <1>5, <2>1, <2>2
<1>7. ASSUME NEW s \in Carded' \ gone'
      PROVE  Seen(s)' \/ Due(s)'
  <2>1. CASE s = p.id
    BY <1>5, <1>7, <2>1
  <2>2. CASE s # p.id /\ p.by = "refresh"
    <3>1. Seen(s)
      BY <1>2, <1>4, <1>7, <2>2 DEF CardsInv, AskedForAll
    <3> QED BY <1>5, <1>7, <3>1
  <2>3. CASE s # p.id /\ p.by # "refresh"
    <3>1. s \in Sessions /\ calm'[s] = 0
      BY <1>2, <1>4, <1>7, <2>3 DEF PutOff
    <3>2. timer' = RefreshEvery
      BY <1>2 DEF SetCards
    <3> QED BY <3>1, <3>2, PageConstants DEF Due
  <2> QED BY <2>1, <2>2, <2>3
<1>8. PageTypes'
  <2>1. polls' \subseteq PollForm /\ calm' \in [Sessions -> 0..RefreshEvery]
    BY <1>1, <1>2, PageConstants DEF PageTypes, PutOff
  <2> QED BY <2>1 DEF PageTypes, CardTypes, OtherTypes
<1>9. YoungPollsRead'
  BY <1>2 DEF CardsInv, YoungPollsRead
<1> QED BY <1>6, <1>7, <1>8, <1>9 DEF CardsInv

LEMMA PollEnds ==
  ASSUME CardsInv, NEW p \in polls, pollStatus(p) \/ PollFails(p)
  PROVE  CardsInv'
<1>1. PageTypes /\ CallSound /\ CardTypes /\ OtherTypes /\ polls \ {p} \in SUBSET PollForm
  BY PageParts DEF CardsInv, PageTypes
<1>2. p \in PollForm
  BY <1>1 DEF PageTypes
<1>3. CASE PollFails(p)
  <2>1. Stir(polls \ {p}) /\ UNCHANGED <<server, cards, qr, poller, timer, gone, call>>
    BY <1>3 DEF PollFails
  <2>2. CardTypes' /\ OtherTypes' /\ CallSound'
    BY <1>1, <2>1 DEF CardTypes, OtherTypes, CallSound, Carded
  <2> QED BY <1>1, <2>1, <2>2, HappenedKeeps
<1>4. CASE pollStatus(p)
  <2>1. /\ p.id \in Sessions /\ p.got \in CardStatuses
        /\ SetCards(With(p.id, p.got)) /\ UNCHANGED <<server, gone, call>>
    BY <1>2, <1>4 DEF pollStatus, PollForm, CardStatuses
  <2>2. CardTypes'
    BY <1>1, <2>1, SetTypes
  <2>3. CallSound'
    BY <1>1, <2>1 DEF CallSound
  <2>4. OtherTypes'
    BY <1>1, <1>4, <2>1, PollsStarted DEF pollStatus, OtherTypes
  <2>5. CASE p.old
    <3>1. Stir(polls \ {p})
      BY <1>4, <2>5 DEF pollStatus
    <3> QED BY <1>1, <2>2, <2>3, <2>4, <3>1, HappenedKeeps
  <2>6. CASE ~p.old
    BY <1>4, <2>2, <2>3, <2>4, <2>6, CardShown
  <2> QED BY <2>5, <2>6
<1> QED BY <1>3, <1>4

LEMMA PageStarts ==
  ASSUME PageInit
  PROVE  CardsInv
<1>1. PageTypes
  BY PageConstants DEF PageInit, PageTypes, Carded, Statuses
<1>2. call.kind = "list" /\ call.at = "asked"
  BY DEF PageInit, NoCall
<1>3. CallSound
  BY <1>2 DEF CallSound, CallKinds
<1>4. YoungPollsRead /\ AskedForAll /\ Carded = {}
  BY DEF PageInit, YoungPollsRead, AskedForAll, Carded
<1> QED BY <1>1, <1>3, <1>4 DEF CardsInv

(* On the page of the connections every poll that saw all that happened    *)
(* has what the server has, and each card has been looked at since         *)
(* something last happened or the timer goes off within a period of what   *)
(* last put the card off; while a refresh that saw all is being answered,  *)
(* each card has been looked at.                                           *)
THEOREM CardsInvariant == PageSpec => []CardsInv
<1>1. PageInit => CardsInv
  BY PageStarts
<1>2. ASSUME CardsInv, [PageNext]_pageVars
      PROVE  CardsInv'
  <2>1. CASE ServeCall \/ \E s \in Sessions : ServerChanges(s)
    BY <1>2, <2>1, ServerSteps
  <2>2. CASE \E s \in Sessions : syncSession(s) \/ callOfCard(s) \/ renewQr(s) \/ deleteSession(s) \/ setPhone(s)
    BY <1>2, <2>2, UserSteps
  <2>3. CASE Synced \/ QrShown \/ PairingShown \/ Restarted \/ Disconnected \/ Deleted \/ loadExistingSessions
               \/ handleApiError
    BY <1>2, <2>3, AnswerSteps
  <2>4. CASE Tick
    BY <1>2, <2>4, TickStep
  <2>5. CASE \E p \in polls : ServePoll(p) \/ pollStatus(p) \/ PollFails(p)
    BY <1>2, <2>5, PollServed, PollEnds
  <2>6. CASE clearQr
    BY <1>2, <2>6, PageSame DEF clearQr, CardsInv, CallSound
  <2>7. CASE UNCHANGED pageVars
    <3>1. qr' \in Sessions \cup {NoSession}
      BY <1>2, <2>7 DEF pageVars, CardsInv, PageTypes
    <3> QED BY <1>2, <2>7, <3>1, PageSame DEF pageVars, CardsInv, CallSound
  <2> QED BY <1>2, <2>1, <2>2, <2>3, <2>4, <2>5, <2>6, <2>7 DEF PageNext
<1> QED BY <1>1, <1>2, PTL DEF PageSpec

(* Whatever late answers, failures and calls came before, a card of the    *)
(* connections shows what the server has once nothing has put it off for a *)
(* period of the refresh and no answer about it is under way; the answer   *)
(* to another session's poller is one of the things that put it off.       *)
THEOREM CardsStayTrue == PageSpec => []CardsAreTrue
<1>1. ASSUME CardsInv, NEW s \in Carded \ gone, calm[s] = RefreshEvery, \A p \in polls : p.id # s
      PROVE  cards[s] = server[s]
  <2>1. timer \in 1..RefreshEvery
    BY <1>1 DEF CardsInv, PageTypes
  <2>2. ~Due(s)
    BY <1>1, <2>1, PageConstants DEF Due
  <2> QED BY <1>1, <2>2 DEF CardsInv, Seen
<1>2. CardsInv => CardsAreTrue
  BY <1>1 DEF CardsAreTrue
<1> QED BY <1>2, CardsInvariant, PTL

=============================================================================
