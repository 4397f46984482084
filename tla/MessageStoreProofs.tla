------------------------ MODULE MessageStoreProofs ------------------------
(***************************************************************************)
(* Theorems about MessageStore, for every number of messages and handlers  *)
(* and every bound: the table keeps what MessageLog promises, no message   *)
(* is lost without a failure, and the status shown is the true one; and    *)
(* about HistorySync, for every number of messages, every page and every   *)
(* length of a second: what a session missed is asked for; and about       *)
(* Composer, for every number of chats, recordings, files and clicks: what *)
(* goes to a client was composed in the chat with that client.             *)
(***************************************************************************)
EXTENDS MessageStore, HistorySync, Composer, ConversationScreen, FiniteSetTheorems, SequenceTheorems,
        TLAPS

-----------------------------------------------------------------------------
(* The invariant.                                                          *)
Kinds == {"send", "media", "live", "history", "ack", "edit", "wipe", "erase"}
Jobs  == [kind : Kinds \cup {"none"}, id : Ids \cup {NoRow}, arg : Nat]
Deeds == [known : BOOLEAN, acks : 0..MaxAck, edits : 0..MaxEdit, wiped : BOOLEAN]

Types ==
  /\ rows \in [Ids -> MessageRow \cup {NoRow}]
  /\ told \in [Ids -> Nat]
  /\ own \subseteq Ids /\ wire \in [Ids -> Deeds] /\ offers \in [Ids -> Nat]
  /\ pc \in [Handlers -> {"idle", "deliver", "save", "insert", "tell", "audit", "find",
                          "recheck", "write"}]
  /\ job \in [Handlers -> Jobs]
  /\ answer \in [Ids -> {"none", "ok", "error"}]
  /\ newest \in [Ids -> [ack : Nat, edit : Nat]]
  /\ doubtful \subseteq Ids /\ missed \subseteq Ids /\ faulty \subseteq Ids

(* Where a handler may be, by what it handles, and what it may carry.      *)
HandlerSound(h) ==
  /\ pc[h] = "idle" <=> job[h].id = NoRow
  /\ pc[h] = "idle" <=> job[h].kind = "none"
  /\ Sending(h) => pc[h] \in {"deliver", "save", "insert", "tell", "audit"}
  /\ job[h].kind \in {"live", "history"} => pc[h] \in {"find", "recheck", "insert", "tell"}
  /\ job[h].kind \in {"ack", "edit", "wipe", "erase"} => pc[h] = "write"
  /\ job[h].kind = "ack" => job[h].arg \in 1..wire[job[h].id].acks
  /\ job[h].kind = "edit" => job[h].arg \in 2..wire[job[h].id].edits + 1

HandlersSound == \A h \in Handlers : HandlerSound(h)

(* WhatsApp knows a message before it is stored, and it is stored before   *)
(* it is announced, by one handler.                                        *)
StoredFirst ==
  /\ \A m \in Ids : rows[m] # NoRow => wire[m].known
  /\ \A m \in Ids : rows[m] = NoRow => told[m] = 0 /\ newest[m].ack = 0 /\ newest[m].edit = 0
  /\ \A h \in Handlers : pc[h] \notin {"idle", "deliver"} => wire[job[h].id].known
  /\ \A h \in Handlers : pc[h] = "tell" => rows[job[h].id] # NoRow /\ told[job[h].id] = 0
  /\ \A h, g \in Handlers : pc[h] = "tell" /\ pc[g] = "tell" /\ job[g].id = job[h].id => g = h

ByUs(m)   == rows[m] # NoRow /\ rows[m].by \in {"send", "media"}
ByWire(m) == rows[m] # NoRow /\ rows[m].by \in {"live", "history"}

(* One request sends a message, and its answer says what became of it.     *)
Answered ==
  /\ \A h, g \in Handlers : Sending(h) /\ Sending(g) /\ job[g].id = job[h].id => g = h
  /\ \A h \in Handlers : Sending(h) =>
       /\ job[h].id \in own /\ answer[job[h].id] = "none"
       /\ pc[h] \in {"deliver", "save", "insert"} => ~ByUs(job[h].id)
       /\ pc[h] \in {"tell", "audit"} => ByUs(job[h].id)
       /\ pc[h] = "audit" => told[job[h].id] = 1
  /\ \A m \in Ids : answer[m] = "ok" => told[m] = 1 /\ ByUs(m)
  /\ \A m \in Ids \ faulty : answer[m] = "error" => ByWire(m)

(* What has been delivered but not stored is in some handler's hands, and  *)
(* so is what came live and has not been announced.                        *)
Storing(m) == \E h \in Handlers : job[h].id = m /\ pc[h] \in {"find", "recheck", "insert"}
Telling(m) == \E h \in Handlers : job[h].id = m /\ pc[h] = "tell"

Carried ==
  \A m \in Ids \ faulty :
    /\ offers[m] > 0 => rows[m] # NoRow \/ Storing(m)
    /\ m \notin own /\ rows[m] # NoRow /\ rows[m].by = "live" => told[m] = 1 \/ Telling(m)

(* What WhatsApp has done to a message has been written or is in hand ...  *)
InHand(m, kind, n) ==
  \E h \in Handlers : job[h].id = m /\ job[h].kind = kind /\ job[h].arg = n

Followed ==
  \A m \in Ids \ (faulty \cup missed) :
    /\ \A n \in 1..wire[m].acks : n <= newest[m].ack \/ InHand(m, "ack", n)
    /\ \A n \in 2..wire[m].edits + 1 : n <= newest[m].edit \/ InHand(m, "edit", n)

(* ... and the row shows the last that was written.                        *)
Shown ==
  \A m \in Ids :
    /\ newest[m].ack <= wire[m].acks \/ (newest[m].ack = 1 /\ ByUs(m))
    /\ newest[m].edit = 0 \/ newest[m].edit \in 2..wire[m].edits + 1
    /\ rows[m] # NoRow =>
         /\ ByUs(m) => newest[m].ack > 0
         /\ ~rows[m].gone => Rank[rows[m].status] <= newest[m].ack
         /\ rows[m].first = Unedited => rows[m].text = 1
    /\ rows[m] # NoRow /\ m \notin doubtful =>
         /\ rows[m].text = IF newest[m].edit = 0 THEN 1 ELSE newest[m].edit
         /\ ~rows[m].gone => Rank[rows[m].status] = newest[m].ack

Inv ==
  /\ Types /\ HandlersSound /\ StoredFirst /\ Answered /\ Carried /\ Followed /\ Shown

-----------------------------------------------------------------------------
(* What handlers do to where they are.                                     *)
LEMMA NoMessage == NoRow \notin Ids /\ NoRow \notin MessageRow
BY StoreAssumption

LEMMA Begun ==
  ASSUME Types, NEW h \in Handlers, NEW kind, NEW m, NEW n, NEW s, Begin(h, kind, m, n, s)
  PROVE  /\ pc[h] = "idle" /\ pc'[h] = s
         /\ job'[h].kind = kind /\ job'[h].id = m /\ job'[h].arg = n
         /\ \A g \in Handlers : g # h => pc'[g] = pc[g] /\ job'[g] = job[g]
BY DEF Types, Begin

LEMMA Gone ==
  ASSUME Types, NEW h \in Handlers, NEW s, Goto(h, s)
  PROVE  /\ pc'[h] = s /\ job'[h] = job[h]
         /\ \A g \in Handlers : g # h => pc'[g] = pc[g] /\ job'[g] = job[g]
BY DEF Types, Goto

LEMMA Ended ==
  ASSUME Types, NEW h \in Handlers, End(h)
  PROVE  /\ pc'[h] = "idle" /\ job'[h].kind = "none" /\ job'[h].id = NoRow
         /\ \A g \in Handlers : g # h => pc'[g] = pc[g] /\ job'[g] = job[g]
BY DEF Types, End, NoJob

(* Who is at work works on a message.                                      *)
LEMMA AtWork ==
  ASSUME Types, HandlersSound, NEW h \in Handlers, pc[h] # "idle"
  PROVE  job[h].id \in Ids /\ job[h].kind \in Kinds /\ job[h].arg \in Nat
BY DEF Types, HandlersSound, HandlerSound, Jobs

(* The statuses, ranked.                                                   *)
LEMMA Ranks ==
  /\ DOMAIN Rank = {"received", "sent", "server", "delivered", "read", "deleted"}
  /\ Rank["received"] = 0 /\ Rank["sent"] = 0 /\ Rank["server"] = 1 /\ Rank["delivered"] = 2
  /\ Rank["read"] = 3 /\ Rank["deleted"] = 4
  /\ \A n \in 1..3 : Acks[n] \in DOMAIN Rank /\ Rank[Acks[n]] = n
BY DEF Rank, Acks

LEMMA NewRowIsRow ==
  ASSUME Types, HandlersSound, NEW h \in Handlers, pc[h] = "insert"
  PROVE  /\ NewRow(h) \in MessageRow
         /\ NewRow(h).text = 1 /\ NewRow(h).first = Unedited /\ ~NewRow(h).gone
         /\ NewRow(h).by = job[h].kind
         /\ Rank[NewRow(h).status] = IF Sending(h) THEN 1 ELSE 0
<1>1. job[h].kind \in {"send", "media", "live", "history"}
  BY AtWork DEF HandlersSound, HandlerSound, Kinds
<1>2. 1 \in 1..MaxEdit + 1 /\ 0 \in 0..MaxEdit + 1
  BY StoreAssumption
<1> QED BY <1>1, <1>2, Ranks DEF NewRow, MessageRow, Unedited

LEMMA UpdatedIsRow ==
  ASSUME Types, HandlersSound, NEW h \in Handlers, pc[h] = "write", NEW r \in MessageRow,
         job[h].kind \in {"ack", "edit"}
  PROVE  /\ Updated(r, job[h]) \in MessageRow
         /\ Updated(r, job[h]).by = r.by /\ Updated(r, job[h]).gone = r.gone
         /\ job[h].kind = "ack" =>
              /\ job[h].arg \in 1..wire[job[h].id].acks /\ job[h].arg \in 1..3
              /\ Updated(r, job[h]) = [r EXCEPT !.status = Acks[job[h].arg]]
              /\ Rank[Updated(r, job[h]).status] = job[h].arg
              /\ Updated(r, job[h]).text = r.text /\ Updated(r, job[h]).first = r.first
         /\ job[h].kind = "edit" =>
              /\ job[h].arg \in 2..wire[job[h].id].edits + 1 /\ job[h].arg \in 1..MaxEdit + 1
              /\ Updated(r, job[h]).status = r.status /\ Updated(r, job[h]).text = job[h].arg
              /\ Updated(r, job[h]).first = IF r.first = Unedited THEN r.text ELSE r.first
<1>0. job[h].id \in Ids /\ wire[job[h].id] \in Deeds
  BY AtWork DEF Types
<1>1. CASE job[h].kind = "ack"
  <2>1. job[h].arg \in 1..wire[job[h].id].acks /\ job[h].arg \in 1..3
    BY <1>0, <1>1, StoreAssumption DEF HandlersSound, HandlerSound, Deeds
  <2>2. Updated(r, job[h]) = [r EXCEPT !.status = Acks[job[h].arg]]
    BY <1>1 DEF Updated
  <2>3. Acks[job[h].arg] \in DOMAIN Rank /\ Rank[Acks[job[h].arg]] = job[h].arg
    BY <2>1, Ranks
  <2> HIDE DEF Acks
  <2> QED BY <1>1, <2>1, <2>2, <2>3 DEF MessageRow
<1>2. CASE job[h].kind = "edit"
  <2>1. job[h].arg \in 2..wire[job[h].id].edits + 1 /\ job[h].arg \in 1..MaxEdit + 1
    BY <1>0, <1>2, StoreAssumption DEF HandlersSound, HandlerSound, Deeds
  <2>2. Updated(r, job[h]) =
          [r EXCEPT !.text = job[h].arg, !.first = IF r.first = Unedited THEN r.text ELSE r.first]
    BY <1>2 DEF Updated
  <2>3. (IF r.first = Unedited THEN r.text ELSE r.first) \in 0..MaxEdit + 1
    BY StoreAssumption DEF MessageRow
  <2> QED BY <1>2, <2>1, <2>2, <2>3 DEF MessageRow
<1> QED BY <1>1, <1>2

(* What WhatsApp may do to a message.                                      *)
LEMMA DeedsDone ==
  ASSUME Types, NEW m \in Ids
  PROVE  /\ [wire[m] EXCEPT !.known = TRUE] \in Deeds
         /\ \A b \in BOOLEAN : [wire[m] EXCEPT !.wiped = b] \in Deeds
         /\ wire[m].acks < MaxAck => [wire[m] EXCEPT !.acks = wire[m].acks + 1] \in Deeds
         /\ wire[m].edits < MaxEdit => [wire[m] EXCEPT !.edits = wire[m].edits + 1] \in Deeds
<1>1. wire[m] \in Deeds
  BY DEF Types
<1>2. wire[m].acks < MaxAck => wire[m].acks + 1 \in 0..MaxAck
  BY <1>1, StoreAssumption DEF Deeds
<1>3. wire[m].edits < MaxEdit => wire[m].edits + 1 \in 0..MaxEdit
  BY <1>1, StoreAssumption DEF Deeds
<1> QED BY <1>1, <1>2, <1>3 DEF Deeds

LEMMA TypesStay ==
  ASSUME Types, HandlersSound, [Next]_vars
  PROVE  Types'
<1> USE DEF log, outside, handlers, history
<1>0. /\ rows \in [Ids -> MessageRow \cup {NoRow}] /\ wire \in [Ids -> Deeds]
      /\ \A m \in Ids : wire[m].acks \in Nat /\ wire[m].edits \in Nat
      /\ \A m \in Ids : wire[m].acks < MaxAck => wire[m].acks + 1 \in 0..MaxAck
      /\ \A m \in Ids : wire[m].edits < MaxEdit => wire[m].edits + 1 \in 0..MaxEdit
      /\ \A h \in Handlers : pc[h] # "idle" => job[h].id \in Ids
  BY AtWork, StoreAssumption DEF Types, Deeds
<1>1. ASSUME NEW h \in Handlers, NEW m \in Ids, Arrive(h, m) PROVE Types'
  <2>1. PICK kind \in Kinds, n \in Nat, s \in {"deliver", "find", "write"} : Begin(h, kind, m, n, s)
    BY <1>1, <1>0 DEF Arrive, Send, Upsert, Acknowledge, Edit, Wipe, deleteMessageService, Kinds
  <2>2. pc' \in [Handlers -> {"idle", "deliver", "save", "insert", "tell", "audit", "find",
                          "recheck", "write"}] /\ job' \in [Handlers -> Jobs]
    BY <2>1 DEF Begin, Types, Jobs
  <2>3. wire' \in [Ids -> Deeds]
    <3>1. CASE Send(h, m) \/ Upsert(h, m) \/ deleteMessageService(h, m)
      BY <3>1, <1>0 DEF Send, Upsert, deleteMessageService
    <3>2. CASE Acknowledge(h, m)
      BY <3>2, <1>0, DeedsDone DEF Acknowledge
    <3>3. CASE Edit(h, m)
      BY <3>3, <1>0, DeedsDone DEF Edit
    <3>4. CASE Wipe(h, m)
      BY <3>4, <1>0, DeedsDone DEF Wipe
    <3> QED BY <1>1, <3>1, <3>2, <3>3, <3>4 DEF Arrive
  <2>4. offers' \in [Ids -> Nat]
    BY <1>1 DEF Arrive, Send, Upsert, Acknowledge, Edit, Wipe, deleteMessageService, Types
  <2>5. UNCHANGED <<log, own, answer, history>>
    BY <1>1 DEF Arrive, Send, Upsert, Acknowledge, Edit, Wipe, deleteMessageService
  <2> QED BY <2>2, <2>3, <2>4, <2>5 DEF Types
<1>2. ASSUME NEW h \in Handlers, NEW s \in {"save", "insert", "tell", "audit", "recheck"}, Goto(h, s)
      PROVE  pc' \in [Handlers -> {"idle", "deliver", "save", "insert", "tell", "audit", "find",
                          "recheck", "write"}] /\ job' \in [Handlers -> Jobs]
  BY <1>2 DEF Goto, Types
<1>3. ASSUME NEW h \in Handlers, End(h)
      PROVE  pc' \in [Handlers -> {"idle", "deliver", "save", "insert", "tell", "audit", "find",
                          "recheck", "write"}] /\ job' \in [Handlers -> Jobs]
  BY <1>3 DEF End, NoJob, Types, Jobs
<1>4. ASSUME NEW h \in Handlers, pc[h] # "idle",
             NEW a \in {"ok", "error"}, Reply(h, a)
      PROVE  answer' \in [Ids -> {"none", "ok", "error"}]
  BY <1>4, <1>0 DEF Reply, Types
<1>5. ASSUME NEW h \in Handlers, sendWhatsAppMessage(h) PROVE Types'
  <2>1. job[h].id \in Ids
    BY <1>5, <1>0 DEF sendWhatsAppMessage
  <2>2. wire' \in [Ids -> Deeds]
    <3>1. wire' = wire \/ wire' = [wire EXCEPT ![job[h].id].known = TRUE]
      BY <1>5 DEF sendWhatsAppMessage
    <3>2. [wire[job[h].id] EXCEPT !.known = TRUE] \in Deeds
      BY <2>1, DeedsDone
    <3> QED BY <3>1, <3>2, <1>0
  <2>3. answer' \in [Ids -> {"none", "ok", "error"}] /\ faulty' \subseteq Ids
    BY <1>5, <2>1, <1>4 DEF sendWhatsAppMessage, Types
  <2>4. pc' \in [Handlers -> {"idle", "deliver", "save", "insert", "tell", "audit", "find",
                          "recheck", "write"}] /\ job' \in [Handlers -> Jobs]
    BY <1>5, <1>2, <1>3 DEF sendWhatsAppMessage
  <2> QED BY <1>5, <2>2, <2>3, <2>4 DEF sendWhatsAppMessage, Types
<1>6. ASSUME NEW h \in Handlers, saveMediaBuffer(h) PROVE Types'
  BY <1>6, <1>2 DEF saveMediaBuffer, Types
<1>7. ASSUME NEW h \in Handlers, insertMessage(h) PROVE Types'
  <2>1. pc[h] = "insert" /\ job[h].id \in Ids
    BY <1>7, <1>0 DEF insertMessage
  <2>2. rows' \in [Ids -> MessageRow \cup {NoRow}]
    BY <1>7, <2>1, <1>0, NewRowIsRow DEF insertMessage, Put
  <2>3. newest' \in [Ids -> [ack : Nat, edit : Nat]]
    BY <1>7, <2>1 DEF insertMessage, Types
  <2>4. answer' \in [Ids -> {"none", "ok", "error"}]
    BY <1>7, <2>1, <1>4 DEF insertMessage, Refused, Types
  <2>5. pc' \in [Handlers -> {"idle", "deliver", "save", "insert", "tell", "audit", "find",
                          "recheck", "write"}] /\ job' \in [Handlers -> Jobs]
    BY <1>7, <1>2, <1>3 DEF insertMessage
  <2> QED BY <1>7, <2>2, <2>3, <2>4, <2>5 DEF insertMessage, Types
<1>8. ASSUME NEW h \in Handlers, emitChatEvents(h) PROVE Types'
  <2>1. pc' \in [Handlers -> {"idle", "deliver", "save", "insert", "tell", "audit", "find",
                          "recheck", "write"}] /\ job' \in [Handlers -> Jobs]
    BY <1>8, <1>2, <1>3 DEF emitChatEvents
  <2>2. told' \in [Ids -> Nat]
    BY <1>8, <1>0 DEF emitChatEvents, Types
  <2> QED BY <1>8, <2>1, <2>2 DEF emitChatEvents, Types
<1>9. ASSUME NEW h \in Handlers, logChatMsgAudit(h) PROVE Types'
  <2>1. answer' \in [Ids -> {"none", "ok", "error"}]
    BY <1>9, <1>4 DEF logChatMsgAudit
  <2> QED BY <1>9, <2>1, <1>3 DEF logChatMsgAudit, Types
<1>10. ASSUME NEW h \in Handlers, handleMessagesUpsert(h) PROVE Types'
  <2>1. CASE End(h) \/ Goto(h, "insert") \/ Goto(h, "recheck")
    BY <1>10, <2>1, <1>2, <1>3 DEF handleMessagesUpsert, Types
  <2>2. CASE \E g \in Handlers :
               /\ pc' = [pc EXCEPT ![h] = "insert", ![g] = "write"]
               /\ job' = [job EXCEPT ![g] = [kind |-> "ack", id |-> job[h].id,
                                             arg |-> mapUpsertStatus(job[h].id)]]
    <3>1. job[h].id \in Ids /\ mapUpsertStatus(job[h].id) \in Nat
      BY <1>10, <1>0 DEF handleMessagesUpsert, mapUpsertStatus
    <3>2. job' \in [Handlers -> Jobs]
      BY <2>2, <3>1 DEF Types, Jobs, Kinds
    <3> QED BY <1>10, <2>2, <3>2 DEF handleMessagesUpsert, Types
  <2> QED BY <1>10, <2>1, <2>2 DEF handleMessagesUpsert
<1>11. ASSUME NEW h \in Handlers, handleIncomingWhatsAppMessage(h) PROVE Types'
  BY <1>11, <1>2, <1>3 DEF handleIncomingWhatsAppMessage, Types
<1>12. ASSUME NEW h \in Handlers, updateMessageStatus(h) PROVE Types'
  <2> DEFINE m == job[h].id
  <2>1. pc[h] = "write" /\ m \in Ids /\ job[h].kind \in {"ack", "edit"} /\ job[h].arg \in Nat
    BY <1>12, <1>0, AtWork DEF updateMessageStatus
  <2>2. CASE rows[m] = NoRow
    BY <1>12, <2>1, <2>2, <1>3 DEF updateMessageStatus, Types
  <2>3. CASE rows[m] # NoRow
    <3>1. rows' \in [Ids -> MessageRow \cup {NoRow}]
      <4>1. rows[m] \in MessageRow
        BY <2>1, <2>3, <1>0
      <4>2. Updated(rows[m], job[h]) \in MessageRow
        BY <4>1, <2>1, UpdatedIsRow
      <4> QED BY <1>12, <2>3, <4>2, <1>0 DEF updateMessageStatus, Put
    <3>2. newest' \in [Ids -> [ack : Nat, edit : Nat]]
      <4>1. newest[m] \in [ack : Nat, edit : Nat]
        BY <2>1 DEF Types
      <4>2. PICK n \in Nat : newest' = [newest EXCEPT ![m][job[h].kind] = n]
        BY <1>12, <2>1, <2>3, <4>1 DEF updateMessageStatus
      <4>3. [newest[m] EXCEPT !["ack"] = n] \in [ack : Nat, edit : Nat]
            /\ [newest[m] EXCEPT !["edit"] = n] \in [ack : Nat, edit : Nat]
        BY <4>1
      <4> QED BY <2>1, <4>2, <4>3 DEF Types
    <3>3. doubtful' \subseteq Ids
      BY <1>12, <2>1, <2>3 DEF updateMessageStatus, Types
    <3> QED BY <1>12, <2>3, <3>1, <3>2, <3>3, <1>3 DEF updateMessageStatus, Types
  <2> QED BY <2>2, <2>3
<1>13. ASSUME NEW h \in Handlers, softDeleteMessage(h) PROVE Types'
  <2> DEFINE m == job[h].id
  <2>1. m \in Ids
    BY <1>13, <1>0 DEF softDeleteMessage
  <2>2. rows' \in [Ids -> MessageRow \cup {NoRow}]
    <3>1. CASE rows[m] = NoRow
      BY <1>13, <3>1, <1>0 DEF softDeleteMessage
    <3>2. CASE rows[m] # NoRow
      <4>1. rows[m] \in MessageRow
        BY <2>1, <3>2, <1>0
      <4>2. [rows[m] EXCEPT !.status = "deleted", !.gone = TRUE] \in MessageRow
        BY <4>1, Ranks DEF MessageRow
      <4> QED BY <1>13, <3>2, <4>2, <1>0 DEF softDeleteMessage, Put
    <3> QED BY <3>1, <3>2
  <2>3. wire' \in [Ids -> Deeds]
    <3>1. wire' = wire \/ wire' = [wire EXCEPT ![m].wiped = @ \/ job[h].kind = "erase"]
      BY <1>13 DEF softDeleteMessage
    <3>2. [wire[m] EXCEPT !.wiped = @ \/ job[h].kind = "erase"] \in Deeds
      BY <2>1, <1>0 DEF Deeds
    <3> QED BY <3>1, <3>2, <1>0
  <2>4. missed' \subseteq Ids
    BY <1>13, <2>1 DEF softDeleteMessage, Types
  <2> QED BY <1>13, <2>2, <2>3, <2>4, <1>3 DEF softDeleteMessage, Types
<1>14. ASSUME NEW h \in Handlers, Fail(h) PROVE Types'
  <2>1. pc[h] # "idle" /\ job[h].id \in Ids
    BY <1>14, <1>0 DEF Fail
  <2>2. answer' \in [Ids -> {"none", "ok", "error"}] /\ faulty' \subseteq Ids
    BY <1>14, <2>1, <1>4 DEF Fail, Types
  <2> QED BY <1>14, <2>2, <1>3 DEF Fail, Types
<1>15. ASSUME NEW m \in Ids, PhoneSends(m) PROVE Types'
  BY <1>15, <1>0 DEF PhoneSends, Types, Deeds
<1>16. ASSUME NEW m \in Ids, Dropped(m) PROVE Types'
  <2>1. wire' \in [Ids -> Deeds]
    BY <1>16, <1>0 DEF Dropped, Deeds
  <2>2. offers' \in [Ids -> Nat] /\ faulty' \subseteq Ids
    BY <1>16 DEF Dropped, Types
  <2> QED BY <1>16, <2>1, <2>2 DEF Dropped, Types
<1>17. CASE UNCHANGED vars
  BY <1>17 DEF vars, Types
<1> QED
  BY <1>1, <1>5, <1>6, <1>7, <1>8, <1>9, <1>10, <1>11, <1>12, <1>13, <1>14, <1>15, <1>16, <1>17
  DEF Next, Handle

(* What only grows: what WhatsApp knows, the rows, what has been written   *)
(* and what has gone wrong.                                                *)
Onward(m) ==
  /\ wire[m].known => wire'[m].known
  /\ wire[m].acks <= wire'[m].acks /\ wire[m].edits <= wire'[m].edits
  /\ rows[m] # NoRow => rows'[m] # NoRow /\ rows'[m].by = rows[m].by
  /\ newest[m].ack <= newest'[m].ack /\ newest[m].edit <= newest'[m].edit
  /\ offers[m] <= offers'[m]

Grown ==
  /\ own' = own /\ doubtful \subseteq doubtful' /\ missed \subseteq missed' /\ faulty \subseteq faulty'
  /\ \A m \in Ids : Onward(m)

LEMMA Grows ==
  ASSUME Types, HandlersSound, [Next]_vars
  PROVE  Grown
<1> USE DEF log, outside, handlers, history
<1>0. /\ rows \in [Ids -> MessageRow \cup {NoRow}] /\ wire \in [Ids -> Deeds]
      /\ \A m \in Ids : wire[m].acks \in Nat /\ wire[m].edits \in Nat
      /\ \A m \in Ids : newest[m].ack \in Nat /\ newest[m].edit \in Nat /\ offers[m] \in Nat
      /\ \A h \in Handlers : pc[h] # "idle" => job[h].id \in Ids
      /\ DOMAIN rows = Ids /\ DOMAIN wire = Ids /\ DOMAIN newest = Ids /\ DOMAIN offers = Ids
  BY AtWork DEF Types, Deeds
<1>1. ASSUME UNCHANGED <<own, rows, newest, doubtful, missed>>, faulty \subseteq faulty',
             \A m \in Ids : /\ wire[m].known => wire'[m].known
                            /\ wire[m].acks <= wire'[m].acks /\ wire[m].edits <= wire'[m].edits
                            /\ offers[m] <= offers'[m]
      PROVE  Grown
  BY <1>1, <1>0 DEF Grown, Onward
<1>2. ASSUME UNCHANGED <<own, rows, wire, offers, newest, doubtful, missed>>, faulty \subseteq faulty'
      PROVE  Grown
  BY <1>2, <1>0, <1>1
<1>3. ASSUME NEW h \in Handlers, NEW m \in Ids, Arrive(h, m) PROVE Grown
  <2>1. CASE Send(h, m) \/ deleteMessageService(h, m)
    BY <2>1, <1>2 DEF Send, deleteMessageService
  <2>2. CASE Upsert(h, m)
    BY <2>2, <1>0, <1>1 DEF Upsert
  <2>3. CASE Acknowledge(h, m)
    BY <2>3, <1>0, <1>1 DEF Acknowledge, Deeds
  <2>4. CASE Edit(h, m)
    BY <2>4, <1>0, <1>1 DEF Edit, Deeds
  <2>5. CASE Wipe(h, m)
    BY <2>5, <1>0, <1>1 DEF Wipe, Deeds
  <2> QED BY <1>3, <2>1, <2>2, <2>3, <2>4, <2>5 DEF Arrive
<1>4. ASSUME NEW h \in Handlers, sendWhatsAppMessage(h) PROVE Grown
  BY <1>4, <1>0, <1>1 DEF sendWhatsAppMessage, Deeds
<1>5. ASSUME NEW h \in Handlers,
             \/ saveMediaBuffer(h) \/ emitChatEvents(h) \/ logChatMsgAudit(h)
             \/ handleMessagesUpsert(h) \/ handleIncomingWhatsAppMessage(h) \/ Fail(h)
      PROVE  Grown
  BY <1>5, <1>2 DEF saveMediaBuffer, emitChatEvents, logChatMsgAudit, handleMessagesUpsert,
                    handleIncomingWhatsAppMessage, Fail
<1>6. ASSUME NEW h \in Handlers, insertMessage(h) PROVE Grown
  <2> DEFINE m == job[h].id
  <2>1. pc[h] = "insert" /\ m \in Ids
    BY <1>6, <1>0 DEF insertMessage
  <2>2. UNCHANGED <<own, wire, offers, doubtful, missed, faulty>>
    BY <1>6 DEF insertMessage
  <2>3. CASE UNCHANGED <<rows, newest>>
    BY <2>2, <2>3, <1>2
  <2>4. CASE ~Taken(m) /\ Put(m, NewRow(h))
             /\ newest' = [newest EXCEPT ![m].ack = IF Sending(h) /\ @ = 0 THEN 1 ELSE @]
    <3>1. \A i \in Ids : rows[i] # NoRow => rows'[i] = rows[i]
      BY <2>4, <1>0 DEF Taken, Put
    <3>2. \A i \in Ids : newest[i].ack <= newest'[i].ack /\ newest[i].edit <= newest'[i].edit
      BY <2>4, <2>1, <1>0 DEF Types
    <3> QED BY <2>2, <3>1, <3>2, <1>0 DEF Grown, Onward
  <2> QED BY <1>6, <2>3, <2>4 DEF insertMessage
<1>7. ASSUME NEW h \in Handlers, updateMessageStatus(h) PROVE Grown
  <2> DEFINE m == job[h].id
  <2>1. pc[h] = "write" /\ m \in Ids /\ job[h].kind \in {"ack", "edit"} /\ job[h].arg \in Nat
    BY <1>7, <1>0, AtWork DEF updateMessageStatus
  <2>2. UNCHANGED <<own, wire, offers, faulty>>
    BY <1>7 DEF updateMessageStatus
  <2>3. CASE rows[m] = NoRow
    BY <1>7, <2>2, <2>3, <1>0 DEF updateMessageStatus, Grown, Onward
  <2>4. CASE rows[m] # NoRow
    <3>1. missed' = missed /\ doubtful \subseteq doubtful' /\ Put(m, Updated(rows[m], job[h]))
      BY <1>7, <2>4 DEF updateMessageStatus
    <3>2. rows[m] \in MessageRow
      BY <2>1, <2>4, <1>0
    <3>3. Updated(rows[m], job[h]) \in MessageRow /\ Updated(rows[m], job[h]).by = rows[m].by
      BY <3>2, <2>1, UpdatedIsRow
    <3>4. \A i \in Ids : rows[i] # NoRow => rows'[i] # NoRow /\ rows'[i].by = rows[i].by
      BY <3>1, <3>3, <1>0, NoMessage DEF Put
    <3>5. newest' = [newest EXCEPT ![m][job[h].kind] =
                       IF job[h].arg > newest[m][job[h].kind] THEN job[h].arg ELSE newest[m][job[h].kind]]
      BY <1>7, <2>4 DEF updateMessageStatus
    <3>6. newest[m] \in [ack : Nat, edit : Nat]
      BY <2>1 DEF Types
    <3>7. newest[m].ack <= newest'[m].ack /\ newest[m].edit <= newest'[m].edit
      BY <3>5, <3>6, <2>1, <1>0
    <3>8. \A i \in Ids : i # m => newest'[i] = newest[i]
      BY <3>5, <1>0
    <3> QED BY <2>2, <3>1, <3>4, <3>7, <3>8, <1>0 DEF Grown, Onward
  <2> QED BY <2>3, <2>4
<1>8. ASSUME NEW h \in Handlers, softDeleteMessage(h) PROVE Grown
  <2> DEFINE m == job[h].id
  <2>1. m \in Ids
    BY <1>8, <1>0 DEF softDeleteMessage
  <2>2. UNCHANGED <<own, offers, newest, doubtful, faulty>> /\ missed \subseteq missed'
    BY <1>8 DEF softDeleteMessage
  <2>3. \A i \in Ids : rows[i] # NoRow => rows'[i] # NoRow /\ rows'[i].by = rows[i].by
    <3>1. CASE rows[m] = NoRow
      BY <1>8, <3>1 DEF softDeleteMessage
    <3>2. CASE rows[m] # NoRow
      <4>0. rows[m] \in MessageRow
        BY <2>1, <3>2, <1>0
      <4>1. [rows[m] EXCEPT !.status = "deleted", !.gone = TRUE] \in MessageRow
        BY <4>0, Ranks DEF MessageRow
      <4>2. [rows[m] EXCEPT !.status = "deleted", !.gone = TRUE].by = rows[m].by
        BY <4>0 DEF MessageRow
      <4> QED BY <1>8, <3>2, <4>1, <4>2, <1>0, NoMessage DEF softDeleteMessage, Put
    <3> QED BY <3>1, <3>2
  <2>4. \A i \in Ids : /\ wire'[i].known = wire[i].known
                       /\ wire'[i].acks = wire[i].acks /\ wire'[i].edits = wire[i].edits
    BY <1>8, <2>1, <1>0 DEF softDeleteMessage, Deeds
  <2> QED BY <2>2, <2>3, <2>4, <1>0 DEF Grown, Onward
<1>9. ASSUME NEW m \in Ids, PhoneSends(m) PROVE Grown
  BY <1>9, <1>0, <1>1 DEF PhoneSends, Deeds
<1>10. ASSUME NEW m \in Ids, Dropped(m) PROVE Grown
  BY <1>10, <1>0, <1>1 DEF Dropped, Deeds
<1>11. CASE UNCHANGED vars
  BY <1>11, <1>2 DEF vars
<1> QED
  BY <1>3, <1>4, <1>5, <1>6, <1>7, <1>8, <1>9, <1>10, <1>11 DEF Next, Handle

-----------------------------------------------------------------------------
(* A handler that does not move stays sound, whatever the others do.       *)
LEMMA SoundKept ==
  ASSUME Types, Types', HandlersSound, Grown, NEW g \in Handlers, pc'[g] = pc[g], job'[g] = job[g]
  PROVE  HandlerSound(g)'
<1>1. HandlerSound(g)
  BY DEF HandlersSound
<1>2. CASE pc[g] = "idle"
  BY <1>1, <1>2 DEF HandlerSound, Sending
<1>3. CASE pc[g] # "idle"
  <2>1. job[g].id \in Ids /\ job[g].arg \in Nat
    BY <1>3, AtWork
  <2>2. wire[job[g].id].acks <= wire'[job[g].id].acks /\ wire[job[g].id].edits <= wire'[job[g].id].edits
    BY <2>1 DEF Grown, Onward
  <2>3. /\ wire[job[g].id].acks \in Nat /\ wire[job[g].id].edits \in Nat
        /\ wire'[job[g].id].acks \in Nat /\ wire'[job[g].id].edits \in Nat
    BY <2>1, StoreAssumption DEF Types, Deeds
  <2>4. job[g].kind = "ack" => job[g].arg \in 1..wire'[job[g].id].acks
    BY <1>1, <2>1, <2>2, <2>3 DEF HandlerSound
  <2>5. job[g].kind = "edit" => job[g].arg \in 2..wire'[job[g].id].edits + 1
    BY <1>1, <2>1, <2>2, <2>3 DEF HandlerSound
  <2> QED BY <1>1, <2>4, <2>5 DEF HandlerSound, Sending
<1> QED BY <1>2, <1>3

LEMMA HandlersSoundStay ==
  ASSUME Types, Types', HandlersSound, Grown, [Next]_vars
  PROVE  HandlersSound'
<1> USE DEF log, outside, handlers, history
<1>0. /\ \A m \in Ids : wire[m].acks \in Nat /\ wire[m].edits \in Nat
      /\ \A m \in Ids : wire'[m].acks \in Nat /\ wire'[m].edits \in Nat
      /\ \A h \in Handlers : pc[h] # "idle" => job[h].id \in Ids /\ job[h].kind \in Kinds
      /\ NoRow \notin Ids
  BY AtWork, NoMessage, StoreAssumption DEF Types, Deeds
<1>1. ASSUME NEW h \in Handlers,
             \A g \in Handlers : g # h => pc'[g] = pc[g] /\ job'[g] = job[g],
             HandlerSound(h)'
      PROVE  HandlersSound'
  BY <1>1, SoundKept DEF HandlersSound
<1>2. ASSUME NEW h \in Handlers, End(h) PROVE HandlersSound'
  <2>1. pc'[h] = "idle" /\ job'[h].kind = "none" /\ job'[h].id = NoRow
    BY <1>2, Ended
  <2>2. HandlerSound(h)'
    BY <2>1 DEF HandlerSound, Sending
  <2> QED BY <1>2, <2>2, <1>1, Ended
<1>3. ASSUME NEW h \in Handlers, NEW s, Goto(h, s), pc[h] # "idle", s # "idle",
             Sending(h) => s \in {"deliver", "save", "insert", "tell", "audit"},
             job[h].kind \in {"live", "history"} => s \in {"find", "recheck", "insert", "tell"},
             job[h].kind \notin {"ack", "edit", "wipe", "erase"}
      PROVE  HandlersSound'
  <2>1. pc'[h] = s /\ job'[h] = job[h]
    BY <1>3, Gone
  <2>2. HandlerSound(h)'
    BY <2>1, <1>3, <1>0 DEF HandlerSound, Sending, Kinds
  <2> QED BY <1>3, <2>2, <1>1, Gone
<1>4. ASSUME NEW h \in Handlers, NEW m \in Ids, Arrive(h, m) PROVE HandlersSound'
  <2>1. ASSUME NEW kind, NEW n, NEW s, Begin(h, kind, m, n, s), s # "idle", kind # "none",
               kind \in {"send", "media"} => s = "deliver",
               kind \in {"live", "history"} => s = "find",
               kind \in {"ack", "edit", "wipe", "erase"} => s = "write",
               kind = "ack" => n \in 1..wire'[m].acks, kind = "edit" => n \in 2..wire'[m].edits + 1
        PROVE  HandlersSound'
    <3>1. /\ pc'[h] = s /\ job'[h].kind = kind /\ job'[h].id = m /\ job'[h].arg = n
      BY <2>1, Begun
    <3>2. HandlerSound(h)'
      BY <3>1, <2>1, <1>0 DEF HandlerSound, Sending
    <3> QED BY <2>1, <3>2, <1>1, Begun
  <2>2. CASE Send(h, m)
    BY <2>2, <2>1 DEF Send
  <2>3. CASE Upsert(h, m)
    BY <2>3, <2>1 DEF Upsert
  <2>4. CASE Acknowledge(h, m)
    <3>1. wire'[m].acks = wire[m].acks + 1
      BY <2>4 DEF Acknowledge, Types, Deeds
    <3> QED BY <2>4, <3>1, <2>1, <1>0 DEF Acknowledge
  <2>5. CASE Edit(h, m)
    <3>1. wire'[m].edits = wire[m].edits + 1
      BY <2>5 DEF Edit, Types, Deeds
    <3>2. wire[m].edits + 2 \in 2..wire'[m].edits + 1
      BY <3>1, <1>0
    <3> QED BY <2>5, <3>2, <2>1 DEF Edit
  <2>6. CASE Wipe(h, m)
    BY <2>6, <2>1 DEF Wipe
  <2>7. CASE deleteMessageService(h, m)
    BY <2>7, <2>1 DEF deleteMessageService
  <2> QED BY <1>4, <2>2, <2>3, <2>4, <2>5, <2>6, <2>7 DEF Arrive
<1>5. ASSUME NEW h \in Handlers, sendWhatsAppMessage(h) PROVE HandlersSound'
  BY <1>5, <1>0, <1>2, <1>3 DEF sendWhatsAppMessage, HandlersSound, HandlerSound, Sending, Kinds
<1>6. ASSUME NEW h \in Handlers, saveMediaBuffer(h) PROVE HandlersSound'
  BY <1>6, <1>0, <1>3 DEF saveMediaBuffer, HandlersSound, HandlerSound, Sending, Kinds
<1>7. ASSUME NEW h \in Handlers, insertMessage(h) PROVE HandlersSound'
  BY <1>7, <1>0, <1>2, <1>3 DEF insertMessage, HandlersSound, HandlerSound, Sending, Kinds
<1>8. ASSUME NEW h \in Handlers, emitChatEvents(h) PROVE HandlersSound'
  BY <1>8, <1>0, <1>2, <1>3 DEF emitChatEvents, HandlersSound, HandlerSound, Sending, Kinds
<1>9. ASSUME NEW h \in Handlers, handleMessagesUpsert(h) PROVE HandlersSound'
  <2>1. job[h].kind \in {"live", "history"} /\ pc[h] = "find" /\ job[h].id \in Ids
    BY <1>9, <1>0 DEF handleMessagesUpsert, HandlersSound, HandlerSound, Sending, Kinds
  <2>2. CASE End(h) \/ Goto(h, "insert") \/ Goto(h, "recheck")
    BY <2>1, <2>2, <1>2, <1>3 DEF Sending
  <2>3. ASSUME NEW g \in Handlers, pc[g] = "idle", mapUpsertStatus(job[h].id) > 0,
               pc' = [pc EXCEPT ![h] = "insert", ![g] = "write"],
               job' = [job EXCEPT ![g] = [kind |-> "ack", id |-> job[h].id,
                                          arg |-> mapUpsertStatus(job[h].id)]],
               wire' = wire
        PROVE  HandlersSound'
    <3>1. g # h
      BY <2>1, <2>3
    <3>2. pc'[h] = "insert" /\ job'[h] = job[h]
      BY <2>3, <3>1 DEF Types
    <3>3. pc'[g] = "write" /\ job'[g].kind = "ack" /\ job'[g].id = job[h].id
          /\ job'[g].arg = wire[job[h].id].acks
      BY <2>3, <3>1 DEF Types, mapUpsertStatus
    <3>4. HandlerSound(h)'
      BY <3>2, <2>1, <1>0 DEF HandlerSound, Sending
    <3>5. HandlerSound(g)'
      BY <3>3, <2>1, <2>3, <1>0 DEF HandlerSound, Sending, mapUpsertStatus
    <3>6. \A f \in Handlers \ {g, h} : pc'[f] = pc[f] /\ job'[f] = job[f]
      BY <2>3 DEF Types
    <3> QED BY <3>4, <3>5, <3>6, SoundKept DEF HandlersSound
  <2> QED BY <1>9, <2>2, <2>3 DEF handleMessagesUpsert
<1>10. ASSUME NEW h \in Handlers, handleIncomingWhatsAppMessage(h) PROVE HandlersSound'
  BY <1>10, <1>0, <1>2, <1>3 DEF handleIncomingWhatsAppMessage, HandlersSound, HandlerSound, Sending, Kinds
<1>11. ASSUME NEW h \in Handlers,
              logChatMsgAudit(h) \/ updateMessageStatus(h) \/ softDeleteMessage(h) \/ Fail(h)
       PROVE  HandlersSound'
  BY <1>11, <1>2 DEF logChatMsgAudit, updateMessageStatus, softDeleteMessage, Fail
<1>12. ASSUME UNCHANGED handlers PROVE HandlersSound'
  BY <1>12, SoundKept DEF HandlersSound
<1> QED
  BY <1>4, <1>5, <1>6, <1>7, <1>8, <1>9, <1>10, <1>11, <1>12 DEF Next, Handle, PhoneSends, Dropped, vars

LEMMA StoredFirstStays ==
  ASSUME Types, Types', HandlersSound, HandlersSound', Grown, StoredFirst, [Next]_vars
  PROVE  StoredFirst'
<1> USE DEF log, outside, handlers, history
<1>0. /\ \A h \in Handlers : pc[h] # "idle" => job[h].id \in Ids
      /\ \A m \in Ids : wire[m].known => wire'[m].known
      /\ \A m \in Ids : rows[m] # NoRow => rows'[m] # NoRow
      /\ DOMAIN rows = Ids /\ DOMAIN told = Ids /\ DOMAIN newest = Ids
  BY AtWork DEF Grown, Onward, Types
<1>1. ASSUME NEW h \in Handlers, \A g \in Handlers : g # h => pc'[g] = pc[g] /\ job'[g] = job[g],
             pc'[h] # "tell", pc'[h] \notin {"idle", "deliver"} => wire'[job'[h].id].known,
             told' = told,
             \A m \in Ids : rows'[m] # NoRow => wire'[m].known,
             \A m \in Ids : rows'[m] = NoRow => newest'[m].ack = 0 /\ newest'[m].edit = 0
      PROVE  StoredFirst'
  <2>1. \A m \in Ids : rows'[m] = NoRow => told'[m] = 0
    BY <1>1, <1>0 DEF StoredFirst
  <2>2. \A g \in Handlers : pc'[g] \notin {"idle", "deliver"} => wire'[job'[g].id].known
    <3>1. \A g \in Handlers : g # h /\ pc'[g] \notin {"idle", "deliver"} => wire'[job'[g].id].known
      BY <1>1, <1>0 DEF StoredFirst
    <3> QED BY <3>1, <1>1
  <2>3. \A g \in Handlers : pc'[g] = "tell" => rows'[job'[g].id] # NoRow /\ told'[job'[g].id] = 0
    BY <1>1, <1>0 DEF StoredFirst
  <2>4. \A f, g \in Handlers : pc'[f] = "tell" /\ pc'[g] = "tell" /\ job'[g].id = job'[f].id => g = f
    BY <1>1 DEF StoredFirst
  <2> QED BY <1>1, <2>1, <2>2, <2>3, <2>4 DEF StoredFirst
<1>2. ASSUME UNCHANGED <<rows, newest>>
      PROVE  /\ \A m \in Ids : rows'[m] # NoRow => wire'[m].known
             /\ \A m \in Ids : rows'[m] = NoRow => newest'[m].ack = 0 /\ newest'[m].edit = 0
  BY <1>2, <1>0 DEF StoredFirst
<1>3. ASSUME NEW h \in Handlers, NEW m \in Ids, Arrive(h, m) PROVE StoredFirst'
  <2>1. PICK kind, n, s : Begin(h, kind, m, n, s) /\ s \in {"deliver", "find", "write"}
                          /\ (s # "deliver" => wire[m].known)
    BY <1>3 DEF Arrive, Send, Upsert, Acknowledge, Edit, Wipe, deleteMessageService, StoredFirst,
                findMessageByWhatsappId
  <2>2. UNCHANGED <<rows, told, newest>>
    BY <1>3 DEF Arrive, Send, Upsert, Acknowledge, Edit, Wipe, deleteMessageService
  <2>3. pc'[h] = s /\ job'[h].id = m
    BY <2>1, Begun
  <2>4. wire[m].known => wire'[m].known
    BY <1>0
  <2> QED BY <2>1, <2>2, <2>3, <2>4, <1>1, <1>2, Begun
<1>4. ASSUME NEW h \in Handlers, UNCHANGED <<rows, told, newest>>, End(h) PROVE StoredFirst'
  BY <1>4, <1>1, <1>2, Ended
<1>5. ASSUME NEW h \in Handlers, UNCHANGED <<rows, told, newest>>, NEW s, Goto(h, s), s # "tell",
             pc[h] # "idle", s # "idle", wire'[job[h].id].known
      PROVE  StoredFirst'
  BY <1>5, <1>1, <1>2, Gone
<1>6. ASSUME NEW h \in Handlers, sendWhatsAppMessage(h) PROVE StoredFirst'
  <2>1. UNCHANGED <<rows, told, newest>> /\ job[h].id \in Ids
    BY <1>6, <1>0 DEF sendWhatsAppMessage
  <2>2. CASE End(h)
    BY <2>1, <2>2, <1>4
  <2>3. CASE wire' = [wire EXCEPT ![job[h].id].known = TRUE]
             /\ Goto(h, IF job[h].kind = "media" THEN "save" ELSE "insert")
    <3>1. wire'[job[h].id].known
      BY <2>1, <2>3 DEF Types, Deeds
    <3> QED BY <1>6, <2>1, <2>3, <3>1, <1>5 DEF sendWhatsAppMessage
  <2> QED BY <1>6, <2>2, <2>3 DEF sendWhatsAppMessage
<1>7. ASSUME NEW h \in Handlers, saveMediaBuffer(h) \/ handleIncomingWhatsAppMessage(h) PROVE StoredFirst'
  <2>1. wire'[job[h].id].known
    BY <1>7, <1>0 DEF saveMediaBuffer, handleIncomingWhatsAppMessage, StoredFirst
  <2> QED BY <1>7, <2>1, <1>4, <1>5 DEF saveMediaBuffer, handleIncomingWhatsAppMessage
<1>8. ASSUME NEW h \in Handlers, logChatMsgAudit(h) \/ Fail(h) PROVE StoredFirst'
  BY <1>8, <1>4 DEF logChatMsgAudit, Fail
<1>9. ASSUME NEW h \in Handlers, handleMessagesUpsert(h) PROVE StoredFirst'
  <2>1. wire'[job[h].id].known /\ pc[h] = "find" /\ UNCHANGED <<rows, told, newest>>
    BY <1>9, <1>0 DEF handleMessagesUpsert, StoredFirst
  <2>2. CASE End(h) \/ Goto(h, "insert") \/ Goto(h, "recheck")
    BY <2>1, <2>2, <1>4, <1>5
  <2>3. ASSUME NEW g \in Handlers, pc[g] = "idle",
               pc' = [pc EXCEPT ![h] = "insert", ![g] = "write"],
               job' = [job EXCEPT ![g] = [kind |-> "ack", id |-> job[h].id,
                                          arg |-> mapUpsertStatus(job[h].id)]]
        PROVE  StoredFirst'
    <3>1. g # h
      BY <2>1, <2>3
    <3>2. pc'[h] = "insert" /\ job'[h] = job[h] /\ pc'[g] = "write" /\ job'[g].id = job[h].id
      BY <2>3, <3>1 DEF Types
    <3>3. \A f \in Handlers \ {g, h} : pc'[f] = pc[f] /\ job'[f] = job[f]
      BY <2>3 DEF Types
    <3>4. \A f \in Handlers : pc'[f] \notin {"idle", "deliver"} => wire'[job'[f].id].known
      <4>1. \A f \in Handlers \ {g, h} : pc'[f] \notin {"idle", "deliver"} => wire'[job'[f].id].known
        BY <3>3, <1>0 DEF StoredFirst
      <4> QED BY <4>1, <3>2, <2>1
    <3>5. \A f \in Handlers : pc'[f] = "tell" => pc[f] = "tell" /\ job'[f] = job[f]
      BY <3>2, <3>3
    <3> QED BY <2>1, <3>4, <3>5, <1>0, <1>2 DEF StoredFirst
  <2> QED BY <1>9, <2>2, <2>3 DEF handleMessagesUpsert
<1>10. ASSUME NEW h \in Handlers, insertMessage(h) PROVE StoredFirst'
  <2> DEFINE m == job[h].id
  <2>1. pc[h] = "insert" /\ m \in Ids /\ wire[m].known /\ wire' = wire /\ told' = told
    BY <1>10, <1>0 DEF insertMessage, StoredFirst
  <2>2. CASE End(h) /\ UNCHANGED <<rows, newest>>
    BY <2>1, <2>2, <1>4
  <2>3. CASE /\ ~Taken(m) /\ Put(m, NewRow(h))
             /\ newest' = [newest EXCEPT ![m].ack = IF Sending(h) /\ @ = 0 THEN 1 ELSE @]
             /\ \/ Goto(h, "tell") \/ End(h)
    <3>1. rows'[m] # NoRow /\ rows[m] = NoRow /\ \A i \in Ids : i # m => rows'[i] = rows[i] /\ newest'[i] = newest[i]
      BY <2>1, <2>3, <1>0, NewRowIsRow, NoMessage DEF Taken, Put
    <3>2. \A i \in Ids : rows'[i] # NoRow => wire'[i].known
      BY <2>1, <3>1 DEF StoredFirst
    <3>3. \A i \in Ids : rows'[i] = NoRow => told'[i] = 0 /\ newest'[i].ack = 0 /\ newest'[i].edit = 0
      BY <2>1, <3>1, <1>0 DEF StoredFirst
    <3>4. CASE End(h)
      BY <2>1, <3>2, <3>3, <3>4, <1>1, Ended
    <3>5. CASE Goto(h, "tell")
      <4>1. /\ pc'[h] = "tell" /\ job'[h] = job[h]
           /\ \A g \in Handlers : g # h => pc'[g] = pc[g] /\ job'[g] = job[g]
        BY <3>5, Gone
      <4>2. told[m] = 0
        BY <2>1, <3>1 DEF StoredFirst
      <4>3. \A g \in Handlers : g # h /\ pc[g] = "tell" => job[g].id # m /\ job[g].id \in Ids
        BY <3>1, <1>0 DEF StoredFirst
      <4>4. \A g \in Handlers : pc'[g] \notin {"idle", "deliver"} => wire'[job'[g].id].known
        BY <4>1, <2>1 DEF StoredFirst
      <4>5. \A g \in Handlers : pc'[g] = "tell" => rows'[job'[g].id] # NoRow /\ told'[job'[g].id] = 0
        BY <4>1, <4>2, <4>3, <2>1, <3>1, <1>0 DEF StoredFirst
      <4>6. \A f, g \in Handlers : pc'[f] = "tell" /\ pc'[g] = "tell" /\ job'[g].id = job'[f].id => g = f
        BY <4>1, <4>3 DEF StoredFirst
      <4> QED BY <3>2, <3>3, <4>4, <4>5, <4>6 DEF StoredFirst
    <3> QED BY <2>3, <3>4, <3>5
  <2> QED BY <1>10, <2>2, <2>3 DEF insertMessage
<1>11. ASSUME NEW h \in Handlers, emitChatEvents(h) PROVE StoredFirst'
  <2> DEFINE m == job[h].id
  <2>1. pc[h] = "tell" /\ m \in Ids /\ UNCHANGED <<rows, wire, newest>>
        /\ told' = [told EXCEPT ![m] = @ + 1] /\ pc'[h] # "tell" /\ job'[h].id \in {m, NoRow}
    BY <1>11, <1>0, Gone, Ended DEF emitChatEvents
  <2>2. \A g \in Handlers : g # h => pc'[g] = pc[g] /\ job'[g] = job[g]
    BY <1>11, Gone, Ended DEF emitChatEvents
  <2>3. pc'[h] \notin {"idle", "deliver"} => wire'[job'[h].id].known
    <3>1. wire[m].known
      BY <2>1 DEF StoredFirst
    <3>2. pc'[h] # "idle" => job'[h] = job[h]
      BY <1>11, Gone, Ended DEF emitChatEvents
    <3> QED BY <2>1, <3>1, <3>2
  <2>4. \A g \in Handlers : g # h /\ pc[g] = "tell" => job[g].id # m
    BY <2>1 DEF StoredFirst
  <2>5. \A i \in Ids : i # m => told'[i] = told[i]
    BY <2>1, <1>0
  <2>6. rows[m] # NoRow
    BY <2>1 DEF StoredFirst
  <2>7. \A i \in Ids : rows'[i] = NoRow => told'[i] = 0 /\ newest'[i].ack = 0 /\ newest'[i].edit = 0
    BY <2>1, <2>5, <2>6 DEF StoredFirst
  <2>8. \A g \in Handlers : pc'[g] \notin {"idle", "deliver"} => wire'[job'[g].id].known
    BY <2>1, <2>2, <2>3 DEF StoredFirst
  <2>9. \A g \in Handlers : pc'[g] = "tell" => rows'[job'[g].id] # NoRow /\ told'[job'[g].id] = 0
    BY <2>1, <2>2, <2>4, <2>5, <1>0 DEF StoredFirst
  <2>10. \A f, g \in Handlers : pc'[f] = "tell" /\ pc'[g] = "tell" /\ job'[g].id = job'[f].id => g = f
    BY <2>1, <2>2 DEF StoredFirst
  <2>11. \A i \in Ids : rows'[i] # NoRow => wire'[i].known
    BY <2>1 DEF StoredFirst
  <2> QED BY <2>7, <2>8, <2>9, <2>10, <2>11 DEF StoredFirst
<1>12. ASSUME NEW h \in Handlers, updateMessageStatus(h) \/ softDeleteMessage(h) PROVE StoredFirst'
  <2>1. End(h) /\ told' = told
    BY <1>12 DEF updateMessageStatus, softDeleteMessage
  <2>2. /\ \A m \in Ids : rows[m] = NoRow => rows'[m] = NoRow /\ newest'[m] = newest[m]
    BY <1>12, <1>0 DEF updateMessageStatus, softDeleteMessage, Put
  <2>3. \A m \in Ids : rows'[m] # NoRow => wire'[m].known
    BY <2>2, <1>0 DEF StoredFirst
  <2>4. \A m \in Ids : rows'[m] = NoRow => newest'[m].ack = 0 /\ newest'[m].edit = 0
    BY <2>2, <1>0 DEF StoredFirst
  <2> QED BY <2>1, <2>3, <2>4, <1>1, Ended
<1>13. ASSUME UNCHANGED <<handlers, rows, told, newest>> PROVE StoredFirst'
  BY <1>13, <1>0 DEF StoredFirst
<1> QED
  BY <1>3, <1>6, <1>7, <1>8, <1>9, <1>10, <1>11, <1>12, <1>13 DEF Next, Handle, PhoneSends, Dropped, vars

LEMMA AnsweredStays ==
  ASSUME Types, Types', HandlersSound, HandlersSound', Grown, StoredFirst, StoredFirst', Answered,
         [Next]_vars
  PROVE  Answered'
<1> USE DEF log, outside, handlers, history
<1>0. /\ \A h \in Handlers : pc[h] # "idle" => job[h].id \in Ids /\ job[h].kind \in Kinds
      /\ \A m \in Ids : ByUs(m) => ByUs(m)'
      /\ \A m \in Ids : ByWire(m) => ByWire(m)'
      /\ \A m \in Ids : rows[m] # NoRow /\ ByUs(m)' => ByUs(m)
      /\ \A h \in Handlers : Sending(h) => pc[h] # "idle"
      /\ own' = own /\ faulty \subseteq faulty'
      /\ DOMAIN told = Ids /\ DOMAIN answer = Ids /\ DOMAIN rows = Ids
  BY AtWork DEF Grown, Onward, ByUs, ByWire, Types, HandlersSound, HandlerSound, Sending
<1>1. ASSUME \A g \in Handlers : Sending(g)' => pc'[g] = pc[g] /\ job'[g] = job[g],
             \A m \in Ids : told[m] = 1 => told'[m] = 1,
             \A m \in Ids : ByUs(m)' => ByUs(m),
             answer' = answer
      PROVE  Answered'
  <2>1. \A g \in Handlers : Sending(g)' => Sending(g) /\ job[g].id \in Ids
    BY <1>1, <1>0 DEF Sending
  <2>2. \A h, g \in Handlers : Sending(h)' /\ Sending(g)' /\ job'[g].id = job'[h].id => g = h
    BY <1>1, <2>1 DEF Answered
  <2>3. ASSUME NEW h \in Handlers, Sending(h)', NEW m \in Ids, m = job[h].id
        PROVE  /\ m \in own /\ answer'[m] = "none"
               /\ pc'[h] \in {"deliver", "save", "insert"} => ~ByUs(m)'
               /\ pc'[h] \in {"tell", "audit"} => ByUs(m)'
               /\ pc'[h] = "audit" => told'[m] = 1
    BY <1>1, <2>1, <2>3, <1>0 DEF Answered
  <2>4. \A m \in Ids : answer'[m] = "ok" => told'[m] = 1 /\ ByUs(m)'
    BY <1>1, <1>0 DEF Answered
  <2>5. \A m \in Ids \ faulty' : answer'[m] = "error" => ByWire(m)'
    BY <1>1, <1>0 DEF Answered
  <2> QED BY <2>1, <2>2, <2>3, <2>4, <2>5, <1>0, <1>1 DEF Answered, ByUs
<1>2. ASSUME NEW h \in Handlers, Sending(h), NEW m \in Ids, m = job[h].id,
             \A g \in Handlers : g # h => pc'[g] = pc[g] /\ job'[g] = job[g],
             \A i \in Ids : told[i] = 1 => told'[i] = 1,
             \A i \in Ids : i # m => (ByUs(i)' => ByUs(i)) /\ answer'[i] = answer[i],
             Sending(h)' => /\ job'[h] = job[h] /\ answer'[m] = "none"
                            /\ pc'[h] \in {"deliver", "save", "insert"} => ~ByUs(m)'
                            /\ pc'[h] \in {"tell", "audit"} => ByUs(m)'
                            /\ pc'[h] = "audit" => told'[m] = 1,
             answer'[m] = "ok" => told'[m] = 1 /\ ByUs(m)',
             m \notin faulty' /\ answer'[m] = "error" => ByWire(m)'
      PROVE  Answered'
  <2>1. \A g \in Handlers : Sending(g)' => Sending(g) /\ job[g].id \in Ids /\ job'[g] = job[g]
    BY <1>2, <1>0 DEF Sending
  <2>2. \A f, g \in Handlers : Sending(f)' /\ Sending(g)' /\ job'[g].id = job'[f].id => g = f
    BY <2>1 DEF Answered
  <2>3. \A g \in Handlers : g # h /\ Sending(g)' => job[g].id # job[h].id
    BY <1>2, <2>1 DEF Answered
  <2>4. ASSUME NEW g \in Handlers, Sending(g)', NEW i \in Ids, i = job[g].id
        PROVE  /\ i \in own /\ answer'[i] = "none"
               /\ pc'[g] \in {"deliver", "save", "insert"} => ~ByUs(i)'
               /\ pc'[g] \in {"tell", "audit"} => ByUs(i)'
               /\ pc'[g] = "audit" => told'[i] = 1
    <3>1. CASE g = h
      BY <1>2, <2>1, <2>4, <3>1, <1>0 DEF Answered
    <3>2. CASE g # h
      BY <1>2, <2>1, <2>3, <2>4, <3>2, <1>0 DEF Answered
    <3> QED BY <3>1, <3>2
  <2>5. \A i \in Ids : answer'[i] = "ok" => told'[i] = 1 /\ ByUs(i)'
    BY <1>2, <1>0 DEF Answered
  <2>6. \A i \in Ids \ faulty' : answer'[i] = "error" => ByWire(i)'
    BY <1>2, <1>0 DEF Answered
  <2> QED BY <2>1, <2>2, <2>4, <2>5, <2>6, <1>0 DEF Answered, ByUs
<1>3. ASSUME NEW h \in Handlers, NEW m \in Ids, Send(h, m) PROVE Answered'
  <2>1. PICK kind \in {"send", "media"} : Begin(h, kind, m, 0, "deliver")
    BY <1>3 DEF Send
  <2>2. /\ m \in own /\ answer[m] = "none" /\ ~wire[m].known /\ UNCHANGED <<rows, told, answer, own, faulty>>
        /\ \A g \in Handlers : job[g].id # m
    BY <1>3 DEF Send
  <2>3. ~ByUs(m)
    BY <2>2 DEF StoredFirst, ByUs
  <2>4. /\ pc'[h] = "deliver" /\ job'[h].id = m
       /\ \A g \in Handlers : g # h => pc'[g] = pc[g] /\ job'[g] = job[g]
    BY <2>1, Begun
  <2>5. \A g \in Handlers : g # h /\ Sending(g)' => Sending(g) /\ job[g].id # m
    BY <2>2, <2>4 DEF Sending
  <2>6. \A f, g \in Handlers : Sending(f)' /\ Sending(g)' /\ job'[g].id = job'[f].id => g = f
    BY <2>4, <2>5 DEF Answered
  <2>7. ASSUME NEW g \in Handlers, Sending(g)'
        PROVE  /\ job'[g].id \in own /\ answer[job'[g].id] = "none"
               /\ pc'[g] \in {"deliver", "save", "insert"} => ~ByUs(job'[g].id)
               /\ pc'[g] \in {"tell", "audit"} => ByUs(job'[g].id)
               /\ pc'[g] = "audit" => told[job'[g].id] = 1
    <3>1. CASE g = h
      BY <2>2, <2>3, <2>4, <3>1
    <3>2. CASE g # h
      BY <2>4, <2>5, <2>7, <3>2 DEF Answered
    <3> QED BY <3>1, <3>2
  <2> QED BY <2>2, <2>6, <2>7, <1>0 DEF Answered, ByUs, ByWire
<1>4. ASSUME NEW h \in Handlers, NEW m \in Ids,
             Upsert(h, m) \/ Acknowledge(h, m) \/ Edit(h, m) \/ Wipe(h, m) \/ deleteMessageService(h, m)
      PROVE  Answered'
  <2>1. PICK kind, n, s : Begin(h, kind, m, n, s) /\ kind \notin {"send", "media"}
    BY <1>4 DEF Upsert, Acknowledge, Edit, Wipe, deleteMessageService
  <2>2. UNCHANGED <<rows, told, answer>>
    BY <1>4 DEF Upsert, Acknowledge, Edit, Wipe, deleteMessageService
  <2>3. \A g \in Handlers : Sending(g)' => pc'[g] = pc[g] /\ job'[g] = job[g]
    BY <2>1, Begun DEF Sending
  <2> QED BY <2>2, <2>3, <1>1 DEF ByUs
<1>5. ASSUME NEW h \in Handlers, sendWhatsAppMessage(h) PROVE Answered'
  <2>0. pc[h] = "deliver" /\ job[h].id \in Ids
    BY <1>5, <1>0 DEF sendWhatsAppMessage
  <2> PICK m \in Ids : m = job[h].id
    BY <2>0
  <2>1. pc[h] = "deliver" /\ m = job[h].id /\ UNCHANGED <<rows, told, own>>
    BY <2>0, <1>5, <1>0 DEF sendWhatsAppMessage
  <2>2. Sending(h) /\ m \in own /\ answer[m] = "none" /\ ~ByUs(m)
    <3>1. Sending(h)
      BY <2>1, <1>0 DEF HandlersSound, HandlerSound, Sending, Kinds
    <3> QED BY <2>1, <3>1 DEF Answered
  <2>3. CASE End(h) /\ Reply(h, "error") /\ faulty' = faulty \cup {m}
    <3>1. /\ ~Sending(h)'
         /\ \A g \in Handlers : g # h => pc'[g] = pc[g] /\ job'[g] = job[g]
      BY <2>3, Ended DEF Sending
    <3>2. answer' = [answer EXCEPT ![m] = "error"]
      BY <2>2, <2>3 DEF Reply
    <3> QED BY <2>1, <2>2, <2>3, <3>1, <3>2, <1>0, <1>2 DEF ByUs
  <2>4. CASE Goto(h, IF job[h].kind = "media" THEN "save" ELSE "insert") /\ UNCHANGED answer
    <3>1. /\ pc'[h] \in {"save", "insert"} /\ job'[h] = job[h]
         /\ \A g \in Handlers : g # h => pc'[g] = pc[g] /\ job'[g] = job[g]
      BY <2>4, Gone
    <3>2. ~ByUs(m)' /\ \A i \in Ids : ByUs(i)' => ByUs(i)
      BY <2>1, <2>2 DEF ByUs
    <3> QED BY <2>1, <2>2, <2>4, <3>1, <3>2, <1>0, <1>2
  <2> QED BY <1>5, <2>3, <2>4 DEF sendWhatsAppMessage
<1>6. ASSUME NEW h \in Handlers, saveMediaBuffer(h) PROVE Answered'
  <2>0. pc[h] = "save" /\ job[h].id \in Ids
    BY <1>6, <1>0 DEF saveMediaBuffer
  <2> PICK m \in Ids : m = job[h].id
    BY <2>0
  <2>1. pc[h] = "save" /\ m = job[h].id /\ UNCHANGED <<rows, told, own, answer>>
    BY <2>0, <1>6, <1>0 DEF saveMediaBuffer
  <2>2. Sending(h) /\ m \in own /\ answer[m] = "none" /\ ~ByUs(m)
    <3>1. Sending(h)
      BY <2>1, <1>0 DEF HandlersSound, HandlerSound, Sending, Kinds
    <3> QED BY <2>1, <3>1 DEF Answered
  <2>3. /\ pc'[h] = "insert" /\ job'[h] = job[h]
       /\ \A g \in Handlers : g # h => pc'[g] = pc[g] /\ job'[g] = job[g]
    BY <1>6, Gone DEF saveMediaBuffer
  <2>4. ~ByUs(m)' /\ \A i \in Ids : ByUs(i)' => ByUs(i)
    BY <2>1, <2>2 DEF ByUs
  <2> QED BY <2>1, <2>2, <2>3, <2>4, <1>0, <1>2
<1>7. ASSUME NEW h \in Handlers, insertMessage(h) PROVE Answered'
  <2>0. pc[h] = "insert" /\ job[h].id \in Ids
    BY <1>7, <1>0 DEF insertMessage
  <2> PICK m \in Ids : m = job[h].id
    BY <2>0
  <2>1. pc[h] = "insert" /\ m = job[h].id /\ UNCHANGED <<told, own>> /\ rows[m] \in MessageRow \cup {NoRow}
    BY <2>0, <1>7, <1>0 DEF insertMessage, Types
  <2>2. CASE ~Taken(m) /\ Put(m, NewRow(h)) /\ UNCHANGED answer
             /\ IF Sending(h) \/ (m \notin own /\ job[h].kind = "live") THEN Goto(h, "tell") ELSE End(h)
    <3>1. rows'[m] = NewRow(h) /\ \A i \in Ids : i # m => rows'[i] = rows[i]
      BY <2>1, <2>2, <1>0 DEF Put
    <3>2. NewRow(h) # NoRow /\ NewRow(h).by = job[h].kind
      BY <2>1, NewRowIsRow, NoMessage
    <3>3. \A i \in Ids : i # m => (ByUs(i)' => ByUs(i))
      BY <3>1 DEF ByUs
    <3>4. CASE Sending(h)
      <4>1. /\ pc'[h] = "tell" /\ job'[h] = job[h]
           /\ \A g \in Handlers : g # h => pc'[g] = pc[g] /\ job'[g] = job[g]
        BY <2>2, <3>4, Gone
      <4>2. ByUs(m)'
        BY <3>1, <3>2, <3>4 DEF ByUs, Sending
      <4>3. answer[m] = "none"
        BY <3>4 DEF Answered
      <4> QED BY <2>1, <2>2, <3>3, <3>4, <4>1, <4>2, <4>3, <1>0, <1>2
    <3>5. CASE ~Sending(h)
      <4>1. ~ByUs(m)'
        BY <3>1, <3>2, <3>5 DEF ByUs, Sending
      <4>2. /\ ~Sending(h)'
           /\ \A g \in Handlers : g # h => pc'[g] = pc[g] /\ job'[g] = job[g]
        BY <2>2, <3>5, Gone, Ended DEF Sending
      <4>3. \A i \in Ids : ByUs(i)' => ByUs(i)
        BY <3>3, <4>1
      <4> QED BY <2>1, <2>2, <4>2, <4>3, <1>1
    <3> QED BY <3>4, <3>5
  <2>3. CASE Taken(m) /\ End(h) /\ Refused(h) /\ UNCHANGED rows
    <3>1. /\ ~Sending(h)'
         /\ \A g \in Handlers : g # h => pc'[g] = pc[g] /\ job'[g] = job[g]
      BY <2>3, Ended DEF Sending
    <3>2. \A i \in Ids : ByUs(i)' => ByUs(i)
      BY <2>3 DEF ByUs
    <3>3. CASE ~Sending(h)
      <4>1. answer' = answer
        BY <2>3, <3>3 DEF Refused, Reply
      <4> QED BY <2>1, <3>1, <3>2, <4>1, <1>1
    <3>4. CASE Sending(h)
      <4>1. answer' = [answer EXCEPT ![m] = "error"]
        BY <2>3, <3>4 DEF Refused, Reply
      <4>2. ~ByUs(m) /\ rows[m] \in MessageRow
        BY <2>1, <2>3, <3>4 DEF Answered, Taken
      <4>3. ByWire(m)'
        BY <2>3, <4>2, NoMessage DEF ByUs, ByWire, MessageRow
      <4> QED BY <2>1, <3>1, <3>2, <3>4, <4>1, <4>3, <1>0, <1>2
    <3> QED BY <3>3, <3>4
  <2> QED BY <1>7, <2>2, <2>3 DEF insertMessage
<1>8. ASSUME NEW h \in Handlers, emitChatEvents(h) PROVE Answered'
  <2>0. pc[h] = "tell" /\ job[h].id \in Ids
    BY <1>8, <1>0 DEF emitChatEvents
  <2> PICK m \in Ids : m = job[h].id
    BY <2>0
  <2>1. pc[h] = "tell" /\ m = job[h].id /\ UNCHANGED <<rows, own, answer>> /\ told[m] = 0
        /\ told' = [told EXCEPT ![m] = @ + 1]
    BY <2>0, <1>8, <1>0 DEF emitChatEvents, StoredFirst
  <2>2. told'[m] = 1 /\ \A i \in Ids : told[i] = 1 => told'[i] = 1
    BY <2>1, <1>0
  <2>3. \A i \in Ids : ByUs(i)' => ByUs(i)
    BY <2>1 DEF ByUs
  <2>4. CASE Sending(h)
    <3>1. /\ pc'[h] = "audit" /\ job'[h] = job[h]
         /\ \A g \in Handlers : g # h => pc'[g] = pc[g] /\ job'[g] = job[g]
      BY <1>8, <2>4, Gone DEF emitChatEvents
    <3>2. ByUs(m)' /\ answer[m] = "none"
      BY <2>1, <2>4, <1>0 DEF Answered
    <3> QED BY <2>1, <2>2, <2>3, <2>4, <3>1, <3>2, <1>0, <1>2
  <2>5. CASE ~Sending(h)
    <3>1. /\ ~Sending(h)'
         /\ \A g \in Handlers : g # h => pc'[g] = pc[g] /\ job'[g] = job[g]
      BY <1>8, <2>5, Ended DEF emitChatEvents, Sending
    <3> QED BY <2>1, <2>2, <2>3, <3>1, <1>1
  <2> QED BY <2>4, <2>5
<1>9. ASSUME NEW h \in Handlers, logChatMsgAudit(h) PROVE Answered'
  <2>0. pc[h] = "audit" /\ job[h].id \in Ids
    BY <1>9, <1>0 DEF logChatMsgAudit
  <2> PICK m \in Ids : m = job[h].id
    BY <2>0
  <2>1. pc[h] = "audit" /\ m = job[h].id /\ UNCHANGED <<rows, told, own, faulty>>
    BY <2>0, <1>9, <1>0 DEF logChatMsgAudit
  <2>2. Sending(h)
    BY <2>1, <1>0 DEF HandlersSound, HandlerSound, Sending, Kinds
  <2>3. answer' = [answer EXCEPT ![m] = "ok"]
    BY <1>9, <2>2 DEF logChatMsgAudit, Reply
  <2>4. told'[m] = 1 /\ ByUs(m)'
    BY <2>1, <2>2, <1>0 DEF Answered
  <2>5. /\ ~Sending(h)'
       /\ \A g \in Handlers : g # h => pc'[g] = pc[g] /\ job'[g] = job[g]
    BY <1>9, Ended DEF logChatMsgAudit, Sending
  <2>6. \A i \in Ids : ByUs(i)' => ByUs(i)
    BY <2>1 DEF ByUs
  <2> QED BY <2>1, <2>2, <2>3, <2>4, <2>5, <2>6, <1>0, <1>2
<1>10. ASSUME NEW h \in Handlers, UNCHANGED <<rows, told>>, End(h), Reply(h, "error"),
              pc[h] # "idle", faulty' = faulty \cup {job[h].id}
       PROVE  Answered'
  <2>1. /\ ~Sending(h)'
       /\ \A g \in Handlers : g # h => pc'[g] = pc[g] /\ job'[g] = job[g]
    BY <1>10, Ended DEF Sending
  <2>2. \A i \in Ids : ByUs(i)' => ByUs(i)
    BY <1>10 DEF ByUs
  <2>3. CASE ~Sending(h)
    BY <1>10, <2>1, <2>2, <2>3, <1>1 DEF Reply
  <2>4. CASE Sending(h)
    <3>1. answer' = [answer EXCEPT ![job[h].id] = "error"]
      BY <1>10, <2>4 DEF Reply
    <3> QED BY <1>10, <2>1, <2>2, <2>4, <3>1, <1>0, <1>2
  <2> QED BY <2>3, <2>4
<1>11. ASSUME NEW h \in Handlers, Fail(h) PROVE Answered'
  BY <1>11, <1>10 DEF Fail
<1>12. ASSUME NEW h \in Handlers,
              \/ handleMessagesUpsert(h) \/ handleIncomingWhatsAppMessage(h)
              \/ updateMessageStatus(h) \/ softDeleteMessage(h)
       PROVE  Answered'
  <2>1. pc[h] \in {"find", "recheck", "write"} /\ UNCHANGED <<told, answer>>
    BY <1>12 DEF handleMessagesUpsert, handleIncomingWhatsAppMessage, updateMessageStatus, softDeleteMessage
  <2>2. ~Sending(h)
    BY <2>1 DEF HandlersSound, HandlerSound
  <2>3. \A i \in Ids : rows[i] = NoRow => rows'[i] = NoRow
    BY <1>12, <1>0 DEF handleMessagesUpsert, handleIncomingWhatsAppMessage, updateMessageStatus,
                       softDeleteMessage, Put
  <2>4. \A i \in Ids : ByUs(i)' => ByUs(i)
    BY <2>3, <1>0 DEF ByUs
  <2>5. \A g \in Handlers : Sending(g)' => pc'[g] = pc[g] /\ job'[g] = job[g]
    <3>1. CASE End(h) \/ Goto(h, "insert") \/ Goto(h, "recheck")
      BY <2>2, <3>1, Gone, Ended DEF Sending
    <3>2. ASSUME NEW g \in Handlers, pc[g] = "idle",
                 pc' = [pc EXCEPT ![h] = "insert", ![g] = "write"],
                 job' = [job EXCEPT ![g] = [kind |-> "ack", id |-> job[h].id,
                                            arg |-> mapUpsertStatus(job[h].id)]]
          PROVE  \A f \in Handlers : Sending(f)' => pc'[f] = pc[f] /\ job'[f] = job[f]
      <4>1. g # h
        BY <2>1, <3>2
      <4>2. job'[h] = job[h] /\ job'[g].kind = "ack"
        BY <3>2, <4>1 DEF Types
      <4>3. \A f \in Handlers \ {g, h} : pc'[f] = pc[f] /\ job'[f] = job[f]
        BY <3>2 DEF Types
      <4> QED BY <2>2, <4>2, <4>3 DEF Sending
    <3> QED BY <1>12, <3>1, <3>2 DEF handleMessagesUpsert, handleIncomingWhatsAppMessage,
                                    updateMessageStatus, softDeleteMessage
  <2> QED BY <2>1, <2>4, <2>5, <1>1
<1>13. ASSUME UNCHANGED <<handlers, rows, told, answer>> PROVE Answered'
  BY <1>13, <1>1 DEF ByUs
<1> QED
  BY <1>3, <1>4, <1>5, <1>6, <1>7, <1>8, <1>9, <1>11, <1>12, <1>13
  DEF Next, Handle, Arrive, PhoneSends, Dropped, vars

-----------------------------------------------------------------------------
(* A handler at work moves by its own steps.                               *)
LEMMA Moves ==
  ASSUME Types, [Next]_vars, NEW h \in Handlers, pc[h] # "idle"
  PROVE  (pc'[h] = pc[h] /\ job'[h] = job[h]) \/ Handle(h)
<1> USE DEF log, outside, handlers, history
<1>1. ASSUME NEW g \in Handlers, g # h, Handle(g) PROVE pc'[h] = pc[h] /\ job'[h] = job[h]
  <2>1. CASE End(g) \/ \E s : Goto(g, s)
    BY <1>1, <2>1, Gone, Ended
  <2>2. ASSUME NEW f \in Handlers, pc[f] = "idle",
               pc' = [pc EXCEPT ![g] = "insert", ![f] = "write"],
               job' = [job EXCEPT ![f] = [kind |-> "ack", id |-> job[g].id,
                                          arg |-> mapUpsertStatus(job[g].id)]]
        PROVE  pc'[h] = pc[h] /\ job'[h] = job[h]
    BY <1>1, <2>2 DEF Types
  <2>3. CASE handleMessagesUpsert(g)
    BY <2>3, <2>1, <2>2 DEF handleMessagesUpsert
  <2>4. CASE sendWhatsAppMessage(g) \/ saveMediaBuffer(g) \/ handleIncomingWhatsAppMessage(g)
    BY <2>4, <2>1 DEF sendWhatsAppMessage, saveMediaBuffer, handleIncomingWhatsAppMessage
  <2>5. CASE insertMessage(g) \/ emitChatEvents(g)
    BY <2>5, <2>1 DEF insertMessage, emitChatEvents
  <2>6. CASE logChatMsgAudit(g) \/ updateMessageStatus(g) \/ softDeleteMessage(g) \/ Fail(g)
    BY <2>6, <2>1 DEF logChatMsgAudit, updateMessageStatus, softDeleteMessage, Fail
  <2> QED BY <1>1, <2>3, <2>4, <2>5, <2>6 DEF Handle
<1>2. ASSUME NEW g \in Handlers, NEW m \in Ids, Arrive(g, m) PROVE pc'[h] = pc[h] /\ job'[h] = job[h]
  <2>1. PICK kind, n, s : Begin(g, kind, m, n, s)
    BY <1>2 DEF Arrive, Send, Upsert, Acknowledge, Edit, Wipe, deleteMessageService
  <2> QED BY <2>1, Begun
<1>3. CASE UNCHANGED handlers
  BY <1>3
<1> QED BY <1>1, <1>2, <1>3 DEF Next, PhoneSends, Dropped, vars

LEMMA CarriedStays ==
  ASSUME Types, Types', HandlersSound, Grown, StoredFirst, Carried, [Next]_vars
  PROVE  Carried'
<1> USE DEF log, outside, handlers, history
<1>0. /\ \A h \in Handlers : pc[h] # "idle" => job[h].id \in Ids
      /\ \A m \in Ids : rows[m] # NoRow => rows'[m] # NoRow /\ rows'[m].by = rows[m].by
      /\ own' = own /\ faulty \subseteq faulty'
      /\ DOMAIN told = Ids /\ DOMAIN rows = Ids /\ DOMAIN offers = Ids
      /\ \A m \in Ids : offers[m] \in Nat /\ told[m] \in Nat
  BY AtWork DEF Grown, Onward, Types
<1>1. ASSUME NEW m \in Ids, m \notin faulty', NEW h \in Handlers, job[h].id = m,
             pc[h] \in {"find", "recheck", "insert"}
      PROVE  rows'[m] # NoRow \/ Storing(m)'
  <2>1. CASE pc'[h] = pc[h] /\ job'[h] = job[h]
    BY <1>1, <2>1 DEF Storing
  <2>2. CASE handleMessagesUpsert(h)
    <3>1. rows' = rows /\ (rows[m] # NoRow \/ (pc'[h] \in {"insert", "recheck"} /\ job'[h] = job[h]))
      <4>1. ASSUME NEW g \in Handlers, pc[g] = "idle",
                   pc' = [pc EXCEPT ![h] = "insert", ![g] = "write"],
                   job' = [job EXCEPT ![g] = [kind |-> "ack", id |-> job[h].id,
                                              arg |-> mapUpsertStatus(job[h].id)]]
            PROVE  pc'[h] = "insert" /\ job'[h] = job[h]
        BY <1>1, <4>1 DEF Types
      <4> QED BY <1>1, <2>2, <4>1, Gone DEF handleMessagesUpsert, findMessageByUniqueKey
    <3> QED BY <1>1, <3>1 DEF Storing
  <2>3. CASE handleIncomingWhatsAppMessage(h)
    <3>1. rows' = rows /\ (rows[m] # NoRow \/ (pc'[h] = "insert" /\ job'[h] = job[h]))
      BY <1>1, <2>3, Gone DEF handleIncomingWhatsAppMessage, findMessageByUniqueKey
    <3> QED BY <1>1, <3>1 DEF Storing
  <2>4. CASE insertMessage(h)
    <3>1. CASE Taken(m) /\ UNCHANGED rows
      BY <3>1 DEF Taken
    <3>2. CASE Put(m, NewRow(h)) /\ pc[h] = "insert"
      BY <3>2, <1>0, NewRowIsRow, NoMessage DEF Put
    <3> QED BY <1>1, <2>4, <3>1, <3>2 DEF insertMessage
  <2>5. CASE Fail(h)
    BY <1>1, <2>5 DEF Fail
  <2>6. CASE \/ sendWhatsAppMessage(h) \/ saveMediaBuffer(h) \/ emitChatEvents(h) \/ logChatMsgAudit(h)
             \/ updateMessageStatus(h) \/ softDeleteMessage(h)
    BY <1>1, <2>6 DEF sendWhatsAppMessage, saveMediaBuffer, emitChatEvents, logChatMsgAudit,
                      updateMessageStatus, softDeleteMessage
  <2> QED BY <1>1, <2>1, <2>2, <2>3, <2>4, <2>5, <2>6, Moves DEF Handle
<1>2. ASSUME NEW m \in Ids, NEW h \in Handlers, job[h].id = m, pc[h] = "tell"
      PROVE  told'[m] = 1 \/ Telling(m)'
  <2>1. CASE pc'[h] = pc[h] /\ job'[h] = job[h]
    BY <1>2, <2>1 DEF Telling
  <2>2. CASE emitChatEvents(h)
    BY <1>2, <2>2, <1>0 DEF emitChatEvents, StoredFirst
  <2>3. CASE Handle(h) /\ ~emitChatEvents(h)
    BY <1>2, <2>3 DEF Handle, sendWhatsAppMessage, saveMediaBuffer, insertMessage, logChatMsgAudit,
       handleMessagesUpsert, handleIncomingWhatsAppMessage, updateMessageStatus, softDeleteMessage, Fail
  <2> QED BY <1>2, <2>1, <2>2, <2>3, Moves
<1>3. ASSUME NEW m \in Ids, told[m] = 1 PROVE told'[m] = 1
  <2>1. ASSUME NEW h \in Handlers, emitChatEvents(h) PROVE told'[m] = told[m]
    BY <1>3, <2>1, <1>0 DEF emitChatEvents, StoredFirst
  <2>2. CASE told' = told
    BY <1>3, <2>2
  <2>3. ASSUME NEW h \in Handlers, Handle(h), ~emitChatEvents(h) PROVE told' = told
    BY <2>3 DEF Handle, sendWhatsAppMessage, saveMediaBuffer, insertMessage, logChatMsgAudit,
       handleMessagesUpsert, handleIncomingWhatsAppMessage, updateMessageStatus, softDeleteMessage, Fail
  <2>4. ASSUME NEW h \in Handlers, NEW i \in Ids, Arrive(h, i) PROVE told' = told
    BY <2>4 DEF Arrive, Send, Upsert, Acknowledge, Edit, Wipe, deleteMessageService
  <2> QED BY <1>3, <2>1, <2>2, <2>3, <2>4 DEF Next, PhoneSends, Dropped, vars
<1>4. ASSUME NEW m \in Ids, m \notin faulty', offers'[m] > 0, offers[m] = 0
      PROVE  Storing(m)'
  <2>1. ASSUME NEW h \in Handlers, NEW i \in Ids, Upsert(h, i) PROVE Storing(m)'
    <3>1. PICK kind : Begin(h, kind, i, 0, "find")
      BY <2>1 DEF Upsert
    <3>2. pc'[h] = "find" /\ job'[h].id = i
      BY <3>1, Begun
    <3>3. i = m
      BY <2>1, <1>4, <1>0 DEF Upsert
    <3> QED BY <3>2, <3>3 DEF Storing
  <2>2. CASE offers' = offers
    BY <1>4, <2>2
  <2>3. ASSUME NEW i \in Ids, Dropped(i) PROVE FALSE
    BY <2>3, <1>4, <1>0 DEF Dropped
  <2>4. ASSUME NEW h \in Handlers, Handle(h) PROVE offers' = offers
    BY <2>4 DEF Handle, sendWhatsAppMessage, saveMediaBuffer, insertMessage, emitChatEvents, logChatMsgAudit,
       handleMessagesUpsert, handleIncomingWhatsAppMessage, updateMessageStatus, softDeleteMessage, Fail
  <2>5. ASSUME NEW h \in Handlers, NEW i \in Ids, Arrive(h, i), ~Upsert(h, i) PROVE offers' = offers
    BY <2>5 DEF Arrive, Send, Acknowledge, Edit, Wipe, deleteMessageService
  <2> QED BY <2>1, <2>2, <2>3, <2>4, <2>5 DEF Next, PhoneSends, vars
<1>5. ASSUME NEW m \in Ids, m \notin own, rows[m] = NoRow, rows'[m] # NoRow, rows'[m].by = "live"
      PROVE  Telling(m)'
  <2>1. ASSUME NEW h \in Handlers, insertMessage(h) PROVE Telling(m)'
    <3>1. pc[h] = "insert" /\ job[h].id = m /\ rows'[m] = NewRow(h)
      BY <1>5, <2>1, <1>0 DEF insertMessage, Put
    <3>2. job[h].kind = "live"
      BY <1>5, <3>1, NewRowIsRow
    <3>3. Goto(h, "tell")
      BY <1>5, <2>1, <3>1, <3>2 DEF insertMessage, Taken
    <3> QED BY <3>1, <3>3, Gone DEF Telling
  <2>2. ASSUME NEW h \in Handlers, Handle(h), ~insertMessage(h) PROVE rows'[m] = rows[m]
    <3>1. CASE updateMessageStatus(h) \/ softDeleteMessage(h)
      BY <1>5, <3>1, <1>0 DEF updateMessageStatus, softDeleteMessage, Put
    <3> QED BY <2>2, <3>1 DEF Handle, sendWhatsAppMessage, saveMediaBuffer, emitChatEvents, logChatMsgAudit,
               handleMessagesUpsert, handleIncomingWhatsAppMessage, Fail
  <2>3. ASSUME NEW h \in Handlers, NEW i \in Ids, Arrive(h, i) PROVE rows' = rows
    BY <2>3 DEF Arrive, Send, Upsert, Acknowledge, Edit, Wipe, deleteMessageService
  <2> QED BY <1>5, <2>1, <2>2, <2>3 DEF Next, PhoneSends, Dropped, vars
<1>6. ASSUME NEW m \in Ids, m \notin faulty', offers'[m] > 0 PROVE rows'[m] # NoRow \/ Storing(m)'
  <2>1. CASE offers[m] > 0
    <3>1. rows[m] # NoRow \/ Storing(m)
      BY <1>6, <2>1, <1>0 DEF Carried
    <3> QED BY <1>6, <3>1, <1>0, <1>1 DEF Storing
  <2> QED BY <1>6, <2>1, <1>0, <1>4
<1>7. ASSUME NEW m \in Ids, m \notin faulty', m \notin own, rows'[m] # NoRow, rows'[m].by = "live"
      PROVE  told'[m] = 1 \/ Telling(m)'
  <2>1. CASE rows[m] # NoRow
    <3>1. told[m] = 1 \/ Telling(m)
      BY <1>7, <2>1, <1>0 DEF Carried
    <3> QED BY <3>1, <1>2, <1>3 DEF Telling
  <2> QED BY <1>7, <2>1, <1>5
<1> QED BY <1>6, <1>7, <1>0 DEF Carried

(* What a handler of an update has in hand it writes, or the message is    *)
(* marked as missed or faulty.                                             *)
LEMMA FollowedStays ==
  ASSUME Types, Types', HandlersSound, Grown, Followed, [Next]_vars
  PROVE  Followed'
<1> USE DEF log, outside, handlers, history
<1> DEFINE HasAck(i)  == \E h \in Handlers : /\ job'[h].id = i /\ job'[h].kind = "ack"
                                             /\ job'[h].arg = wire[i].acks + 1
           HasEdit(i) == \E h \in Handlers : /\ job'[h].id = i /\ job'[h].kind = "edit"
                                             /\ job'[h].arg = wire[i].edits + 2
<1>0. /\ \A h \in Handlers : pc[h] # "idle" => job[h].id \in Ids /\ job[h].arg \in Nat
      /\ \A m \in Ids : newest[m].ack <= newest'[m].ack /\ newest[m].edit <= newest'[m].edit
      /\ \A m \in Ids : newest[m].ack \in Nat /\ newest[m].edit \in Nat
      /\ \A m \in Ids : newest'[m].ack \in Nat /\ newest'[m].edit \in Nat
      /\ \A m \in Ids : wire[m].acks \in Nat /\ wire[m].edits \in Nat
      /\ faulty \subseteq faulty' /\ missed \subseteq missed'
      /\ DOMAIN wire = Ids /\ DOMAIN newest = Ids
  BY AtWork, StoreAssumption DEF Grown, Onward, Types, Deeds
<1>1. ASSUME NEW m \in Ids, m \notin faulty' \cup missed', NEW kind \in {"ack", "edit"}, NEW n \in Nat,
             InHand(m, kind, n)
      PROVE  n <= newest'[m][kind] \/ InHand(m, kind, n)'
  <2>1. PICK h \in Handlers : job[h].id = m /\ job[h].kind = kind /\ job[h].arg = n
    BY <1>1 DEF InHand
  <2>2. pc[h] = "write"
    BY <2>1 DEF HandlersSound, HandlerSound
  <2>3. CASE pc'[h] = pc[h] /\ job'[h] = job[h]
    BY <2>1, <2>3 DEF InHand
  <2>4. CASE updateMessageStatus(h)
    <3>1. newest' = [newest EXCEPT ![m][kind] = IF n > newest[m][kind] THEN n ELSE newest[m][kind]]
      BY <1>1, <2>1, <2>4 DEF updateMessageStatus
    <3>2. newest[m] \in [ack : Nat, edit : Nat]
      BY DEF Types
    <3>3. newest'[m][kind] = IF n > newest[m][kind] THEN n ELSE newest[m][kind]
      BY <3>1, <3>2, <1>0
    <3>4. newest[m][kind] \in Nat
      BY <3>2
    <3> QED BY <3>3, <3>4
  <2>5. CASE Fail(h)
    BY <1>1, <2>1, <2>5 DEF Fail
  <2>6. CASE Handle(h) /\ ~updateMessageStatus(h) /\ ~Fail(h)
    BY <1>1, <2>1, <2>2, <2>6 DEF Handle, sendWhatsAppMessage, saveMediaBuffer, insertMessage,
       emitChatEvents, logChatMsgAudit, handleMessagesUpsert, handleIncomingWhatsAppMessage, softDeleteMessage
  <2> QED BY <2>2, <2>3, <2>4, <2>5, <2>6, Moves
<1>2. ASSUME NEW m \in Ids, m \notin faulty'
      PROVE  /\ wire'[m].acks = wire[m].acks
                \/ (wire'[m].acks = wire[m].acks + 1 /\ HasAck(m))
             /\ wire'[m].edits = wire[m].edits
                \/ (wire'[m].edits = wire[m].edits + 1 /\ HasEdit(m))
  <2>0. wire[m] \in Deeds
    BY DEF Types
  <2> DEFINE Same == wire'[m].acks = wire[m].acks /\ wire'[m].edits = wire[m].edits
  <2>1. ASSUME NEW h \in Handlers, Handle(h) PROVE Same
    <3>1. CASE sendWhatsAppMessage(h)
      <4>1. wire' = wire \/ wire' = [wire EXCEPT ![job[h].id].known = TRUE]
        BY <3>1 DEF sendWhatsAppMessage
      <4> QED BY <4>1, <1>0, <2>0 DEF Deeds
    <3>2. CASE softDeleteMessage(h)
      <4>1. wire' = wire \/ wire' = [wire EXCEPT ![job[h].id].wiped = @ \/ job[h].kind = "erase"]
        BY <3>2 DEF softDeleteMessage
      <4> QED BY <4>1, <1>0, <2>0 DEF Deeds
    <3> QED BY <2>1, <3>1, <3>2 DEF Handle, saveMediaBuffer, insertMessage, emitChatEvents, logChatMsgAudit,
               handleMessagesUpsert, handleIncomingWhatsAppMessage, updateMessageStatus, Fail
  <2>2. ASSUME NEW h \in Handlers, NEW i \in Ids, Acknowledge(h, i)
        PROVE  wire'[m].edits = wire[m].edits /\
               (wire'[m].acks = wire[m].acks
                \/ (wire'[m].acks = wire[m].acks + 1 /\ HasAck(m)))
    <3>1. job'[h].kind = "ack" /\ job'[h].id = i /\ job'[h].arg = wire[i].acks + 1
      BY <2>2, Begun DEF Acknowledge
    <3>2. i # m => wire'[m] = wire[m]
      BY <2>2, <1>0 DEF Acknowledge
    <3>3. wire'[i].acks = wire[i].acks + 1 /\ wire'[i].edits = wire[i].edits
      BY <2>2, <1>0 DEF Acknowledge, Types, Deeds
    <3>4. CASE i # m
      BY <3>2, <3>4
    <3>5. CASE i = m
      BY <3>1, <3>3, <3>5
    <3> QED BY <3>4, <3>5
  <2>3. ASSUME NEW h \in Handlers, NEW i \in Ids, Edit(h, i)
        PROVE  wire'[m].acks = wire[m].acks /\
               (wire'[m].edits = wire[m].edits
                \/ (wire'[m].edits = wire[m].edits + 1 /\ HasEdit(m)))
    <3>1. job'[h].kind = "edit" /\ job'[h].id = i /\ job'[h].arg = wire[i].edits + 2
      BY <2>3, Begun DEF Edit
    <3>2. i # m => wire'[m] = wire[m]
      BY <2>3, <1>0 DEF Edit
    <3>3. wire'[i].edits = wire[i].edits + 1 /\ wire'[i].acks = wire[i].acks
      BY <2>3, <1>0 DEF Edit, Types, Deeds
    <3>4. CASE i # m
      BY <3>2, <3>4
    <3>5. CASE i = m
      BY <3>1, <3>3, <3>5
    <3> QED BY <3>4, <3>5
  <2>4. ASSUME NEW h \in Handlers, NEW i \in Ids, Arrive(h, i), ~Acknowledge(h, i), ~Edit(h, i) PROVE Same
    <3>1. CASE Wipe(h, i)
      BY <3>1, <1>0 DEF Wipe, Types, Deeds
    <3> QED BY <2>4, <3>1 DEF Arrive, Send, Upsert, deleteMessageService
  <2>5. ASSUME NEW i \in Ids, PhoneSends(i) PROVE Same
    BY <2>5, <1>0 DEF PhoneSends, Types, Deeds
  <2>6. ASSUME NEW i \in Ids, Dropped(i) PROVE Same
    <3>1. i # m
      BY <1>2, <2>6 DEF Dropped
    <3> QED BY <2>6, <3>1, <1>0 DEF Dropped
  <2>7. CASE UNCHANGED vars
    BY <2>7 DEF vars
  <2> QED BY <2>1, <2>2, <2>3, <2>4, <2>5, <2>6, <2>7 DEF Next
<1>3. ASSUME NEW m \in Ids, m \notin faulty' \cup missed', NEW n \in 1..wire'[m].acks
      PROVE  n <= newest'[m].ack \/ InHand(m, "ack", n)'
  <2>1. CASE n \in 1..wire[m].acks
    <3>1. n <= newest[m].ack \/ InHand(m, "ack", n)
      BY <1>3, <2>1, <1>0 DEF Followed
    <3>2. CASE n <= newest[m].ack
      BY <3>2, <1>0, <2>1
    <3>3. CASE InHand(m, "ack", n)
      BY <1>3, <2>1, <3>3, <1>1
    <3> QED BY <3>1, <3>2, <3>3
  <2>2. CASE n \notin 1..wire[m].acks
    <3>1. n = wire[m].acks + 1 /\ HasAck(m)
      BY <1>3, <2>2, <1>2, <1>0
    <3> QED BY <3>1 DEF InHand
  <2> QED BY <2>1, <2>2
<1>4. ASSUME NEW m \in Ids, m \notin faulty' \cup missed', NEW n \in 2..wire'[m].edits + 1
      PROVE  n <= newest'[m].edit \/ InHand(m, "edit", n)'
  <2>1. CASE n \in 2..wire[m].edits + 1
    <3>1. n <= newest[m].edit \/ InHand(m, "edit", n)
      BY <1>4, <2>1, <1>0 DEF Followed
    <3>2. CASE n <= newest[m].edit
      BY <3>2, <1>0, <2>1
    <3>3. CASE InHand(m, "edit", n)
      BY <1>4, <2>1, <3>3, <1>1
    <3> QED BY <3>1, <3>2, <3>3
  <2>2. CASE n \notin 2..wire[m].edits + 1
    <3>1. n = wire[m].edits + 2 /\ HasEdit(m)
      BY <1>4, <2>2, <1>2, <1>0
    <3> QED BY <3>1 DEF InHand
  <2> QED BY <2>1, <2>2
<1> QED BY <1>3, <1>4 DEF Followed

LEMMA ShownStays ==
  ASSUME Types, Types', HandlersSound, Grown, StoredFirst, Shown, [Next]_vars
  PROVE  Shown'
<1> USE DEF log, outside, handlers, history
<1>0. /\ \A h \in Handlers : pc[h] # "idle" => job[h].id \in Ids /\ job[h].arg \in Nat
      /\ \A m \in Ids : wire[m].acks <= wire'[m].acks /\ wire[m].edits <= wire'[m].edits
      /\ \A m \in Ids : rows[m] # NoRow => rows'[m] # NoRow /\ rows'[m].by = rows[m].by
      /\ \A m \in Ids : newest[m] \in [ack : Nat, edit : Nat] /\ newest'[m] \in [ack : Nat, edit : Nat]
      /\ \A m \in Ids : wire[m].acks \in Nat /\ wire[m].edits \in Nat
      /\ \A m \in Ids : wire'[m].acks \in Nat /\ wire'[m].edits \in Nat
      /\ \A m \in Ids : rows[m] # NoRow => rows[m] \in MessageRow
      /\ doubtful \subseteq doubtful'
      /\ DOMAIN rows = Ids /\ DOMAIN newest = Ids
  BY AtWork, StoreAssumption DEF Grown, Onward, Types, Deeds
<1> DEFINE ShownAt(m) ==
      /\ newest[m].ack <= wire[m].acks \/ (newest[m].ack = 1 /\ ByUs(m))
      /\ newest[m].edit = 0 \/ newest[m].edit \in 2..wire[m].edits + 1
      /\ rows[m] # NoRow =>
           /\ ByUs(m) => newest[m].ack > 0
           /\ ~rows[m].gone => Rank[rows[m].status] <= newest[m].ack
           /\ rows[m].first = Unedited => rows[m].text = 1
      /\ rows[m] # NoRow /\ m \notin doubtful =>
           /\ rows[m].text = IF newest[m].edit = 0 THEN 1 ELSE newest[m].edit
           /\ ~rows[m].gone => Rank[rows[m].status] = newest[m].ack
<1>1. ASSUME NEW m \in Ids, rows'[m] = rows[m], newest'[m] = newest[m] PROVE ShownAt(m)'
  <2>1. ShownAt(m)
    BY DEF Shown
  <2>2. newest'[m].ack <= wire'[m].acks \/ (newest'[m].ack = 1 /\ ByUs(m)')
    BY <2>1, <1>0, <1>1 DEF ByUs
  <2>3. newest'[m].edit = 0 \/ newest'[m].edit \in 2..wire'[m].edits + 1
    BY <2>1, <1>0, <1>1
  <2> QED BY <2>1, <2>2, <2>3, <1>0, <1>1 DEF ByUs
<1>2. ASSUME NEW h \in Handlers, insertMessage(h) PROVE \A m \in Ids : ShownAt(m)'
  <2>0. pc[h] = "insert" /\ job[h].id \in Ids
    BY <1>2, <1>0 DEF insertMessage
  <2> PICK m \in Ids : m = job[h].id
    BY <2>0
  <2>1. CASE UNCHANGED <<rows, newest>>
    BY <2>1, <1>1
  <2>2. CASE /\ ~Taken(m) /\ Put(m, NewRow(h))
             /\ newest' = [newest EXCEPT ![m].ack = IF Sending(h) /\ @ = 0 THEN 1 ELSE @]
    <3>1. rows[m] = NoRow /\ newest[m].ack = 0 /\ newest[m].edit = 0
      BY <2>2 DEF Taken, StoredFirst
    <3>2. newest'[m].ack = (IF Sending(h) THEN 1 ELSE 0) /\ newest'[m].edit = 0
      BY <2>2, <3>1, <1>0
    <3>3. rows'[m] = NewRow(h)
      BY <2>2, <1>0 DEF Put
    <3>4. rows'[m] # NoRow /\ ByUs(m)' = Sending(h)
      BY <2>0, <3>3, NewRowIsRow, NoMessage DEF ByUs, Sending
    <3>5. /\ rows'[m].text = 1 /\ ~rows'[m].gone
          /\ Rank[rows'[m].status] = IF Sending(h) THEN 1 ELSE 0
      BY <2>0, <3>3, NewRowIsRow
    <3>6. ShownAt(m)'
      <4>1. newest'[m].ack <= wire'[m].acks \/ (newest'[m].ack = 1 /\ ByUs(m)')
        BY <3>2, <3>4, <1>0
      <4>2. ByUs(m)' => newest'[m].ack > 0
        BY <3>2, <3>4
      <4>3. Rank[rows'[m].status] <= newest'[m].ack /\ Rank[rows'[m].status] = newest'[m].ack
        BY <3>2, <3>5
      <4> QED BY <4>1, <4>2, <4>3, <3>2, <3>5
    <3>7. \A i \in Ids : i # m => rows'[i] = rows[i] /\ newest'[i] = newest[i]
      BY <2>2, <1>0 DEF Put
    <3> QED BY <3>6, <3>7, <1>1
  <2> QED BY <1>2, <2>1, <2>2 DEF insertMessage
<1>3. ASSUME NEW h \in Handlers, updateMessageStatus(h) PROVE \A m \in Ids : ShownAt(m)'
  <2>0. pc[h] = "write" /\ job[h].id \in Ids /\ job[h].kind \in {"ack", "edit"} /\ job[h].arg \in Nat
    BY <1>3, <1>0 DEF updateMessageStatus
  <2> PICK m \in Ids : m = job[h].id
    BY <2>0
  <2>1. CASE rows[m] = NoRow
    BY <1>3, <2>1, <1>1 DEF updateMessageStatus
  <2>2. CASE rows[m] # NoRow
    <3> PICK n \in Nat : n = job[h].arg
      BY <2>0
    <3>1. rows[m] \in MessageRow /\ ShownAt(m)
      BY <2>2, <1>0 DEF Shown
    <3>2. rows'[m] = Updated(rows[m], job[h])
      BY <1>3, <2>2, <1>0 DEF updateMessageStatus, Put
    <3>3. rows'[m] # NoRow /\ rows'[m].by = rows[m].by /\ rows'[m].gone = rows[m].gone
      <4>1. /\ Updated(rows[m], job[h]) \in MessageRow /\ Updated(rows[m], job[h]).by = rows[m].by
            /\ Updated(rows[m], job[h]).gone = rows[m].gone
        BY <2>0, <3>1, UpdatedIsRow
      <4> QED BY <3>2, <4>1, NoMessage
    <3>4. ByUs(m)' = ByUs(m)
      BY <2>2, <3>3 DEF ByUs
    <3>5. UNCHANGED wire
      BY <1>3 DEF updateMessageStatus
    <3>6. ASSUME job[h].kind = "ack" PROVE ShownAt(m)'
      <4>1. /\ n \in 1..wire[m].acks /\ Rank[rows'[m].status] = n
            /\ rows'[m].text = rows[m].text /\ rows'[m].first = rows[m].first
        <5>1. /\ n \in 1..wire[m].acks /\ Rank[Updated(rows[m], job[h]).status] = n
              /\ Updated(rows[m], job[h]).text = rows[m].text
              /\ Updated(rows[m], job[h]).first = rows[m].first
          BY <2>0, <3>1, <3>6, UpdatedIsRow
        <5> QED BY <5>1, <3>2
      <4>2. newest'[m].ack = (IF n > newest[m].ack THEN n ELSE newest[m].ack) /\ newest'[m].edit = newest[m].edit
        BY <1>3, <2>2, <3>6, <1>0 DEF updateMessageStatus
      <4>3. m \notin doubtful' => n >= newest[m].ack /\ ~rows[m].gone /\ m \notin doubtful
        BY <1>3, <2>2, <3>6, <1>0 DEF updateMessageStatus
      <4>4. newest'[m].ack <= wire'[m].acks \/ (newest'[m].ack = 1 /\ ByUs(m)')
        BY <3>1, <3>4, <3>5, <4>1, <4>2, <1>0
      <4>5. n <= newest'[m].ack /\ newest'[m].ack > 0
        BY <4>1, <4>2, <1>0
      <4>6. m \notin doubtful' => newest'[m].ack = n
        BY <4>2, <4>3, <1>0
      <4>7. newest'[m].edit = 0 \/ newest'[m].edit \in 2..wire'[m].edits + 1
        BY <3>1, <3>5, <4>2
      <4>8. rows'[m].first = Unedited => rows'[m].text = 1
        BY <2>2, <3>1, <4>1
      <4>9. m \notin doubtful' => rows'[m].text = IF newest'[m].edit = 0 THEN 1 ELSE newest'[m].edit
        BY <2>2, <3>1, <4>1, <4>2, <4>3
      <4>10. Rank[rows'[m].status] <= newest'[m].ack
        BY <4>1, <4>5
      <4>11. m \notin doubtful' => Rank[rows'[m].status] = newest'[m].ack
        BY <4>1, <4>6
      <4> QED BY <4>4, <4>5, <4>7, <4>8, <4>9, <4>10, <4>11
    <3>7. ASSUME job[h].kind = "edit" PROVE ShownAt(m)'
      <4>1. /\ n \in 2..wire[m].edits + 1 /\ rows'[m].status = rows[m].status /\ rows'[m].text = n
            /\ rows'[m].first = IF rows[m].first = Unedited THEN rows[m].text ELSE rows[m].first
        <5>1. /\ n \in 2..wire[m].edits + 1 /\ Updated(rows[m], job[h]).text = n
              /\ Updated(rows[m], job[h]).status = rows[m].status
              /\ Updated(rows[m], job[h]).first = IF rows[m].first = Unedited THEN rows[m].text ELSE rows[m].first
          BY <2>0, <3>1, <3>7, UpdatedIsRow
        <5> QED BY <5>1, <3>2
      <4>2. newest'[m].edit = (IF n > newest[m].edit THEN n ELSE newest[m].edit) /\ newest'[m].ack = newest[m].ack
        BY <1>3, <2>2, <3>7, <1>0 DEF updateMessageStatus
      <4>3. m \notin doubtful' => n >= newest[m].edit /\ m \notin doubtful
        BY <1>3, <2>2, <3>7, <1>0 DEF updateMessageStatus
      <4>4. newest'[m].edit \in 2..wire'[m].edits + 1
        BY <3>1, <3>5, <4>1, <4>2, <1>0
      <4>5. rows'[m].first # Unedited
        <5>1. rows[m].text # 0
          BY <3>1, StoreAssumption DEF MessageRow
        <5> QED BY <4>1, <5>1 DEF Unedited
      <4>6. m \notin doubtful' => newest'[m].edit = n /\ n # 0
        BY <4>1, <4>2, <4>3, <1>0
      <4>7. newest'[m].ack <= wire'[m].acks \/ (newest'[m].ack = 1 /\ ByUs(m)')
        BY <3>1, <3>4, <3>5, <4>2
      <4>8. ByUs(m)' => newest'[m].ack > 0
        BY <2>2, <3>1, <3>4, <4>2
      <4>9. ~rows'[m].gone => Rank[rows'[m].status] <= newest'[m].ack
        BY <2>2, <3>1, <3>3, <4>1, <4>2
      <4>10. m \notin doubtful' => rows'[m].text = IF newest'[m].edit = 0 THEN 1 ELSE newest'[m].edit
        BY <4>1, <4>6
      <4>11. m \notin doubtful' => (~rows'[m].gone => Rank[rows'[m].status] = newest'[m].ack)
        BY <2>2, <3>1, <3>3, <4>1, <4>2, <4>3
      <4> QED BY <4>4, <4>5, <4>7, <4>8, <4>9, <4>10, <4>11
    <3>8. \A i \in Ids : i # m => rows'[i] = rows[i] /\ newest'[i] = newest[i]
      BY <1>3, <2>2, <1>0 DEF updateMessageStatus, Put
    <3> QED BY <2>0, <3>6, <3>7, <3>8, <1>1
  <2> QED BY <2>1, <2>2
<1>4. ASSUME NEW h \in Handlers, softDeleteMessage(h) PROVE \A m \in Ids : ShownAt(m)'
  <2>0. job[h].id \in Ids /\ UNCHANGED newest
    BY <1>4, <1>0 DEF softDeleteMessage
  <2> PICK m \in Ids : m = job[h].id
    BY <2>0
  <2>1. CASE UNCHANGED rows
    BY <2>0, <2>1, <1>1
  <2>2. CASE rows[m] # NoRow /\ Put(m, [rows[m] EXCEPT !.status = "deleted", !.gone = TRUE])
    <3>1. rows[m] \in MessageRow /\ ShownAt(m)
      BY <2>2, <1>0 DEF Shown
    <3>2. rows'[m] = [rows[m] EXCEPT !.status = "deleted", !.gone = TRUE]
      BY <2>2, <1>0 DEF Put
    <3>3. /\ rows'[m].by = rows[m].by /\ rows'[m].gone /\ rows'[m].text = rows[m].text
          /\ rows'[m].first = rows[m].first
      BY <3>1, <3>2 DEF MessageRow
    <3>4. rows'[m] # NoRow /\ ByUs(m)' = ByUs(m)
      BY <2>2, <3>3, <1>0 DEF ByUs
    <3>5. newest'[m].ack <= wire'[m].acks \/ (newest'[m].ack = 1 /\ ByUs(m)')
      BY <2>0, <3>1, <3>4, <1>0
    <3>6. newest'[m].edit = 0 \/ newest'[m].edit \in 2..wire'[m].edits + 1
      BY <2>0, <3>1, <1>0
    <3>7. ShownAt(m)'
      BY <2>0, <2>2, <3>1, <3>3, <3>4, <3>5, <3>6, <1>0
    <3>8. \A i \in Ids : i # m => rows'[i] = rows[i]
      BY <2>2, <1>0 DEF Put
    <3> QED BY <2>0, <3>7, <3>8, <1>1
  <2> QED BY <1>4, <2>1, <2>2 DEF softDeleteMessage
<1>5. ASSUME UNCHANGED <<rows, newest>> PROVE \A m \in Ids : ShownAt(m)'
  BY <1>5, <1>1
<1>6. \A m \in Ids : ShownAt(m)'
  <2>1. ASSUME NEW h \in Handlers, Handle(h) PROVE \A m \in Ids : ShownAt(m)'
    <3>1. CASE \/ sendWhatsAppMessage(h) \/ saveMediaBuffer(h) \/ emitChatEvents(h) \/ logChatMsgAudit(h)
               \/ handleMessagesUpsert(h) \/ handleIncomingWhatsAppMessage(h) \/ Fail(h)
      BY <3>1, <1>5 DEF sendWhatsAppMessage, saveMediaBuffer, emitChatEvents, logChatMsgAudit,
                        handleMessagesUpsert, handleIncomingWhatsAppMessage, Fail
    <3> QED BY <2>1, <3>1, <1>2, <1>3, <1>4 DEF Handle
  <2>2. ASSUME NEW h \in Handlers, NEW m \in Ids, Arrive(h, m) PROVE UNCHANGED <<rows, newest>>
    BY <2>2 DEF Arrive, Send, Upsert, Acknowledge, Edit, Wipe, deleteMessageService
  <2> QED BY <2>1, <2>2, <1>5 DEF Next, PhoneSends, Dropped, vars
<1> QED BY <1>6 DEF Shown, ByUs

-----------------------------------------------------------------------------
LEMMA FirstInv == Init => Inv
<1> SUFFICES ASSUME Init PROVE Inv
  OBVIOUS
<1>0. /\ rows = [m \in Ids |-> NoRow] /\ told = [m \in Ids |-> 0] /\ doubtful = {}
      /\ own \subseteq Ids /\ offers = [m \in Ids |-> 0]
      /\ wire = [m \in Ids |-> [known |-> m \notin own, acks |-> 0, edits |-> 0, wiped |-> FALSE]]
      /\ pc = [h \in Handlers |-> "idle"] /\ job = [h \in Handlers |-> NoJob]
      /\ answer = [m \in Ids |-> "none"]
      /\ newest = [m \in Ids |-> [ack |-> 0, edit |-> 0]] /\ missed = {} /\ faulty = {}
  BY DEF Init, LogInit
<1>1. \A m \in Ids : wire[m].acks = 0 /\ wire[m].edits = 0 /\ newest[m].ack = 0 /\ newest[m].edit = 0
  BY <1>0
<1>2. \A h \in Handlers : pc[h] = "idle" /\ job[h].kind = "none" /\ job[h].id = NoRow /\ ~Sending(h)
  BY <1>0 DEF NoJob, Sending
<1>3. Types
  <2>1. wire \in [Ids -> Deeds]
    BY <1>0, StoreAssumption DEF Deeds
  <2>2. job \in [Handlers -> Jobs]
    BY <1>0 DEF NoJob, Jobs
  <2> QED BY <1>0, <2>1, <2>2 DEF Types
<1>4. HandlersSound
  BY <1>2 DEF HandlersSound, HandlerSound
<1>5. StoredFirst
  BY <1>0, <1>1, <1>2 DEF StoredFirst
<1>6. Answered
  BY <1>0, <1>2 DEF Answered
<1>7. Carried
  <2>1. ASSUME NEW m \in Ids PROVE rows[m] = NoRow /\ offers[m] = 0
    BY <1>0
  <2>2. ASSUME NEW m \in Ids PROVE ~(offers[m] > 0)
    <3>1. offers[m] \in Nat /\ offers[m] = 0
      BY <2>1
    <3> QED BY <3>1
  <2> QED BY <2>1, <2>2 DEF Carried
<1>8. Followed
  <2>1. ASSUME NEW m \in Ids PROVE 1..wire[m].acks = {} /\ 2..wire[m].edits + 1 = {}
    BY <1>1
  <2> QED BY <2>1 DEF Followed
<1>9. Shown
  <2>1. ASSUME NEW m \in Ids PROVE rows[m] = NoRow /\ newest[m].ack <= wire[m].acks /\ newest[m].edit = 0
    BY <1>0, <1>1
  <2> QED BY <2>1 DEF Shown
<1> QED BY <1>3, <1>4, <1>5, <1>6, <1>7, <1>8, <1>9 DEF Inv

LEMMA NextInv == Inv /\ [Next]_vars => Inv'
<1> SUFFICES ASSUME Inv, [Next]_vars PROVE Inv'
  OBVIOUS
<1>0. Types /\ HandlersSound /\ StoredFirst /\ Answered /\ Carried /\ Followed /\ Shown
  BY DEF Inv
<1>1. Types'
  BY <1>0, TypesStay
<1>2. Grown
  BY <1>0, Grows
<1>3. HandlersSound'
  BY <1>0, <1>1, <1>2, HandlersSoundStay
<1>4. StoredFirst'
  BY <1>0, <1>1, <1>2, <1>3, StoredFirstStays
<1>5. Answered'
  BY <1>0, <1>1, <1>2, <1>3, <1>4, AnsweredStays
<1>6. Carried'
  BY <1>0, <1>1, <1>2, CarriedStays
<1>7. Followed'
  BY <1>0, <1>1, <1>2, FollowedStays
<1>8. Shown'
  BY <1>0, <1>1, <1>2, ShownStays
<1> QED BY <1>1, <1>3, <1>4, <1>5, <1>6, <1>7, <1>8 DEF Inv

(* Every reachable state satisfies the invariant, for any number of        *)
(* messages and of handlers side by side.                                  *)
THEOREM Invariant == Spec => []Inv
BY FirstInv, NextInv, PTL DEF Spec

(* Nothing is lost without a failure: what WhatsApp delivered (upserts of  *)
(* handleMessagesUpsert) is stored and announced once its handlers are     *)
(* done, and an agent's answer says whether the application stored it.     *)
THEOREM NothingIsLost == Spec => []NothingLost
<1>1. Inv => NothingLost
  <2> SUFFICES ASSUME Inv, NEW m \in Ids \ faulty, Quiet(m)
               PROVE  /\ offers[m] > 0 => rows[m] # NoRow
                      /\ m \notin own /\ rows[m] # NoRow /\ rows[m].by = "live" => told[m] = 1
                      /\ m \in own /\ answer[m] = "ok" => told[m] = 1 /\ rows[m].by \in {"send", "media"}
                      /\ m \in own /\ answer[m] = "error" => rows[m] # NoRow /\ rows[m].by \in {"live", "history"}
    BY DEF NothingLost
  <2>1. ~Storing(m) /\ ~Telling(m)
    BY DEF Quiet, Storing, Telling
  <2> QED BY <2>1 DEF Inv, Carried, Answered, ByUs, ByWire
<1> QED BY Invariant, <1>1, PTL

(* The row shows the last acknowledgement and the last edit, unless an     *)
(* update came before the row, was overtaken by a younger one, or failed.  *)
THEOREM StatusStaysTrue == Spec => []StatusIsTrue
<1>1. Inv => StatusIsTrue
  <2> SUFFICES ASSUME Inv, NEW m \in Ids \ (faulty \cup missed \cup doubtful), Quiet(m), rows[m] # NoRow
               PROVE  /\ rows[m].text = wire[m].edits + 1
                      /\ ~rows[m].gone =>
                           Rank[rows[m].status] =
                             IF wire[m].acks = 0 /\ rows[m].by \in {"send", "media"} THEN 1 ELSE wire[m].acks
    BY DEF StatusIsTrue
  <2>0. /\ wire[m].acks \in Nat /\ wire[m].edits \in Nat /\ newest[m].ack \in Nat /\ newest[m].edit \in Nat
    BY StoreAssumption DEF Inv, Types, Deeds
  <2>1. \A n : ~InHand(m, "ack", n) /\ ~InHand(m, "edit", n)
    BY DEF Quiet, InHand
  <2>2. /\ \A n \in 1..wire[m].acks : n <= newest[m].ack
        /\ \A n \in 2..wire[m].edits + 1 : n <= newest[m].edit
    BY <2>1 DEF Inv, Followed
  <2>3. /\ newest[m].ack <= wire[m].acks \/ (newest[m].ack = 1 /\ ByUs(m))
        /\ newest[m].edit = 0 \/ newest[m].edit \in 2..wire[m].edits + 1
        /\ ByUs(m) => newest[m].ack > 0
        /\ rows[m].text = IF newest[m].edit = 0 THEN 1 ELSE newest[m].edit
        /\ ~rows[m].gone => Rank[rows[m].status] = newest[m].ack
    BY DEF Inv, Shown
  <2>4. newest[m].edit = IF wire[m].edits = 0 THEN 0 ELSE wire[m].edits + 1
    BY <2>0, <2>2, <2>3
  <2>5. newest[m].ack = IF wire[m].acks = 0 /\ ByUs(m) THEN 1 ELSE wire[m].acks
    BY <2>0, <2>2, <2>3
  <2>6. ByUs(m) <=> rows[m].by \in {"send", "media"}
    BY DEF ByUs
  <2> QED BY <2>0, <2>3, <2>4, <2>5, <2>6
<1> QED BY Invariant, <1>1, PTL

(* MessageStore implements MessageLog: whatever the order of the handlers, *)
(* a message is stored once, announced at most once and after that, keeps  *)
(* its first text through its edits and its deletion, and its status only  *)
(* goes back where an event was overtaken.                                 *)
THEOREM Implements == Spec => LogSpec
<1> USE DEF log, outside, handlers, history
<1>1. Init => LogInit
  BY DEF Init
<1>2. Inv /\ [Next]_vars => [LogNext]_<<rows, told, doubtful>>
  <2> SUFFICES ASSUME Inv, [Next]_vars PROVE [LogNext]_<<rows, told, doubtful>>
    OBVIOUS
  <2>0. /\ Types /\ HandlersSound /\ StoredFirst /\ Shown
        /\ DOMAIN rows = Ids
        /\ \A h \in Handlers : pc[h] # "idle" => job[h].id \in Ids /\ job[h].arg \in Nat
    BY AtWork DEF Inv, Types
  <2>1. ASSUME NEW h \in Handlers, insertMessage(h) PROVE [LogNext]_<<rows, told, doubtful>>
    <3>0. pc[h] = "insert" /\ job[h].id \in Ids /\ UNCHANGED <<told, doubtful>>
      BY <2>0, <2>1 DEF insertMessage
    <3> PICK m \in Ids : m = job[h].id
      BY <3>0
    <3>1. CASE rows[m] = NoRow /\ Put(m, NewRow(h))
      <4>1. rows'[m] = NewRow(h)
        BY <3>1, <2>0 DEF Put
      <4>2. NewRow(h) # NoRow /\ NewRow(h).first = Unedited /\ ~NewRow(h).gone
        BY <3>0, <2>0, NewRowIsRow, NoMessage
      <4>3. Store(m)
        BY <3>0, <3>1, <4>1, <4>2 DEF Store
      <4> QED BY <4>3 DEF LogNext
    <3> QED BY <2>1, <3>0, <3>1 DEF insertMessage, Taken
  <2>2. ASSUME NEW h \in Handlers, emitChatEvents(h) PROVE [LogNext]_<<rows, told, doubtful>>
    <3>0. pc[h] = "tell" /\ job[h].id \in Ids /\ UNCHANGED <<rows, doubtful>>
      BY <2>0, <2>2 DEF emitChatEvents
    <3> PICK m \in Ids : m = job[h].id
      BY <3>0
    <3>1. rows[m] # NoRow /\ told[m] = 0
      BY <3>0, <2>0 DEF StoredFirst
    <3>2. told' = [told EXCEPT ![m] = 1]
      BY <2>2, <3>1 DEF emitChatEvents
    <3> QED BY <3>0, <3>1, <3>2 DEF Tell, LogNext
  <2>3. ASSUME NEW h \in Handlers, updateMessageStatus(h) PROVE [LogNext]_<<rows, told, doubtful>>
    <3>0. pc[h] = "write" /\ job[h].id \in Ids /\ job[h].kind \in {"ack", "edit"} /\ UNCHANGED told
      BY <2>0, <2>3 DEF updateMessageStatus
    <3> PICK m \in Ids, n \in Nat : m = job[h].id /\ n = job[h].arg
      BY <2>0, <3>0
    <3>1. CASE rows[m] = NoRow
      BY <2>3, <3>0, <3>1 DEF updateMessageStatus
    <3>2. CASE rows[m] # NoRow
      <4> PICK r \in MessageRow : r = rows[m]
        BY <2>0, <3>2 DEF Types
      <4> PICK u : u = Updated(r, job[h])
        OBVIOUS
      <4>1. Put(m, u) /\ doubtful' \in {doubtful, doubtful \cup {m}}
        BY <2>3, <3>2 DEF updateMessageStatus
      <4>2. u \in MessageRow /\ u # NoRow /\ u.by = r.by /\ u.gone = r.gone
        BY <2>0, <3>0, UpdatedIsRow, NoMessage
      <4>3. rows'[m] = u
        BY <4>1, <2>0 DEF Put
      <4>4. u = [r EXCEPT !.status = u.status, !.text = u.text, !.first = u.first]
        BY <4>2 DEF MessageRow
      <4>5. Rank[r.status] \in Nat /\ (~r.gone => Rank[r.status] <= newest[m].ack)
            /\ (r.first = Unedited => r.text = 1)
        <5>1. Rank[r.status] \in Nat
          BY Ranks DEF MessageRow
        <5> QED BY <5>1, <2>0, <3>2 DEF Shown
      <4>6. /\ Rank[u.status] >= Rank[r.status] \/ m \in doubtful'
            /\ u.first = IF u.text = r.text \/ r.first # Unedited THEN r.first ELSE r.text
        <5>1. CASE job[h].kind = "ack"
          <6>1. Rank[u.status] = n /\ u.text = r.text /\ u.first = r.first
            BY <2>0, <3>0, <5>1, UpdatedIsRow
          <6>2. m \notin doubtful' => ~r.gone /\ ~(n < newest[m].ack)
            BY <2>3, <3>2, <5>1 DEF updateMessageStatus
          <6>3. newest[m].ack \in Nat
            BY <2>0 DEF Types
          <6>4. m \notin doubtful' => Rank[u.status] >= Rank[r.status]
            BY <4>5, <6>1, <6>2, <6>3
          <6> QED BY <6>1, <6>4
        <5>2. CASE job[h].kind = "edit"
          <6>1. /\ u.status = r.status /\ u.text = n
                /\ u.first = IF r.first = Unedited THEN r.text ELSE r.first
            BY <2>0, <3>0, <5>2, UpdatedIsRow
          <6>2. n # 1
            <7>1. n \in 2..wire[m].edits + 1
              BY <2>0, <3>0, <5>2, UpdatedIsRow
            <7> QED BY <7>1
          <6>3. Rank[u.status] >= Rank[r.status]
            BY <4>5, <6>1
          <6>4. u.first = IF u.text = r.text \/ r.first # Unedited THEN r.first ELSE r.text
            BY <4>5, <6>1, <6>2
          <6> QED BY <6>3, <6>4
        <5> QED BY <3>0, <5>1, <5>2
      <4>7. Amend(m)
        BY <3>0, <3>2, <4>1, <4>2, <4>3, <4>4, <4>6 DEF Amend
      <4> QED BY <4>7 DEF LogNext
    <3> QED BY <3>1, <3>2
  <2>4. ASSUME NEW h \in Handlers, softDeleteMessage(h) PROVE [LogNext]_<<rows, told, doubtful>>
    <3>0. job[h].id \in Ids /\ UNCHANGED <<told, doubtful>>
      BY <2>0, <2>4 DEF softDeleteMessage
    <3> PICK m \in Ids : m = job[h].id
      BY <3>0
    <3>1. UNCHANGED rows \/ Erase(m)
      BY <2>4, <3>0 DEF softDeleteMessage, Erase
    <3> QED BY <3>0, <3>1 DEF LogNext
  <2>5. ASSUME NEW h \in Handlers, Handle(h), ~insertMessage(h), ~emitChatEvents(h),
               ~updateMessageStatus(h), ~softDeleteMessage(h)
        PROVE  UNCHANGED log
    BY <2>5 DEF Handle, sendWhatsAppMessage, saveMediaBuffer, logChatMsgAudit, handleMessagesUpsert,
                handleIncomingWhatsAppMessage, Fail
  <2>6. ASSUME NEW h \in Handlers, NEW m \in Ids, Arrive(h, m) PROVE UNCHANGED log
    BY <2>6 DEF Arrive, Send, Upsert, Acknowledge, Edit, Wipe, deleteMessageService
  <2>7. ASSUME NEW m \in Ids, PhoneSends(m) \/ Dropped(m) PROVE UNCHANGED log
    BY <2>7 DEF PhoneSends, Dropped
  <2>8. CASE UNCHANGED vars
    BY <2>8 DEF vars
  <2> QED BY <2>1, <2>2, <2>3, <2>4, <2>5, <2>6, <2>7, <2>8 DEF Next
<1> QED BY Invariant, <1>1, <1>2, PTL DEF Spec, LogSpec

-----------------------------------------------------------------------------
(* The messages that a session missed: types.                              *)
Dates  == Never..now
Queues == {<<>>, <<"resync">>, <<"batch">>, <<"resync", "batch">>, <<"batch", "resync">>}
Places == {"rest", "fetch", "feed", "end"}

SyncTypes ==
  /\ now \in 0..MaxNow /\ received \subseteq Messages /\ skipped \subseteq Messages
  /\ arrivals \subseteq [msg : Messages, sent : BOOLEAN]
  /\ row \in [synced : Dates, since : Dates, closed : BOOLEAN, wanted : BOOLEAN]
  /\ up \in BOOLEAN /\ notices \subseteq {"open", "close"} /\ asks \in BOOLEAN
  /\ jobs \in Queues
  /\ resync \in [at : Places, from : Dates, below : 0..(now + 1), todo : SUBSET Messages,
                 newest : Dates, alive : BOOLEAN]
  /\ past \in Seq(SUBSET Nat) /\ \A i \in DOMAIN past : past[i] \subseteq Messages
  /\ turns \in 0..MaxTurns /\ mishaps \in 0..MaxMishaps

(* A batch waits while there is a rest of the history.                     *)
BatchesWait == Queued("batch") => past # NoHistory

(* A resync under way is the first job.                                    *)
ResyncIsFirst == resync.at # "rest" => jobs # <<>> /\ Head(jobs) = "resync"

(* What is missing without a reason is still to be asked for: it is        *)
(* younger than what the resync began from, and below its cursor, in the   *)
(* page in hand, or younger than all that this resync has asked for.       *)
Unexplained == Missing \ skipped

YoungerThanAll(m) ==
  Stamp(m) >= resync.below /\ Stamp(m) > resync.newest /\ \A n \in resync.todo : Stamp(m) > n

StillAsked(m) ==
  /\ Stamp(m) > resync.from
  /\ m < resync.below \/ m \in resync.todo \/ YoungerThanAll(m)

ResyncSound ==
  /\ resync.at = "rest" => \A m \in Unexplained : Stamp(m) > row.synced
  /\ Asking => resync.below >= 1 /\ \A m \in Unexplained : StillAsked(m)
  /\ resync.at = "fetch" => resync.todo = {}
  /\ resync.at = "end" => \A m \in Unexplained : Stamp(m) > resync.newest

SyncInv == SyncTypes /\ BatchesWait /\ ResyncIsFirst /\ ResyncSound

-----------------------------------------------------------------------------
(* Constants, seconds and pages.                                           *)
LEMMA SyncConstants ==
  /\ Second \in Nat \ {0} /\ Page \in Nat \ {0} /\ MaxNow \in Nat /\ MaxTurns \in Nat /\ MaxMishaps \in Nat
  /\ Never = -1
BY HistoryAssumption DEF Never

LEMMA Division ==
  ASSUME NEW m \in Nat, NEW s \in Nat \ {0}
  PROVE  m \div s \in Nat /\ m % s \in 0..(s - 1) /\ m = s * (m \div s) + (m % s)
OBVIOUS

LEMMA StampBounds ==
  ASSUME NEW m \in Nat
  PROVE  Stamp(m) \in 0..m
<1>1. m \div Second \in Nat /\ m % Second \in 0..(Second - 1) /\ m = Second * (m \div Second) + (m % Second)
  BY SyncConstants, Division
<1> DEFINE d == m \div Second
           r == m % Second
<1>2. Second * d \in Nat
  BY <1>1, SyncConstants
<1> HIDE DEF d
<1> QED BY <1>1, <1>2, SyncConstants DEF Stamp, d

(* The second of a later message is not earlier.                           *)
LEMMA StampMonotone ==
  ASSUME NEW m \in Nat, NEW n \in Nat, m <= n
  PROVE  Stamp(m) <= Stamp(n)
<1> DEFINE a == m \div Second
           b == n \div Second
<1>0. Second \in Nat \ {0}
  BY SyncConstants
<1>1. /\ a \in Nat /\ b \in Nat /\ m = Second * a + (m % Second) /\ n = Second * b + (n % Second)
      /\ m % Second \in 0..(Second - 1) /\ n % Second \in 0..(Second - 1)
  BY <1>0, Division
<1> HIDE DEF a, b
<1>2. CASE b >= a
  <2>1. Second * b >= Second * a
    BY <1>0, <1>1, <1>2
  <2> QED BY <1>0, <1>1, <2>1 DEF Stamp
<1>3. CASE a >= b + 1
  <2>1. Second * a >= Second * (b + 1)
    BY <1>0, <1>1, <1>3
  <2>2. Second * (b + 1) = Second * b + Second
    BY <1>0, <1>1
  <2> QED BY <1>0, <1>1, <2>1, <2>2 DEF Stamp
<1> QED BY <1>1, <1>2, <1>3

LEMMA OldestIsFirst ==
  ASSUME NEW S \in SUBSET Nat, S # {}
  PROVE  Oldest(S) \in S /\ \A n \in S : Oldest(S) <= n
<1> DEFINE R == {ss \in Nat \X Nat : ss[1] < ss[2]}
<1>1. IsWellFoundedOn(R, Nat)
  BY NatLessThanWellFounded DEF OpToRel
<1>2. \E m \in S : \A n \in S : <<n, m>> \notin R
  <2> HIDE DEF R
  <2> QED BY <1>1, WFMin
<1>3. PICK m \in S : \A n \in S : <<n, m>> \notin R
  BY <1>2
<1>4. \A n \in S : m <= n
  <2> SUFFICES ASSUME NEW n \in S PROVE m <= n
    OBVIOUS
  <2>1. <<n, m>> \notin R /\ n \in Nat /\ m \in Nat
    BY <1>3
  <2>2. ~(n < m)
    BY <2>1
  <2> QED BY <2>1, <2>2
<1> HIDE DEF R
<1> QED BY <1>3, <1>4 DEF Oldest

(* A page has the youngest messages below the cursor, and some if any.     *)
LEMMA PagesAreBlocks ==
  ASSUME NEW below \in Nat
  PROVE  /\ PageBelow(below) \subseteq 1..(below - 1)
         /\ \A m \in 1..(below - 1), k \in PageBelow(below) : m >= k => m \in PageBelow(below)
         /\ PageBelow(below) = {} => below <= 1
<1> DEFINE All == 1..(below - 1)
           Above(m) == {n \in All : n > m}
<1>0. IsFiniteSet(All)
  BY FS_Interval
<1>1. \A m \in All : IsFiniteSet(Above(m)) /\ Cardinality(Above(m)) \in Nat
  BY <1>0, FS_Subset, FS_CardinalityType
<1>2. PageBelow(below) = {m \in All : Cardinality(Above(m)) < Page}
  BY DEF PageBelow
<1>3. ASSUME NEW m \in All, NEW k \in All, m >= k PROVE Cardinality(Above(m)) <= Cardinality(Above(k))
  <2>1. Above(m) \subseteq Above(k)
    BY <1>3
  <2> HIDE DEF Above
  <2> QED BY <1>1, <2>1, FS_Subset
<1>4. ASSUME NEW m \in All, NEW k \in PageBelow(below), m >= k PROVE m \in PageBelow(below)
  <2>1. k \in All /\ Cardinality(Above(k)) < Page
    BY <1>2
  <2>2. Cardinality(Above(m)) <= Cardinality(Above(k))
    BY <1>3, <1>4, <2>1
  <2>3. Cardinality(Above(m)) < Page
    <3> HIDE DEF Above
    <3> QED BY <1>1, <2>1, <2>2, SyncConstants
  <2> HIDE DEF Above
  <2> QED BY <1>2, <2>3
<1>5. ASSUME below > 1 PROVE below - 1 \in PageBelow(below)
  <2>1. below - 1 \in All /\ Above(below - 1) = {}
    BY <1>5
  <2>2. Cardinality(Above(below - 1)) = 0
    BY <2>1, FS_EmptySet
  <2> HIDE DEF Above
  <2> QED BY <1>2, <2>1, <2>2, SyncConstants
<1>6. PageBelow(below) = {} => below <= 1
  <2> HIDE DEF All
  <2> QED BY <1>5
<1> HIDE DEF Above
<1> QED BY <1>2, <1>4, <1>6

-----------------------------------------------------------------------------
(* Steps.  What leaves the resync as it is keeps it sound, when what it    *)
(* adds to the missing messages is younger than all before.                *)
SameResync ==
  /\ resync'.at = resync.at /\ resync'.from = resync.from /\ resync'.below = resync.below
  /\ resync'.todo = resync.todo /\ resync'.newest = resync.newest

LEMMA StillSound ==
  ASSUME SyncInv, SameResync,
         \A m \in Unexplained' : m \in Nat /\ (m \in Unexplained \/ Stamp(m) > now),
         row'.synced = row.synced
           \/ (resync.at = "rest" => \A m \in Unexplained' : Stamp(m) > row'.synced)
  PROVE  ResyncSound'
<1>0. /\ now \in Nat /\ row.synced \in Dates /\ resync.from \in Dates /\ resync.newest \in Dates
      /\ resync.below \in 0..(now + 1) /\ resync.todo \subseteq 1..now
  BY DEF SyncInv, SyncTypes, Messages
<1>1. \A m \in Unexplained' : Stamp(m) \in Nat
  BY StampBounds
<1>2. ASSUME NEW m \in Unexplained', Asking PROVE StillAsked(m)'
  <2>0. Stamp(m) \in Nat
    BY <1>1
  <2>1. CASE m \in Unexplained
    <3>1. StillAsked(m)
      BY <1>2, <2>1 DEF SyncInv, ResyncSound
    <3> QED BY <3>1 DEF StillAsked, YoungerThanAll, SameResync
  <2>2. CASE Stamp(m) > now
    <3>1. Stamp(m) > resync.from /\ Stamp(m) >= resync.below /\ Stamp(m) > resync.newest
      BY <1>0, <2>0, <2>2, SyncConstants DEF Dates
    <3>2. \A n \in resync.todo : Stamp(m) > n
      BY <1>0, <2>0, <2>2
    <3> QED BY <3>1, <3>2 DEF StillAsked, YoungerThanAll, SameResync
  <2> QED BY <2>1, <2>2
<1>3. ASSUME NEW m \in Unexplained', resync.at = "rest" PROVE Stamp(m) > row'.synced
  <2>1. CASE \A n \in Unexplained' : Stamp(n) > row'.synced
    BY <2>1
  <2>2. CASE row'.synced = row.synced /\ m \in Unexplained
    BY <1>3, <2>2 DEF SyncInv, ResyncSound
  <2>3. CASE row'.synced = row.synced /\ Stamp(m) > now
    BY <1>0, <1>1, <2>3, SyncConstants DEF Dates
  <2> QED BY <1>3, <2>1, <2>2, <2>3
<1>4. ASSUME NEW m \in Unexplained', resync.at = "end" PROVE Stamp(m) > resync.newest
  <2>1. CASE m \in Unexplained
    BY <1>4, <2>1 DEF SyncInv, ResyncSound
  <2>2. CASE Stamp(m) > now
    BY <1>0, <1>1, <2>2, SyncConstants DEF Dates
  <2> QED BY <2>1, <2>2
<1>5. (Asking => resync.below >= 1) /\ (resync.at = "fetch" => resync.todo = {})
  BY DEF SyncInv, ResyncSound
<1> QED BY <1>2, <1>3, <1>4, <1>5 DEF ResyncSound, Asking, SameResync

(* As time goes on, moments and messages stay what they are.               *)
LEMMA TimeGoesOn ==
  ASSUME SyncTypes, now' = now + 1, now < MaxNow, received' = received,
         skipped' \subseteq skipped \cup {now'}, mishaps' \in 0..MaxMishaps,
         arrivals' \subseteq arrivals \cup {[msg |-> now', sent |-> s] : s \in BOOLEAN},
         UNCHANGED <<row, line, work, turns>>
  PROVE  SyncTypes'
<1>1. /\ now \in Nat /\ now' \in 0..MaxNow /\ Messages \subseteq Messages' /\ now' \in Messages'
      /\ Dates \subseteq Dates'
  BY SyncConstants DEF SyncTypes, Messages, Dates
<1>2. row' \in [synced : Dates', since : Dates', closed : BOOLEAN, wanted : BOOLEAN]
  BY <1>1 DEF SyncTypes
<1>3. resync' \in [at : Places, from : Dates', below : 0..(now' + 1), todo : SUBSET Messages',
                   newest : Dates', alive : BOOLEAN]
  <2>1. 0..(now + 1) \subseteq 0..(now' + 1)
    BY <1>1
  <2> QED BY <1>1, <2>1 DEF SyncTypes, work
<1>4. past' \in Seq(SUBSET Nat) /\ \A i \in DOMAIN past' : past'[i] \subseteq Messages'
  BY <1>1 DEF SyncTypes, work
<1>5. ASSUME NEW h \in arrivals' PROVE h \in [msg : Messages', sent : BOOLEAN]
  <2>1. CASE h \in arrivals
    <3>1. h \in [msg : Messages, sent : BOOLEAN]
      BY <2>1 DEF SyncTypes
    <3> QED BY <1>1, <3>1
  <2>2. CASE h \notin arrivals
    <3>1. PICK s \in BOOLEAN : h = [msg |-> now', sent |-> s]
      BY <2>2
    <3> QED BY <1>1, <3>1
  <2> QED BY <2>1, <2>2
<1>6. received' \subseteq Messages' /\ skipped' \subseteq Messages'
  BY <1>1 DEF SyncTypes
<1>7. up' \in BOOLEAN /\ notices' \subseteq {"open", "close"} /\ asks' \in BOOLEAN /\ jobs' \in Queues
      /\ turns' \in 0..MaxTurns
  BY DEF SyncTypes, line, work
<1> QED BY <1>1, <1>2, <1>3, <1>4, <1>5, <1>6, <1>7 DEF SyncTypes, Dates, Messages

LEMMA NewMessage ==
  ASSUME SyncInv, Receive \/ SendOne
  PROVE  SyncInv'
<1>1. /\ now' = now + 1 /\ now < MaxNow /\ received' = received
      /\ row' = row /\ jobs' = jobs /\ resync' = resync /\ past' = past /\ UNCHANGED <<line, work, turns>>
  BY DEF Receive, SendOne, work
<1>2. now \in Nat /\ mishaps \in 0..MaxMishaps
  BY SyncConstants DEF SyncInv, SyncTypes
<1>3. /\ skipped' \subseteq skipped \cup {now'} /\ skipped \subseteq skipped'
      /\ mishaps' \in 0..MaxMishaps
  <2>1. mishaps' = mishaps \/ Happens
    BY DEF Receive, SendOne
  <2>2. mishaps' \in 0..MaxMishaps
    BY <1>2, <2>1, SyncConstants DEF Happens
  <2>3. skipped' = skipped \/ skipped' = skipped \cup {now'}
    BY DEF Receive, SendOne
  <2> QED BY <2>2, <2>3
<1>4. /\ arrivals' \subseteq arrivals \cup {[msg |-> now', sent |-> s] : s \in BOOLEAN}
      /\ arrivals \subseteq arrivals'
  BY DEF Receive, SendOne, Hand
<1>5. SyncTypes'
  BY <1>1, <1>3, <1>4, TimeGoesOn DEF SyncInv
<1>6. (BatchesWait /\ ResyncIsFirst)'
  BY <1>1 DEF SyncInv, BatchesWait, ResyncIsFirst, Queued
<1>7. ASSUME NEW m \in Unexplained' PROVE m \in Nat /\ (m \in Unexplained \/ Stamp(m) > now)
  <2>1. m \in 1..now' /\ m \notin received /\ m \notin Arriving' /\ m \notin skipped'
    BY <1>1, <1>7 DEF Unexplained, Missing, Messages
  <2>2. m \in Nat /\ Stamp(m) \in Nat
    BY <1>1, <1>2, <2>1, StampBounds
  <2>3. m \notin Arriving /\ m \notin skipped
    BY <1>3, <1>4, <2>1 DEF Arriving
  <2>4. CASE m \in 1..now
    BY <2>1, <2>2, <2>3, <2>4 DEF Unexplained, Missing, Messages
  <2>5. CASE m = now'
    <3>1. CASE Receive /\ ~up /\ skipped' = IF Stamp(now') <= now THEN skipped \cup {now'} ELSE skipped
      BY <1>2, <2>1, <2>2, <2>5, <3>1
    <3>2. CASE now' \in skipped'
      BY <2>1, <2>5, <3>2
    <3>3. CASE Hand({now'}, FALSE) \/ Hand({now'}, TRUE)
      <4>1. PICK s \in BOOLEAN : [msg |-> now', sent |-> s] \in arrivals'
        BY <3>3 DEF Hand
      <4> QED BY <2>1, <2>5, <4>1 DEF Arriving
    <3> QED BY <3>1, <3>2, <3>3 DEF Receive, SendOne
  <2> QED BY <1>1, <1>2, <2>1, <2>4, <2>5
<1>8. ResyncSound'
  BY <1>1, <1>7, StillSound DEF SameResync
<1> QED BY <1>5, <1>6, <1>8 DEF SyncInv

LEMMA Handled ==
  ASSUME SyncInv, NEW h \in arrivals, HandleMessage(h)
  PROVE  SyncInv'
<1>1. /\ now' = now /\ jobs' = jobs /\ resync' = resync /\ past' = past
      /\ up' = up /\ notices' = notices /\ asks' = asks /\ turns' = turns /\ arrivals' = arrivals \ {h}
  BY DEF HandleMessage, line, work
<1>2. /\ now \in Nat /\ h.msg \in Messages /\ h.sent \in BOOLEAN /\ h.msg \in Nat
      /\ row \in [synced : Dates, since : Dates, closed : BOOLEAN, wanted : BOOLEAN]
      /\ received \subseteq Messages /\ skipped \subseteq Messages /\ mishaps \in 0..MaxMishaps
  BY SyncConstants DEF SyncInv, SyncTypes, Messages
<1>3. Reached(h) \in Dates
  BY <1>2, StampBounds, SyncConstants DEF Reached, Dates, Messages
<1>4. Passed(Reached(h)) \subseteq Messages
  BY DEF Passed, Missing
<1>5. /\ received' \subseteq Messages /\ skipped' \subseteq Messages /\ mishaps' \in 0..MaxMishaps
      /\ received \subseteq received' /\ skipped \subseteq skipped'
      /\ row' \in [synced : Dates, since : Dates, closed : BOOLEAN, wanted : BOOLEAN]
      /\ h.msg \in received' \cup skipped'
  BY <1>2, <1>3, <1>4, SyncConstants DEF HandleMessage, Happens
<1>6. Messages' = Messages /\ Dates' = Dates
  BY <1>1 DEF Messages, Dates
<1>7. SyncTypes'
  BY <1>1, <1>5, <1>6 DEF SyncInv, SyncTypes
<1>8. (BatchesWait /\ ResyncIsFirst)'
  BY <1>1 DEF SyncInv, BatchesWait, ResyncIsFirst, Queued
<1>9. Arriving \subseteq Arriving' \cup {h.msg}
  BY <1>1 DEF Arriving
<1>10. Unexplained' \subseteq Unexplained
  BY <1>5, <1>6, <1>9 DEF Unexplained, Missing
<1>11. \A m \in Unexplained' : m \in Nat
  BY <1>2, <1>10 DEF Unexplained, Missing, Messages
<1>12. row'.synced = row.synced
        \/ (resync.at = "rest" => \A m \in Unexplained' : Stamp(m) > row'.synced)
  <2>1. CASE row' = row
    BY <2>1
  <2>2. CASE row' = [row EXCEPT !.synced = Reached(h)]
             /\ skipped' = IF Asking THEN skipped ELSE skipped \cup Passed(Reached(h))
    <3>1. row'.synced = Reached(h)
      BY <1>2, <2>2
    <3> SUFFICES ASSUME resync.at = "rest", NEW m \in Unexplained' PROVE Stamp(m) > Reached(h)
      BY <3>1
    <3>2. Passed(Reached(h)) \subseteq skipped'
      BY <2>2 DEF Asking
    <3>3. m \notin skipped' /\ m \in Missing
      BY <1>10 DEF Unexplained
    <3>4. ~(Stamp(m) <= Reached(h))
      BY <3>2, <3>3 DEF Passed
    <3> QED BY <1>3, <1>11, <3>4, StampBounds, SyncConstants DEF Dates
  <2> QED BY <2>1, <2>2 DEF HandleMessage
<1>13. ResyncSound'
  BY <1>1, <1>10, <1>11, <1>12, StillSound DEF SameResync
<1> QED BY <1>7, <1>8, <1>13 DEF SyncInv

(* The queue with one job and with two.                                    *)
LEMMA OneOrTwo ==
  ASSUME NEW S, NEW a \in S, NEW b \in S
  PROVE  /\ Append(<<>>, a) = <<a>> /\ Append(<<a>>, b) = <<a, b>>
         /\ Tail(<<a>>) = <<>> /\ Tail(<<a, b>>) = <<b>>
<1>1. <<>> \in Seq(S) /\ <<a>> \in Seq(S) /\ <<a, b>> \in Seq(S) /\ Len(<<a>>) = 1 /\ Len(<<a, b>>) = 2
  OBVIOUS
<1>2. Append(<<>>, a) = <<a>>
  BY <1>1
<1>3. Append(<<a>>, b) = <<a, b>>
  <2>1. Append(<<a>>, b) \in Seq(S) /\ Len(Append(<<a>>, b)) = 2
    BY <1>1
  <2>2. Append(<<a>>, b)[1] = a /\ Append(<<a>>, b)[2] = b
    BY <1>1
  <2> DEFINE s == Append(<<a>>, b)
             t == <<a, b>>
  <2>3. t[1] = a /\ t[2] = b /\ t \in Seq(S) /\ Len(t) = 2
    OBVIOUS
  <2> HIDE DEF s, t
  <2>4. s = t
    <3>1. \A i \in 1..Len(s) : s[i] = t[i]
      BY <2>1, <2>2, <2>3 DEF s
    <3> QED BY <2>1, <2>3, <3>1, SeqEqual DEF s
  <2> QED BY <2>4 DEF s, t
<1>4. Tail(<<a, b>>) = <<b>>
  <2>1. Len(Tail(<<a, b>>)) = 1
    BY <1>1
  <2> QED BY <1>1, <2>1
<1>5. Tail(<<a>>) = <<>>
  OBVIOUS
<1> QED BY <1>2, <1>3, <1>4, <1>5

LEMMA TheTwoJobs ==
  /\ Append(<<>>, "resync") = <<"resync">> /\ Append(<<>>, "batch") = <<"batch">>
  /\ Append(<<"batch">>, "resync") = <<"batch", "resync">>
  /\ Append(<<"resync">>, "batch") = <<"resync", "batch">>
  /\ Tail(<<"resync">>) = <<>> /\ Tail(<<"batch">>) = <<>>
  /\ Tail(<<"batch", "resync">>) = <<"resync">> /\ Tail(<<"resync", "batch">>) = <<"batch">>
<1> DEFINE S == {"resync", "batch"}
<1>1. "resync" \in S /\ "batch" \in S
  OBVIOUS
<1> HIDE DEF S
<1>2. \A a, b \in S : /\ Append(<<>>, a) = <<a>> /\ Append(<<a>>, b) = <<a, b>>
                       /\ Tail(<<a>>) = <<>> /\ Tail(<<a, b>>) = <<b>>
  BY OneOrTwo
<1> QED BY <1>1, <1>2, Zenon

(* The line and the settings.                                              *)
LEMMA LineSteps ==
  ASSUME SyncInv, Open \/ Close \/ OnOpen \/ OnClose \/ \E wanted \in BOOLEAN : updateSessionSettings(wanted)
  PROVE  SyncInv'
<1>1. /\ now' = now /\ received' = received /\ arrivals' = arrivals /\ past' = past /\ skipped' = skipped
      /\ mishaps' = mishaps
  BY DEF Open, Close, OnOpen, OnClose, updateSessionSettings, work
<1>2. /\ now \in Nat /\ turns \in 0..MaxTurns /\ notices \subseteq {"open", "close"} /\ jobs \in Queues
      /\ row \in [synced : Dates, since : Dates, closed : BOOLEAN, wanted : BOOLEAN]
      /\ resync \in [at : Places, from : Dates, below : 0..(now + 1), todo : SUBSET Messages,
                     newest : Dates, alive : BOOLEAN]
      /\ up \in BOOLEAN /\ asks \in BOOLEAN /\ now \in Dates
  BY SyncConstants DEF SyncInv, SyncTypes, Dates
<1>3. /\ row' \in [synced : Dates, since : Dates, closed : BOOLEAN, wanted : BOOLEAN]
      /\ row'.synced = row.synced
  BY <1>2 DEF Open, Close, OnOpen, OnClose, updateSessionSettings, upsertSessionSyncHistory
<1>4. /\ resync' \in [at : Places, from : Dates, below : 0..(now + 1), todo : SUBSET Messages,
                      newest : Dates, alive : BOOLEAN]
      /\ SameResync
  <2>1. resync' = resync \/ resync' = [resync EXCEPT !.alive = FALSE]
    BY DEF Open, Close, OnOpen, OnClose, updateSessionSettings, work
  <2> QED BY <1>2, <2>1 DEF SameResync
<1>5. jobs' = jobs \/ (~Queued("resync") /\ jobs' = Append(jobs, "resync"))
  BY DEF Open, Close, OnOpen, OnClose, updateSessionSettings, work
<1>6. /\ jobs' \in Queues
      /\ jobs # <<>> => jobs' # <<>> /\ Head(jobs') = Head(jobs)
      /\ Queued("batch")' => Queued("batch")
  <2>1. CASE jobs' = jobs
    BY <1>2, <2>1 DEF Queued
  <2>2. CASE ~Queued("resync") /\ jobs' = Append(jobs, "resync")
    <3>1. jobs = <<>> \/ jobs = <<"batch">>
      BY <1>2, <2>2 DEF Queues, Queued
    <3>2. CASE jobs = <<>>
      BY <2>2, <3>2 DEF Queued, Queues
    <3>3. CASE jobs = <<"batch">>
      <4>1. jobs' = <<"batch", "resync">>
        BY <2>2, <3>3, TheTwoJobs
      <4>2. jobs[1] = "batch" /\ DOMAIN jobs = {1}
        BY <3>3
      <4> QED BY <3>3, <4>1, <4>2 DEF Queued, Queues
    <3> QED BY <3>1, <3>2, <3>3
  <2> QED BY <1>5, <2>1, <2>2
<1>7. turns' \in 0..MaxTurns
  BY <1>2, SyncConstants DEF Open, Close, OnOpen, OnClose, updateSessionSettings, Turn
<1>8. up' \in BOOLEAN /\ notices' \subseteq {"open", "close"} /\ asks' \in BOOLEAN
  BY <1>2 DEF Open, Close, OnOpen, OnClose, updateSessionSettings, line
<1>9. SyncTypes'
  BY <1>1, <1>3, <1>4, <1>6, <1>7, <1>8 DEF SyncInv, SyncTypes, Messages, Dates
<1>10. (BatchesWait /\ ResyncIsFirst)'
  BY <1>1, <1>4, <1>6 DEF SyncInv, BatchesWait, ResyncIsFirst, SameResync
<1>11. Unexplained' = Unexplained
  BY <1>1 DEF Unexplained, Missing, Messages, Arriving
<1>12. \A m \in Unexplained' : m \in Nat
  BY <1>2, <1>11 DEF Unexplained, Missing, Messages
<1>13. ResyncSound'
  BY <1>3, <1>4, <1>11, <1>12, StillSound
<1> QED BY <1>9, <1>10, <1>13 DEF SyncInv

(* The history of the phone.                                               *)
LEMMA HistoryComes ==
  ASSUME SyncInv, handleMessagingHistory
  PROVE  SyncInv'
<1>1. /\ now' = now /\ received' = received /\ arrivals' = arrivals /\ row' = row /\ resync' = resync
      /\ skipped' = skipped /\ mishaps' = mishaps /\ UNCHANGED line /\ past = NoHistory /\ now > 0
      /\ up' = up /\ notices' = notices /\ asks' = asks
      /\ past' = Batches(now) /\ jobs' = Append(jobs, "batch")
  BY DEF handleMessagingHistory, line
<1>2. now \in Nat /\ turns \in 0..MaxTurns /\ jobs \in Queues
  BY SyncConstants DEF SyncInv, SyncTypes
<1> DEFINE n == (now + Page - 1) \div Page
<1>3. n \in Nat /\ n >= 1
  <2>0. now + Page - 1 \in Nat /\ Page \in Nat \ {0} /\ now + Page - 1 >= Page
    BY <1>1, <1>2, SyncConstants
  <2>1. /\ n \in Nat /\ (now + Page - 1) % Page \in 0..(Page - 1)
        /\ now + Page - 1 = Page * n + ((now + Page - 1) % Page)
    BY <2>0, Division
  <2> HIDE DEF n
  <2>2. CASE n = 0
    BY <2>0, <2>1, <2>2
  <2> QED BY <2>1, <2>2
<1>4. past' = [i \in 1..n |-> {m \in 1..now : (m - 1) \div Page = i - 1}]
  BY <1>1 DEF Batches
<1> HIDE DEF n
<1>5. past' \in Seq(SUBSET Nat) /\ DOMAIN past' = 1..n /\ \A i \in 1..n : past'[i] \subseteq 1..now
  <2>1. \A i \in 1..n : {m \in 1..now : (m - 1) \div Page = i - 1} \subseteq 1..now
    OBVIOUS
  <2>2. 1..now \subseteq Nat
    BY <1>2
  <2>3. past' \in [1..n -> SUBSET Nat]
    BY <1>4, <2>1, <2>2
  <2> QED BY <1>3, <1>4, <2>1, <2>3
<1>6. past' # NoHistory
  BY <1>3, <1>5 DEF NoHistory
<1>7. jobs' \in Queues /\ (jobs # <<>> => Head(jobs') = Head(jobs)) /\ jobs' # <<>>
  <2>1. ~Queued("batch")
    BY <1>1 DEF SyncInv, BatchesWait
  <2>2. jobs = <<>> \/ jobs = <<"resync">>
    BY <1>2, <2>1 DEF Queues, Queued
  <2>3. jobs' = <<"batch">> \/ (jobs = <<"resync">> /\ jobs' = <<"resync", "batch">>)
    BY <1>1, <2>2, TheTwoJobs
  <2>4. jobs' \in Queues /\ jobs' # <<>>
    <3>1. jobs' = <<"batch">> \/ jobs' = <<"resync", "batch">>
      BY <2>3
    <3> QED BY <3>1 DEF Queues
  <2>5. jobs # <<>> => Head(jobs') = Head(jobs)
    <3>1. CASE jobs = <<>>
      BY <3>1
    <3>2. CASE jobs = <<"resync">>
      <4>1. jobs' = <<"resync", "batch">>
        BY <1>1, <3>2, TheTwoJobs
      <4> QED BY <3>2, <4>1
    <3> QED BY <2>2, <3>1, <3>2
  <2> QED BY <2>4, <2>5
<1>8. turns' \in 0..MaxTurns
  BY <1>2, SyncConstants DEF handleMessagingHistory, Turn
<1>9. SyncTypes'
  BY <1>1, <1>5, <1>7, <1>8 DEF SyncInv, SyncTypes, Messages, Dates
<1>10. (BatchesWait /\ ResyncIsFirst)'
  BY <1>1, <1>6, <1>7 DEF SyncInv, BatchesWait, ResyncIsFirst
<1>11. Unexplained' = Unexplained
  BY <1>1 DEF Unexplained, Missing, Messages, Arriving
<1>12. \A m \in Unexplained' : m \in Nat
  BY <1>2, <1>11 DEF Unexplained, Missing, Messages
<1>13. ResyncSound'
  BY <1>1, <1>11, <1>12, StillSound DEF SameResync
<1> QED BY <1>9, <1>10, <1>13 DEF SyncInv

LEMMA BatchHanded ==
  ASSUME SyncInv, HandBatch
  PROVE  SyncInv'
<1>1. /\ now' = now /\ received' = received /\ row' = row /\ resync' = resync /\ skipped' = skipped
      /\ mishaps' = mishaps /\ turns' = turns /\ up' = up /\ notices' = notices /\ asks' = asks
      /\ jobs # <<>> /\ Head(jobs) = "batch"
  BY DEF HandBatch, line
<1>2. /\ now \in Nat /\ jobs \in Queues /\ past \in Seq(SUBSET Nat)
      /\ \A i \in DOMAIN past : past[i] \subseteq Messages
      /\ arrivals \subseteq [msg : Messages, sent : BOOLEAN]
  BY SyncConstants DEF SyncInv, SyncTypes
<1>3. past # <<>>
  <2>1. Queued("batch")
    BY <1>1, <1>2 DEF Queues, Queued
  <2> QED BY <2>1 DEF SyncInv, BatchesWait, NoHistory
<1>4. Len(past) \in Nat /\ Len(past) >= 1 /\ DOMAIN past = 1..Len(past) /\ Head(past) = past[1]
  BY <1>2, <1>3
<1>5. Head(past) \subseteq Messages
  BY <1>2, <1>4
<1>6. Tail(past) \in Seq(SUBSET Nat) /\ \A i \in DOMAIN Tail(past) : Tail(past)[i] \subseteq Messages
  <2>1. Tail(past) \in Seq(SUBSET Nat) /\ DOMAIN Tail(past) = 1..(Len(past) - 1)
    BY <1>2, <1>3, <1>4
  <2>2. ASSUME NEW i \in 1..(Len(past) - 1) PROVE Tail(past)[i] \subseteq Messages
    <3>1. Tail(past)[i] = past[i + 1] /\ i + 1 \in DOMAIN past
      BY <1>2, <1>3, <1>4
    <3> QED BY <1>2, <3>1
  <2> QED BY <2>1, <2>2
<1>7. past' = Tail(past)
  BY DEF HandBatch, NoHistory
<1>8. arrivals' = arrivals \cup {[msg |-> m, sent |-> FALSE] : m \in Head(past) \ received}
  BY DEF HandBatch, Hand
<1>9. arrivals' \subseteq [msg : Messages, sent : BOOLEAN] /\ arrivals \subseteq arrivals'
  <2>1. ASSUME NEW h \in arrivals' PROVE h \in [msg : Messages, sent : BOOLEAN]
    <3>1. CASE h \in arrivals
      BY <1>2, <3>1
    <3>2. CASE h \notin arrivals
      <4>1. PICK m \in Head(past) : h = [msg |-> m, sent |-> FALSE]
        BY <1>8, <3>2
      <4> QED BY <1>5, <4>1
    <3> QED BY <3>1, <3>2
  <2> QED BY <1>8, <2>1
<1>10. jobs = <<"batch">> \/ jobs = <<"batch", "resync">>
  BY <1>1, <1>2 DEF Queues
<1>11. jobs' = IF Tail(past) = <<>> THEN Tail(jobs) ELSE Append(Tail(jobs), "batch")
  BY DEF HandBatch
<1>12. jobs' \in Queues /\ (Queued("batch")' => past' # NoHistory)
  <2>1. Tail(jobs) = <<>> \/ Tail(jobs) = <<"resync">>
    BY <1>10, TheTwoJobs
  <2>2. CASE Tail(past) = <<>>
    <3>1. jobs' = <<>> \/ jobs' = <<"resync">>
      BY <1>11, <2>1, <2>2
    <3> QED BY <3>1 DEF Queues, Queued
  <2>3. CASE Tail(past) # <<>>
    <3>1. jobs' = <<"batch">> \/ jobs' = <<"resync", "batch">>
      BY <1>11, <2>1, <2>3, TheTwoJobs
    <3> QED BY <1>7, <2>3, <3>1 DEF Queues, NoHistory
  <2> QED BY <2>2, <2>3
<1>13. resync.at = "rest"
  BY <1>1 DEF SyncInv, ResyncIsFirst
<1>14. SyncTypes'
  BY <1>1, <1>6, <1>7, <1>9, <1>12 DEF SyncInv, SyncTypes, Messages, Dates
<1>15. (BatchesWait /\ ResyncIsFirst)'
  BY <1>1, <1>12, <1>13 DEF BatchesWait, ResyncIsFirst
<1>16. Unexplained' \subseteq Unexplained
  <2>1. Arriving \subseteq Arriving'
    BY <1>9 DEF Arriving
  <2> QED BY <1>1, <2>1 DEF Unexplained, Missing, Messages
<1>17. \A m \in Unexplained' : m \in Nat
  BY <1>2, <1>16 DEF Unexplained, Missing, Messages
<1>18. ResyncSound'
  BY <1>1, <1>16, <1>17, StillSound DEF SameResync
<1> QED BY <1>14, <1>15, <1>18 DEF SyncInv

LEMMA HistoryRefused ==
  ASSUME SyncInv, HistoryFails
  PROVE  SyncInv'
<1>1. /\ now' = now /\ received' = received /\ arrivals' = arrivals /\ row' = row /\ resync' = resync
      /\ skipped' = skipped /\ turns' = turns /\ up' = up /\ notices' = notices /\ asks' = asks
      /\ past' = <<>> /\ jobs' = IF Queued("resync") THEN <<"resync">> ELSE <<>>
  BY DEF HistoryFails, line, NoHistory
<1>2. now \in Nat /\ jobs \in Queues /\ mishaps \in 0..MaxMishaps
  BY SyncConstants DEF SyncInv, SyncTypes
<1>3. mishaps' \in 0..MaxMishaps
  BY <1>2, SyncConstants DEF HistoryFails, Happens
<1>4. jobs' \in Queues /\ ~Queued("batch")'
  BY <1>1 DEF Queues, Queued
<1>5. jobs # <<>> /\ Head(jobs) = "resync" => jobs' # <<>> /\ Head(jobs') = "resync"
  <2>1. jobs # <<>> /\ Head(jobs) = "resync" => Queued("resync")
    BY <1>2 DEF Queues, Queued
  <2> QED BY <1>1, <2>1
<1>6. past' \in Seq(SUBSET Nat) /\ DOMAIN past' = {}
  BY <1>1
<1>7. SyncTypes'
  BY <1>1, <1>3, <1>4, <1>6 DEF SyncInv, SyncTypes, Messages, Dates
<1>8. (BatchesWait /\ ResyncIsFirst)'
  BY <1>1, <1>4, <1>5 DEF SyncInv, BatchesWait, ResyncIsFirst
<1>9. Unexplained' = Unexplained
  BY <1>1 DEF Unexplained, Missing, Messages, Arriving
<1>10. \A m \in Unexplained' : m \in Nat
  BY <1>2, <1>9 DEF Unexplained, Missing, Messages
<1>11. ResyncSound'
  BY <1>1, <1>9, <1>10, StillSound DEF SameResync
<1> QED BY <1>7, <1>8, <1>11 DEF SyncInv

(* The resync: it begins, asks for a page, hands it over, turns it.        *)
LEMMA ResyncTypes ==
  ASSUME SyncInv
  PROVE  /\ now \in Nat /\ now \in 0..MaxNow /\ jobs \in Queues /\ mishaps \in 0..MaxMishaps
         /\ row.synced \in Dates /\ row.since \in Dates
         /\ row \in [synced : Dates, since : Dates, closed : BOOLEAN, wanted : BOOLEAN]
         /\ resync \in [at : Places, from : Dates, below : 0..(now + 1), todo : SUBSET Messages,
                        newest : Dates, alive : BOOLEAN]
         /\ received \subseteq Messages /\ skipped \subseteq Messages /\ Messages = 1..now
         /\ Never \in Dates /\ Dates \subseteq Int /\ \A d \in Dates : d >= Never /\ d <= now
         /\ \A m \in Messages : m \in Nat /\ Stamp(m) \in 0..m /\ Stamp(m) \in Dates
<1>1. now \in Nat /\ now \in 0..MaxNow
  BY SyncConstants DEF SyncInv, SyncTypes
<1>2. Never \in Dates /\ Dates \subseteq Int /\ \A d \in Dates : d >= Never /\ d <= now
  BY <1>1, SyncConstants DEF Dates
<1>3. ASSUME NEW m \in Messages PROVE m \in Nat /\ Stamp(m) \in 0..m /\ Stamp(m) \in Dates
  <2>1. m \in Nat /\ m <= now
    BY <1>1, <1>3 DEF Messages
  <2>2. Stamp(m) \in 0..m
    BY <2>1, StampBounds
  <2> QED BY <1>1, <2>1, <2>2, SyncConstants DEF Dates
<1> QED BY <1>1, <1>2, <1>3 DEF SyncInv, SyncTypes, Messages

LEMMA RestTypes ==
  ASSUME SyncInv
  PROVE  AtRest \in [at : Places, from : Dates, below : 0..(now + 1), todo : SUBSET Messages,
                     newest : Dates, alive : BOOLEAN]
BY ResyncTypes DEF AtRest, Places

LEMMA ResyncBegun ==
  ASSUME SyncInv, ResyncBegins
  PROVE  SyncInv'
<1>1. /\ now' = now /\ received' = received /\ arrivals' = arrivals /\ row' = row /\ past' = past
      /\ jobs' = jobs /\ up' = up /\ notices' = notices /\ asks' = asks /\ turns' = turns /\ mishaps' = mishaps
      /\ jobs # <<>> /\ Head(jobs) = "resync" /\ resync.at = "rest"
      /\ resync' = [AtRest EXCEPT !.at = "fetch", !.from = From, !.newest = From, !.below = now + 1]
      /\ skipped' = IF row.synced = Never THEN skipped \cup Passed(From) ELSE skipped
  BY DEF ResyncBegins, line
<1>2. From \in Dates
  BY ResyncTypes DEF From
<1>3. /\ resync' \in [at : Places, from : Dates, below : 0..(now + 1), todo : SUBSET Messages,
                      newest : Dates, alive : BOOLEAN]
      /\ resync'.at = "fetch" /\ resync'.from = From /\ resync'.below = now + 1 /\ resync'.todo = {}
  <2>1. /\ "fetch" \in Places /\ now + 1 \in 0..(now + 1) /\ {} \in SUBSET Messages
    BY ResyncTypes DEF Places
  <2>2. resync' = [at |-> "fetch", from |-> From, below |-> now + 1, todo |-> {}, newest |-> From, alive |-> TRUE]
    BY <1>1 DEF AtRest
  <2> QED BY <1>2, <2>1, <2>2
<1>4. skipped' \subseteq Messages /\ skipped \subseteq skipped'
  BY <1>1, ResyncTypes DEF Passed, Missing
<1>5. SyncTypes'
  BY <1>1, <1>3, <1>4 DEF SyncInv, SyncTypes, Messages, Dates
<1>6. (BatchesWait /\ ResyncIsFirst)'
  BY <1>1 DEF SyncInv, BatchesWait, ResyncIsFirst, Queued
<1>7. Unexplained' \subseteq Unexplained
  BY <1>1, <1>4 DEF Unexplained, Missing, Messages, Arriving
<1>8. ASSUME NEW m \in Unexplained' PROVE StillAsked(m)'
  <2>1. m \in Unexplained /\ m \in Missing /\ m \in Messages /\ m \notin skipped'
    BY <1>7, <1>8 DEF Unexplained, Missing
  <2>2. m < now + 1 /\ Stamp(m) \in Int
    BY <2>1, ResyncTypes
  <2>3. Stamp(m) > From
    <3>1. CASE row.synced # Never
      BY <1>1, <2>1, <3>1 DEF SyncInv, ResyncSound, From
    <3>2. CASE row.synced = Never
      <4>1. m \notin Passed(From)
        BY <1>1, <2>1, <3>2
      <4> QED BY <1>2, <2>1, <2>2, <4>1, ResyncTypes DEF Passed
    <3> QED BY <3>1, <3>2
  <2> QED BY <1>3, <2>2, <2>3 DEF StillAsked
<1>9. ResyncSound'
  BY <1>3, <1>8, ResyncTypes DEF ResyncSound, Asking
<1> QED BY <1>5, <1>6, <1>9 DEF SyncInv

LEMMA Fetched ==
  ASSUME SyncInv, Fetch
  PROVE  SyncInv'
<1> DEFINE page == PageBelow(resync.below)
<1>1. /\ now' = now /\ received' = received /\ arrivals' = arrivals /\ row' = row /\ past' = past
      /\ jobs' = jobs /\ up' = up /\ notices' = notices /\ asks' = asks /\ turns' = turns /\ mishaps' = mishaps
      /\ skipped' = skipped /\ resync.at = "fetch"
      /\ resync' = IF page = {} THEN [resync EXCEPT !.at = "end"]
                   ELSE [resync EXCEPT !.at = "feed", !.todo = {m \in page : Stamp(m) > resync.from},
                                       !.below = Oldest(page)]
  BY DEF Fetch, line
<1>2. /\ resync.below \in Nat /\ resync.below >= 1 /\ resync.below <= now + 1 /\ resync.todo = {}
      /\ resync.from \in Dates /\ resync.newest \in Dates
  BY <1>1, ResyncTypes DEF SyncInv, ResyncSound, Asking
<1>3. /\ page \subseteq 1..(resync.below - 1) /\ page \subseteq Messages /\ page \subseteq Nat
      /\ \A m \in 1..(resync.below - 1), k \in page : m >= k => m \in page
      /\ page = {} => resync.below <= 1
  <2>1. /\ page \subseteq 1..(resync.below - 1)
        /\ \A m \in 1..(resync.below - 1), k \in page : m >= k => m \in page
        /\ page = {} => resync.below <= 1
    BY <1>2, PagesAreBlocks
  <2>2. 1..(resync.below - 1) \subseteq 1..now /\ 1..(resync.below - 1) \subseteq Nat
    BY <1>2, ResyncTypes
  <2> HIDE DEF page
  <2> QED BY <2>1, <2>2, ResyncTypes
<1>4. page # {} => /\ Oldest(page) \in page /\ \A n \in page : Oldest(page) <= n
                   /\ Oldest(page) \in Nat /\ Oldest(page) >= 1 /\ Oldest(page) < resync.below
  <2> HIDE DEF page
  <2>1. page # {} => Oldest(page) \in page /\ \A n \in page : Oldest(page) <= n
    BY <1>3, OldestIsFirst
  <2> SUFFICES ASSUME page # {}
               PROVE  Oldest(page) \in Nat /\ Oldest(page) >= 1 /\ Oldest(page) < resync.below
    BY <2>1
  <2>2. Oldest(page) \in 1..(resync.below - 1)
    BY <1>3, <2>1
  <2> QED BY <1>2, <2>2
<1> HIDE DEF page
<1>5. CASE page = {}
  <2>1. /\ resync'.at = "end" /\ resync'.newest = resync.newest
        /\ resync' \in [at : Places, from : Dates, below : 0..(now + 1), todo : SUBSET Messages,
                        newest : Dates, alive : BOOLEAN]
    BY <1>1, <1>5, ResyncTypes DEF Places
  <2>2. SyncTypes'
    BY <1>1, <2>1 DEF SyncInv, SyncTypes, Messages, Dates
  <2>3. (BatchesWait /\ ResyncIsFirst)'
    BY <1>1 DEF SyncInv, BatchesWait, ResyncIsFirst, Queued
  <2>4. Unexplained' = Unexplained
    BY <1>1 DEF Unexplained, Missing, Messages, Arriving
  <2>5. ASSUME NEW m \in Unexplained PROVE Stamp(m) > resync.newest
    <3>1. m \in Messages
      BY <2>5 DEF Unexplained, Missing
    <3>2. StillAsked(m)
      BY <1>1, <2>5 DEF SyncInv, ResyncSound, Asking
    <3>3. ~(m < resync.below)
      BY <1>2, <1>3, <1>5, <3>1, ResyncTypes
    <3> QED BY <1>2, <3>2, <3>3 DEF StillAsked, YoungerThanAll
  <2>6. ResyncSound'
    BY <2>1, <2>4, <2>5 DEF ResyncSound, Asking
  <2> QED BY <2>2, <2>3, <2>6 DEF SyncInv
<1>6. CASE page # {}
  <2>0. /\ Oldest(page) \in page /\ \A n \in page : Oldest(page) <= n
        /\ Oldest(page) \in Nat /\ Oldest(page) >= 1 /\ Oldest(page) < resync.below
    BY <1>4, <1>6
  <2>1. /\ resync'.at = "feed" /\ resync'.newest = resync.newest /\ resync'.from = resync.from
        /\ resync'.todo = {m \in page : Stamp(m) > resync.from} /\ resync'.below = Oldest(page)
    <3>1. resync' = [resync EXCEPT !.at = "feed", !.todo = {m \in page : Stamp(m) > resync.from},
                                   !.below = Oldest(page)]
      BY <1>1, <1>6
    <3>2. resync \in [at : Places, from : Dates, below : 0..(now + 1), todo : SUBSET Messages,
                      newest : Dates, alive : BOOLEAN]
      BY ResyncTypes
    <3> QED BY <3>1, <3>2
  <2>2. resync' \in [at : Places, from : Dates, below : 0..(now + 1), todo : SUBSET Messages,
                     newest : Dates, alive : BOOLEAN]
    <3>1. {m \in page : Stamp(m) > resync.from} \subseteq Messages
      BY <1>3
    <3>2. Oldest(page) \in 0..(now + 1)
      BY <1>2, <2>0, ResyncTypes
    <3> QED BY <1>1, <1>6, <3>1, <3>2, ResyncTypes DEF Places
  <2>3. SyncTypes'
    BY <1>1, <2>2 DEF SyncInv, SyncTypes, Messages, Dates
  <2>4. (BatchesWait /\ ResyncIsFirst)'
    BY <1>1 DEF SyncInv, BatchesWait, ResyncIsFirst, Queued
  <2>5. Unexplained' = Unexplained
    BY <1>1 DEF Unexplained, Missing, Messages, Arriving
  <2>6. ASSUME NEW m \in Unexplained PROVE StillAsked(m)'
    <3>1. m \in Messages /\ m \in Nat /\ m >= 1 /\ Stamp(m) \in Nat
      BY <2>6, ResyncTypes DEF Unexplained, Missing
    <3>2. StillAsked(m)
      BY <1>1, <2>6 DEF SyncInv, ResyncSound, Asking
    <3>3. Stamp(m) > resync'.from
      BY <2>1, <3>2 DEF StillAsked
    <3>4. CASE m < resync.below
      <4>1. m < Oldest(page) \/ m \in page
        BY <1>2, <1>3, <2>0, <3>1, <3>4
      <4> QED BY <2>1, <3>3, <4>1 DEF StillAsked
    <3>5. CASE YoungerThanAll(m)
      <4>1. Stamp(m) >= Oldest(page) /\ Stamp(m) > resync.newest
        BY <1>2, <2>0, <3>1, <3>5 DEF YoungerThanAll
      <4>2. \A n \in page : Stamp(m) > n
        <5> TAKE n \in page
        <5>1. n \in Nat /\ n < resync.below
          BY <1>2, <1>3
        <5> QED BY <1>2, <3>1, <3>5, <5>1 DEF YoungerThanAll
      <4>3. YoungerThanAll(m)'
        BY <2>1, <4>1, <4>2 DEF YoungerThanAll
      <4> QED BY <3>3, <4>3 DEF StillAsked
    <3> QED BY <1>2, <3>2, <3>4, <3>5 DEF StillAsked
  <2>7. ResyncSound'
    BY <2>0, <2>1, <2>5, <2>6 DEF ResyncSound, Asking
  <2> QED BY <2>3, <2>4, <2>7 DEF SyncInv
<1> QED BY <1>5, <1>6

LEMMA Fed ==
  ASSUME SyncInv, Feed
  PROVE  SyncInv'
<1>1. PICK m : /\ m = Oldest(resync.todo)
               /\ resync' = [resync EXCEPT !.todo = @ \ {m},
                                           !.newest = IF Stamp(m) > @ THEN Stamp(m) ELSE @]
               /\ \/ Hand({m}, FALSE) /\ UNCHANGED <<skipped, mishaps>>
                  \/ m \notin received /\ Happens /\ skipped' = skipped \cup {m} /\ UNCHANGED arrivals
  BY DEF Feed
<1>2. /\ now' = now /\ received' = received /\ row' = row /\ past' = past /\ jobs' = jobs
      /\ up' = up /\ notices' = notices /\ asks' = asks /\ turns' = turns
      /\ resync.at = "feed" /\ resync.todo # {}
  BY DEF Feed, line
<1>3. /\ resync \in [at : Places, from : Dates, below : 0..(now + 1), todo : SUBSET Messages,
                     newest : Dates, alive : BOOLEAN]
      /\ resync.todo \subseteq Messages /\ resync.todo \subseteq Nat
  BY ResyncTypes
<1>4. /\ m \in resync.todo /\ \A n \in resync.todo : m <= n
      /\ m \in Messages /\ m \in Nat /\ Stamp(m) \in Dates
  <2>1. m \in resync.todo /\ \A n \in resync.todo : m <= n
    BY <1>1, <1>2, <1>3, OldestIsFirst
  <2> QED BY <1>3, <2>1, ResyncTypes
<1>5. /\ resync' \in [at : Places, from : Dates, below : 0..(now + 1), todo : SUBSET Messages,
                      newest : Dates, alive : BOOLEAN]
      /\ resync'.at = "feed" /\ resync'.from = resync.from /\ resync'.below = resync.below
      /\ resync'.todo = resync.todo \ {m}
      /\ resync'.newest = (IF Stamp(m) > resync.newest THEN Stamp(m) ELSE resync.newest)
  BY <1>1, <1>2, <1>3, <1>4
<1>6. /\ skipped \subseteq skipped' /\ skipped' \subseteq Messages /\ mishaps' \in 0..MaxMishaps
      /\ arrivals \subseteq arrivals' /\ arrivals' \subseteq [msg : Messages, sent : BOOLEAN]
      /\ m \in Arriving' \/ m \in skipped'
  <2>0. arrivals \subseteq [msg : Messages, sent : BOOLEAN]
    BY DEF SyncInv, SyncTypes
  <2>1. CASE Hand({m}, FALSE) /\ UNCHANGED <<skipped, mishaps>>
    <3>1. arrivals' = arrivals \cup {[msg |-> m, sent |-> FALSE]}
      BY <2>1 DEF Hand
    <3>2. m \in Arriving'
      <4> DEFINE one == [msg |-> m, sent |-> FALSE]
      <4>1. one \in arrivals' /\ one.msg = m
        BY <3>1
      <4> HIDE DEF one
      <4> QED BY <4>1 DEF Arriving
    <3>3. arrivals' \subseteq [msg : Messages, sent : BOOLEAN]
      <4>1. [msg |-> m, sent |-> FALSE] \in [msg : Messages, sent : BOOLEAN]
        BY <1>4
      <4> QED BY <2>0, <3>1, <4>1
    <3> QED BY <2>1, <3>1, <3>2, <3>3, ResyncTypes
  <2>2. CASE m \notin received /\ Happens /\ skipped' = skipped \cup {m} /\ UNCHANGED arrivals
    <3>1. mishaps' \in 0..MaxMishaps
      BY <2>2, ResyncTypes, SyncConstants DEF Happens
    <3> QED BY <1>4, <2>0, <2>2, <3>1, ResyncTypes
  <2> QED BY <1>1, <2>1, <2>2
<1>7. SyncTypes'
  BY <1>2, <1>5, <1>6 DEF SyncInv, SyncTypes, Messages, Dates
<1>8. (BatchesWait /\ ResyncIsFirst)'
  BY <1>2 DEF SyncInv, BatchesWait, ResyncIsFirst, Queued
<1>9. Unexplained' \subseteq Unexplained \ {m}
  <2>1. Arriving \subseteq Arriving'
    BY <1>6 DEF Arriving
  <2> QED BY <1>2, <1>6, <2>1 DEF Unexplained, Missing, Messages
<1>10. ASSUME NEW k \in Unexplained' PROVE StillAsked(k)'
  <2>1. k \in Unexplained /\ k # m /\ k \in Messages /\ Stamp(k) \in Nat
    BY <1>9, <1>10, ResyncTypes DEF Unexplained, Missing
  <2>2. StillAsked(k)
    BY <1>2, <2>1 DEF SyncInv, ResyncSound, Asking
  <2>3. Stamp(k) > resync'.from
    BY <1>5, <2>2 DEF StillAsked
  <2>4. CASE k < resync.below \/ k \in resync.todo
    BY <1>5, <2>1, <2>3, <2>4 DEF StillAsked
  <2>5. CASE YoungerThanAll(k)
    <3>1. Stamp(m) \in Nat /\ Stamp(m) <= m
      BY <1>4, StampBounds
    <3>2. Stamp(k) > m
      BY <1>4, <2>5 DEF YoungerThanAll
    <3>3. Stamp(k) > resync'.newest
      BY <1>4, <1>5, <2>1, <2>5, <3>1, <3>2 DEF YoungerThanAll
    <3>4. YoungerThanAll(k)'
      BY <1>5, <2>5, <3>3 DEF YoungerThanAll
    <3> QED BY <2>3, <3>4 DEF StillAsked
  <2> QED BY <2>2, <2>4, <2>5 DEF StillAsked
<1>11. ResyncSound'
  BY <1>2, <1>5, <1>10 DEF SyncInv, ResyncSound, Asking
<1> QED BY <1>7, <1>8, <1>11 DEF SyncInv

LEMMA PageTurned ==
  ASSUME SyncInv, Turned
  PROVE  SyncInv'
<1>1. /\ now' = now /\ received' = received /\ arrivals' = arrivals /\ row' = row /\ past' = past
      /\ jobs' = jobs /\ up' = up /\ notices' = notices /\ asks' = asks /\ turns' = turns /\ mishaps' = mishaps
      /\ skipped' = skipped /\ resync.at = "feed" /\ resync.todo = {}
      /\ resync' = [resync EXCEPT !.at = IF Stamp(resync.below) <= resync.from THEN "end" ELSE "fetch"]
  BY DEF Turned, line
<1>2. /\ resync \in [at : Places, from : Dates, below : 0..(now + 1), todo : SUBSET Messages,
                     newest : Dates, alive : BOOLEAN]
      /\ resync.below \in Nat /\ resync.below >= 1 /\ resync.from \in Int
  BY <1>1, ResyncTypes DEF SyncInv, ResyncSound, Asking
<1>3. /\ resync' \in [at : Places, from : Dates, below : 0..(now + 1), todo : SUBSET Messages,
                      newest : Dates, alive : BOOLEAN]
      /\ resync'.at = (IF Stamp(resync.below) <= resync.from THEN "end" ELSE "fetch")
      /\ resync'.from = resync.from /\ resync'.below = resync.below /\ resync'.todo = {}
      /\ resync'.newest = resync.newest
  BY <1>1, <1>2 DEF Places
<1>4. SyncTypes'
  BY <1>1, <1>3 DEF SyncInv, SyncTypes, Messages, Dates
<1>5. (BatchesWait /\ ResyncIsFirst)'
  BY <1>1 DEF SyncInv, BatchesWait, ResyncIsFirst, Queued
<1>6. Unexplained' = Unexplained
  BY <1>1 DEF Unexplained, Missing, Messages, Arriving
<1>7. ASSUME NEW m \in Unexplained PROVE StillAsked(m) /\ m \in Nat
  BY <1>1, <1>7, ResyncTypes DEF SyncInv, ResyncSound, Asking, Unexplained, Missing
<1>8. CASE Stamp(resync.below) <= resync.from
  <2>1. resync'.at = "end"
    BY <1>3, <1>8
  <2>2. ASSUME NEW m \in Unexplained PROVE Stamp(m) > resync.newest
    <3>1. ~(m < resync.below)
      <4> SUFFICES ASSUME m < resync.below PROVE FALSE
        OBVIOUS
      <4>1. Stamp(m) <= Stamp(resync.below)
        BY <1>2, <1>7, <2>2, StampMonotone
      <4>2. Stamp(m) > resync.from
        BY <1>7, <2>2 DEF StillAsked
      <4>3. Stamp(m) \in Int /\ Stamp(resync.below) \in Int
        BY <1>2, <1>7, <2>2, StampBounds
      <4> QED BY <1>2, <1>8, <4>1, <4>2, <4>3
    <3> QED BY <1>1, <1>7, <2>2, <3>1 DEF StillAsked, YoungerThanAll
  <2> QED BY <1>3, <1>4, <1>5, <1>6, <2>1, <2>2 DEF SyncInv, ResyncSound, Asking
<1>9. CASE ~(Stamp(resync.below) <= resync.from)
  <2>1. resync'.at = "fetch"
    BY <1>3, <1>9
  <2>2. ASSUME NEW m \in Unexplained PROVE StillAsked(m)'
    BY <1>1, <1>3, <1>7, <2>2 DEF StillAsked, YoungerThanAll
  <2>3. ResyncSound'
    BY <1>2, <1>3, <1>6, <2>1, <2>2 DEF ResyncSound, Asking
  <2> QED BY <1>4, <1>5, <2>3 DEF SyncInv
<1> QED BY <1>8, <1>9

(* The resync ends, fails, or is lost with the process.                    *)
LEMMA ResyncOver ==
  ASSUME SyncInv, ResyncEnds \/ ResyncFails
  PROVE  SyncInv'
<1>1. /\ now' = now /\ received' = received /\ arrivals' = arrivals /\ past' = past
      /\ up' = up /\ notices' = notices /\ asks' = asks /\ turns' = turns
      /\ resync.at # "rest" /\ resync' = AtRest /\ jobs' = Tail(jobs)
  BY DEF ResyncEnds, ResyncFails, line
<1>2. /\ jobs = <<"resync">> \/ jobs = <<"resync", "batch">>
  <2>1. jobs # <<>> /\ Head(jobs) = "resync"
    BY <1>1 DEF SyncInv, ResyncIsFirst
  <2> QED BY <2>1, ResyncTypes DEF Queues
<1>3. /\ jobs' \in Queues /\ (Queued("batch")' => Queued("batch"))
  <2>1. jobs' = <<>> \/ (jobs = <<"resync", "batch">> /\ jobs' = <<"batch">>)
    BY <1>1, <1>2, TheTwoJobs
  <2>2. CASE jobs' = <<>>
    BY <2>2 DEF Queues, Queued
  <2>3. CASE jobs = <<"resync", "batch">> /\ jobs' = <<"batch">>
    <3>1. 2 \in DOMAIN jobs /\ jobs[2] = "batch"
      BY <2>3
    <3> QED BY <2>3, <3>1 DEF Queues, Queued
  <2> QED BY <2>1, <2>2, <2>3
<1>4. /\ row' \in [synced : Dates, since : Dates, closed : BOOLEAN, wanted : BOOLEAN]
      /\ row'.synced \in Int
  <2>1. row' = row \/ row' = [row EXCEPT !.synced = resync.newest]
    BY DEF ResyncEnds, ResyncFails
  <2>2. resync.newest \in Dates
    BY ResyncTypes
  <2>3. row' \in [synced : Dates, since : Dates, closed : BOOLEAN, wanted : BOOLEAN]
    BY <2>1, <2>2, ResyncTypes
  <2> QED BY <2>3, ResyncTypes
<1>5. skipped \subseteq skipped' /\ skipped' \subseteq Messages /\ mishaps' \in 0..MaxMishaps
  <2>1. skipped' = skipped \/ skipped' = skipped \cup Passed(row.synced)
    BY DEF ResyncEnds, ResyncFails
  <2>2. mishaps' = mishaps \/ Happens
    BY DEF ResyncEnds, ResyncFails
  <2>3. mishaps' \in 0..MaxMishaps
    BY <2>2, ResyncTypes, SyncConstants DEF Happens
  <2> QED BY <2>1, <2>3, ResyncTypes DEF Passed, Missing
<1>6. SyncTypes'
  BY <1>1, <1>3, <1>4, <1>5, RestTypes DEF SyncInv, SyncTypes, Messages, Dates
<1>7. resync'.at = "rest"
  BY <1>1 DEF AtRest
<1>8. (BatchesWait /\ ResyncIsFirst)'
  BY <1>1, <1>3, <1>7 DEF SyncInv, BatchesWait, ResyncIsFirst
<1>9. Unexplained' \subseteq Unexplained /\ Unexplained' \subseteq Missing \ skipped'
  BY <1>1, <1>5 DEF Unexplained, Missing, Messages, Arriving
<1>10. ASSUME NEW m \in Unexplained' PROVE Stamp(m) > row'.synced
  <2>1. m \in Missing /\ m \notin skipped' /\ m \in Unexplained /\ Stamp(m) \in Int
    BY <1>9, <1>10, ResyncTypes DEF Missing
  <2>2. CASE ResyncEnds
    <3>1. row'.synced = resync.newest
      BY <2>2, ResyncTypes DEF ResyncEnds
    <3> QED BY <2>1, <2>2, <3>1 DEF ResyncEnds, SyncInv, ResyncSound
  <2>3. CASE ResyncFails
    <3>1. row' = row /\ m \notin Passed(row.synced)
      BY <2>1, <2>3 DEF ResyncFails
    <3> QED BY <1>4, <2>1, <3>1 DEF Passed
  <2> QED BY <2>2, <2>3
<1>11. ResyncSound'
  BY <1>7, <1>10 DEF ResyncSound, Asking
<1> QED BY <1>6, <1>8, <1>11 DEF SyncInv

LEMMA ProcessRestarts ==
  ASSUME SyncInv, Restart
  PROVE  SyncInv'
<1>1. /\ now' = now /\ received' = received /\ row' = row /\ turns' = turns /\ Happens
      /\ skipped' = skipped \cup (Arriving \ received) \cup Passed(row.synced)
      /\ arrivals' = {} /\ up' = FALSE /\ notices' = {} /\ asks' = row.wanted
      /\ jobs' = <<>> /\ resync' = AtRest /\ past' = <<>>
  BY DEF Restart, NoHistory
<1>2. skipped' \subseteq Messages
  <2>1. \A h \in arrivals : h.msg \in Messages
    BY DEF SyncInv, SyncTypes
  <2>2. Arriving \subseteq Messages
    BY <2>1 DEF Arriving
  <2> QED BY <1>1, <2>2, ResyncTypes DEF Passed, Missing
<1>3. mishaps' \in 0..MaxMishaps
  BY <1>1, ResyncTypes, SyncConstants DEF Happens
<1>4. asks' \in BOOLEAN
  BY <1>1, ResyncTypes
<1>5. past' \in Seq(SUBSET Nat) /\ DOMAIN past' = {} /\ jobs' \in Queues
  BY <1>1 DEF Queues
<1>6. SyncTypes'
  BY <1>1, <1>2, <1>3, <1>4, <1>5, RestTypes DEF SyncInv, SyncTypes, Messages, Dates
<1>7. resync'.at = "rest" /\ ~Queued("batch")'
  BY <1>1 DEF AtRest, Queued
<1>8. (BatchesWait /\ ResyncIsFirst)'
  BY <1>7 DEF BatchesWait, ResyncIsFirst
<1>9. ASSUME NEW m \in Unexplained' PROVE Stamp(m) > row'.synced
  <2>1. m \in Messages /\ m \notin received /\ m \notin skipped'
    BY <1>1, <1>9 DEF Unexplained, Missing, Messages
  <2>2. m \in Missing
    BY <1>1, <2>1 DEF Missing
  <2>3. m \notin Passed(row.synced)
    BY <1>1, <2>1
  <2>4. Stamp(m) \in Int /\ row.synced \in Int
    BY <2>1, ResyncTypes
  <2> QED BY <1>1, <2>2, <2>3, <2>4 DEF Passed
<1>10. ResyncSound'
  BY <1>7, <1>9 DEF ResyncSound, Asking
<1> QED BY <1>6, <1>8, <1>10 DEF SyncInv

-----------------------------------------------------------------------------
LEMMA SyncStarts ==
  ASSUME SyncInit
  PROVE  SyncInv
<1>1. /\ now = 0 /\ received = {} /\ arrivals = {} /\ notices = {} /\ asks = TRUE /\ jobs = <<>>
      /\ resync = AtRest /\ past = <<>> /\ skipped = {} /\ turns = 0 /\ mishaps = 0 /\ up \in BOOLEAN
      /\ row = [synced |-> IF up THEN 0 ELSE Never, since |-> Never, closed |-> FALSE, wanted |-> TRUE]
  BY DEF SyncInit, NoHistory
<1>2. 0 \in Dates /\ Never \in Dates /\ Messages = {} /\ 0 \in 0..(now + 1)
  BY <1>1, SyncConstants DEF Dates, Messages
<1>3. row \in [synced : Dates, since : Dates, closed : BOOLEAN, wanted : BOOLEAN]
  BY <1>1, <1>2
<1>4. resync \in [at : Places, from : Dates, below : 0..(now + 1), todo : SUBSET Messages,
                  newest : Dates, alive : BOOLEAN]
  BY <1>1, <1>2 DEF AtRest, Places
<1>5. past \in Seq(SUBSET Nat) /\ DOMAIN past = {} /\ jobs \in Queues /\ ~Queued("batch")
  BY <1>1 DEF Queues, Queued
<1>6. SyncTypes
  BY <1>1, <1>2, <1>3, <1>4, <1>5, SyncConstants DEF SyncTypes
<1>7. resync.at = "rest" /\ Unexplained = {}
  BY <1>1, <1>2 DEF AtRest, Unexplained, Missing
<1> QED BY <1>5, <1>6, <1>7 DEF SyncInv, BatchesWait, ResyncIsFirst, ResyncSound, Asking

LEMMA SyncKept ==
  ASSUME SyncInv, [SyncNext]_syncVars
  PROVE  SyncInv'
<1>1. CASE Receive \/ SendOne
  BY <1>1, NewMessage
<1>2. CASE \E h \in arrivals : HandleMessage(h)
  BY <1>2, Handled
<1>3. CASE Open \/ Close \/ OnOpen \/ OnClose \/ \E wanted \in BOOLEAN : updateSessionSettings(wanted)
  BY <1>3, LineSteps
<1>4. CASE ResyncBegins
  BY <1>4, ResyncBegun
<1>5. CASE Fetch
  BY <1>5, Fetched
<1>6. CASE Feed
  BY <1>6, Fed
<1>7. CASE Turned
  BY <1>7, PageTurned
<1>8. CASE ResyncEnds \/ ResyncFails
  BY <1>8, ResyncOver
<1>9. CASE handleMessagingHistory
  BY <1>9, HistoryComes
<1>10. CASE HandBatch
  BY <1>10, BatchHanded
<1>11. CASE HistoryFails
  BY <1>11, HistoryRefused
<1>12. CASE Restart
  BY <1>12, ProcessRestarts
<1>13. CASE UNCHANGED syncVars
  <2>1. /\ now' = now /\ received' = received /\ arrivals' = arrivals /\ row' = row /\ up' = up
        /\ notices' = notices /\ asks' = asks /\ jobs' = jobs /\ resync' = resync /\ past' = past
        /\ skipped' = skipped /\ turns' = turns /\ mishaps' = mishaps
    BY <1>13 DEF syncVars, line, work
  <2>2. SyncTypes' /\ (BatchesWait /\ ResyncIsFirst)'
    BY <2>1 DEF SyncInv, SyncTypes, BatchesWait, ResyncIsFirst, Queued, Messages, Dates
  <2>3. Unexplained' = Unexplained
    BY <2>1 DEF Unexplained, Missing, Messages, Arriving
  <2>4. \A m \in Unexplained' : m \in Nat
    BY <2>3, ResyncTypes DEF Unexplained, Missing
  <2>5. ResyncSound'
    BY <2>1, <2>3, <2>4, StillSound DEF SameResync
  <2> QED BY <2>2, <2>5 DEF SyncInv
<1> QED
  BY <1>1, <1>2, <1>3, <1>4, <1>5, <1>6, <1>7, <1>8, <1>9, <1>10, <1>11, <1>12, <1>13 DEF SyncNext

(* What the resync, the handlers and the line keep of the messages that    *)
(* are missing, in every state.                                            *)
THEOREM SyncInvariant == SyncSpec => []SyncInv
<1>1. SyncInit => SyncInv
  BY SyncStarts
<1>2. SyncInv /\ [SyncNext]_syncVars => SyncInv'
  BY SyncKept
<1> QED BY <1>1, <1>2, PTL DEF SyncSpec

(* Types of what a session keeps of the messages it missed.                *)
THEOREM SyncTyped == SyncSpec => []SyncTypes
<1>1. SyncInv => SyncTypes
  BY DEF SyncInv
<1> QED BY <1>1, SyncInvariant, PTL

(* NothingPassedOver: while no resync is asking, a message that the        *)
(* database lacks and no handler has in hand is younger than               *)
(* last_synced_at, or was passed over for one of the reasons that the code *)
(* itself has: so the pages of performIncrementalResync, the order in      *)
(* which they are handed over and the date it writes leave no gap.         *)
THEOREM NothingIsPassedOver == SyncSpec => []NothingPassedOver
<1>1. SyncInv => NothingPassedOver
  <2> SUFFICES ASSUME SyncInv, ~Asking, resync.at # "end", NEW m \in Passed(row.synced), m \notin skipped
               PROVE  FALSE
    BY DEF NothingPassedOver
  <2>1. m \in Unexplained /\ Stamp(m) <= row.synced /\ m \in Messages
    BY DEF Passed, Unexplained, Missing
  <2>2. resync.at = "rest"
    BY ResyncTypes DEF Asking, Places
  <2>3. Stamp(m) > row.synced
    BY <2>1, <2>2 DEF SyncInv, ResyncSound
  <2> QED BY <2>1, <2>3, ResyncTypes
<1> QED BY <1>1, SyncInvariant, PTL


-----------------------------------------------------------------------------
(* The foot of a chat (Composer): types.                                   *)
SomeThread == Threads \cup {NoThread}
TakeSteps  == {"none", "asking", "on", "stopping", "done"}
TakeState  == [at : TakeSteps, from : SomeThread, crossed : BOOLEAN]
Attachment == [kind : {"file", "voice"}, from : SomeThread, takes : SUBSET Takes, in : SomeThread]

FootTypes ==
  /\ open \in SomeThread /\ may \subseteq Threads /\ text \in {open, NoInput}
  /\ takes \in [Takes -> TakeState] /\ chunks \subseteq Takes
  /\ recorderRef \in TakesAt("on") \cup {NoInput} /\ recording \in BOOLEAN /\ preview \in BOOLEAN
  /\ timers \subseteq Takes /\ lastTimer \in Takes \cup {NoInput}
  /\ files \in Seq(Attachment) /\ clicks \in 0..MaxClicks

(* A recording that is not over began in the open chat, or was crossed; of *)
(* two whose microphone was granted both were; and sound is of recordings  *)
(* that are over, crossed ones as long as another may still add to it.     *)
Sounding == {t \in Takes : takes[t].at \in {"on", "stopping"}}
OfChat(t, c) == takes[t].from = c \/ takes[t].crossed

TakesSound ==
  /\ \A t \in UnderWay : OfChat(t, open)
  /\ \A t, u \in Sounding : t = u \/ takes[t].crossed
  /\ \A t \in chunks : takes[t].at = "done"
  /\ \A t \in chunks : Sounding = {} \/ takes[t].crossed

(* A file is of the chat, and the recordings in it are over.               *)
AttachedIn(c, f) == f \in Attachment /\ ComposedIn(c, f) /\ \A t \in f.takes : takes[t].at = "done"

FilesSound == \A i \in DOMAIN files : AttachedIn(open, files[i])

PostingSound ==
  request # NoInput =>
    /\ request.text \in {request.chat, NoInput}
    /\ request.file # NoInput => AttachedIn(request.chat, request.file)

FootInv == FootTypes /\ TakesSound /\ FilesSound /\ PostingSound

LEMMA FootConstants == NoInput \notin Threads /\ NoInput \notin Takes /\ MaxClicks \in Nat /\ MaxFiles \in Nat
BY ComposerAssumption

LEMMA ClickCounted ==
  ASSUME FootTypes, Click
  PROVE  clicks' \in 0..MaxClicks
BY FootConstants DEF FootTypes, Click

(* A recording that is over stays as it is, and so does what was made of   *)
(* such recordings.                                                        *)
OverStay == \A t \in Takes : takes[t].at = "done" => takes'[t] = takes[t]

LEMMA AttachedStays ==
  ASSUME OverStay, NEW c, NEW f, AttachedIn(c, f)
  PROVE  AttachedIn(c, f)'
BY DEF OverStay, AttachedIn, ComposedIn, Attachment

LEMMA PostingStays ==
  ASSUME OverStay, PostingSound, UNCHANGED request
  PROVE  PostingSound'
<1>1. PICK r : r = request
  OBVIOUS
<1>2. CASE r = NoInput
  BY <1>1, <1>2 DEF PostingSound
<1>3. CASE r # NoInput
  <2>1. r.text \in {r.chat, NoInput} /\ (r.file # NoInput => AttachedIn(r.chat, r.file))
    BY <1>1, <1>3 DEF PostingSound
  <2>2. r.file # NoInput => AttachedIn(r.chat, r.file)'
    BY <2>1, AttachedStays
  <2>3. request' = r
    BY <1>1
  <2> QED BY <2>1, <2>2, <2>3 DEF PostingSound, AttachedIn, ComposedIn
<1> QED BY <1>2, <1>3

LEMMA FilesStay ==
  ASSUME OverStay, FilesSound, UNCHANGED <<open, files>>
  PROVE  FilesSound'
<1>1. PICK o : o = open
  OBVIOUS
<1>2. PICK fs : fs = files
  OBVIOUS
<1>3. \A i \in DOMAIN fs : AttachedIn(o, fs[i])'
  BY <1>1, <1>2, AttachedStays DEF FilesSound
<1>4. open' = o /\ files' = fs
  BY <1>1, <1>2
<1> QED BY <1>3, <1>4 DEF FilesSound, AttachedIn, ComposedIn

(* The files after one is removed were there before.                       *)
LEMMA RemovedSeq ==
  ASSUME NEW S, NEW s \in Seq(S), NEW i \in DOMAIN s
  PROVE  /\ RemoveAt(s, i) \in Seq(S)
         /\ \A j \in DOMAIN RemoveAt(s, i) : \E k \in DOMAIN s : RemoveAt(s, i)[j] = s[k]
<1>1. i \in 1..Len(s) /\ Len(s) \in Nat /\ DOMAIN s = 1..Len(s)
  OBVIOUS
<1> DEFINE a == SubSeq(s, 1, i - 1)
           b == SubSeq(s, i + 1, Len(s))
<1>2. a \in Seq(S) /\ Len(a) = i - 1 /\ \A j \in 1..(i - 1) : a[j] = s[j]
  <2>1. i - 1 \in 0..Len(s)
    BY <1>1
  <2>2. \A j \in 1..(i - 1) : s[j] \in S
    BY <1>1, <2>1
  <2> QED BY <1>1, <2>1, <2>2
<1>3. b \in Seq(S) /\ Len(b) = Len(s) - i /\ \A j \in 1..(Len(s) - i) : b[j] = s[i + j]
  BY <1>1
<1>4. RemoveAt(s, i) = a \o b
  BY DEF RemoveAt
<1> HIDE DEF a, b
<1>5. a \o b \in Seq(S) /\ Len(a \o b) = Len(s) - 1
  <2>1. a \in Seq(S) /\ b \in Seq(S)
    BY <1>2, <1>3
  <2>2. a \o b \in Seq(S) /\ Len(a \o b) = Len(a) + Len(b)
    BY <2>1
  <2>3. Len(a) + Len(b) = Len(s) - 1
    BY <1>1, <1>2, <1>3
  <2> QED BY <2>2, <2>3
<1>6. ASSUME NEW j \in DOMAIN (a \o b)
      PROVE  \E k \in DOMAIN s : (a \o b)[j] = s[k]
  <2>1. j \in 1..(Len(s) - 1)
    BY <1>5
  <2>2. CASE j <= i - 1
    BY <1>1, <1>2, <1>3, <2>1, <2>2
  <2>3. CASE j > i - 1
    <3>1. j - (i - 1) \in 1..(Len(s) - i) /\ (a \o b)[j] = b[j - (i - 1)]
      BY <1>1, <1>2, <1>3, <2>1, <2>3
    <3>2. (a \o b)[j] = s[j + 1] /\ j + 1 \in 1..Len(s)
      BY <1>1, <1>3, <2>1, <3>1
    <3> QED BY <1>1, <3>2
  <2> QED BY <1>1, <2>1, <2>2, <2>3
<1> QED BY <1>4, <1>5, <1>6

LEMMA SameTakes ==
  ASSUME FootTypes, TakesSound, UNCHANGED <<takes, chunks>>, UNCHANGED open
  PROVE  TakesSound' /\ OverStay
BY DEF TakesSound, OverStay, UnderWay, Sounding, OfChat

(* Types of what the controls leave alone.                                 *)
RecorderTypes ==
  /\ takes \in [Takes -> TakeState] /\ chunks \subseteq Takes
  /\ recorderRef \in TakesAt("on") \cup {NoInput} /\ recording \in BOOLEAN
  /\ timers \subseteq Takes /\ lastTimer \in Takes \cup {NoInput}

InputTypes ==
  /\ open \in SomeThread /\ may \subseteq Threads /\ text \in {open, NoInput} /\ preview \in BOOLEAN
  /\ files \in Seq(Attachment) /\ clicks \in 0..MaxClicks

LEMMA FootParts == FootTypes <=> RecorderTypes /\ InputTypes
BY DEF FootTypes, RecorderTypes, InputTypes

LEMMA SameRecorder ==
  ASSUME FootTypes, UNCHANGED recorder
  PROVE  RecorderTypes'
BY DEF FootTypes, RecorderTypes, recorder, TakesAt

(* The effect of another chat: all that is under way is crossed.           *)
LEMMA CrossedTakes ==
  ASSUME RecorderTypes, NEW ts \in SUBSET Takes, NEW new, new = Crossed(ts)
  PROVE  /\ new \in [Takes -> TakeState]
         /\ \A t \in Takes : /\ new[t].at = takes[t].at /\ new[t].from = takes[t].from
                             /\ new[t].crossed <=> (takes[t].crossed \/ t \in ts)
                             /\ t \notin ts => new[t] = takes[t]
BY DEF RecorderTypes, Crossed, TakeState

LEMMA ChatOpened ==
  ASSUME FootInv, NEW c \in SomeThread, OpenChat(c)
  PROVE  FootInv'
<1>1. FootTypes /\ TakesSound /\ RecorderTypes /\ InputTypes
  BY FootParts DEF FootInv
<1>2. /\ open' = c /\ text' = NoInput /\ files' = <<>> /\ takes' = Crossed(UnderWay) /\ Click
      /\ UNCHANGED <<may, chunks, recorderRef, recording, preview, timers, lastTimer, request>>
  BY DEF OpenChat, Empty
<1>3. UnderWay \in SUBSET Takes
  BY DEF UnderWay
<1>4. /\ takes' \in [Takes -> TakeState]
      /\ \A t \in Takes : /\ takes'[t].at = takes[t].at /\ takes'[t].from = takes[t].from
                          /\ takes'[t].crossed <=> (takes[t].crossed \/ t \in UnderWay)
                          /\ t \notin UnderWay => takes'[t] = takes[t]
  BY <1>1, <1>2, <1>3, CrossedTakes
<1>5. OverStay
  BY <1>4 DEF OverStay, UnderWay
<1>6. RecorderTypes'
  BY <1>1, <1>2, <1>4 DEF RecorderTypes, TakesAt
<1>7. InputTypes'
  BY <1>1, <1>2, ClickCounted DEF InputTypes
<1>8. TakesSound'
  BY <1>1, <1>2, <1>4 DEF TakesSound, UnderWay, Sounding, OfChat, RecorderTypes
<1>9. FilesSound'
  BY <1>2 DEF FilesSound
<1>10. PostingSound'
  BY <1>2, <1>5, PostingStays DEF FootInv
<1> QED BY <1>6, <1>7, <1>8, <1>9, <1>10, FootParts, PTL DEF FootInv

(* What the user types, chooses and removes, and the answer.               *)
LEMMA InputSteps ==
  ASSUME FootInv,
         \/ \E c \in Threads : PermissionChanges(c)
         \/ handleTextChange \/ handleFileChange \/ onRemoveAttachment \/ cleanupRecordingPreview
         \/ handleSend \/ SendAnswered
  PROVE  FootInv'
<1>1. FootTypes /\ TakesSound /\ FilesSound /\ PostingSound /\ RecorderTypes /\ InputTypes
  BY FootParts DEF FootInv
<1>2. UNCHANGED recorder /\ open' = open
  BY DEF PermissionChanges, handleTextChange, handleFileChange, onRemoveAttachment,
         cleanupRecordingPreview, handleSend, SendAnswered, input
<1>3. RecorderTypes' /\ TakesSound' /\ OverStay
  BY <1>1, <1>2, SameRecorder, SameTakes DEF recorder
<1>4. ASSUME files' = files PROVE FilesSound'
  BY <1>1, <1>2, <1>3, <1>4, FilesStay
<1>5. ASSUME request' = request PROVE PostingSound'
  BY <1>1, <1>3, <1>5, PostingStays
<1>6. InputTypes' /\ FilesSound' /\ PostingSound'
  <2>1. CASE \E c \in Threads : PermissionChanges(c)
    <3>1. Click /\ may' \subseteq Threads /\ UNCHANGED <<open, text, files, preview, request>>
      BY <1>1, <2>1 DEF PermissionChanges, InputTypes, input
    <3> QED BY <1>1, <1>4, <1>5, <3>1, ClickCounted DEF InputTypes
  <2>2. CASE handleTextChange
    <3>1. Click /\ text' \in {open, NoInput} /\ UNCHANGED <<open, may, files, preview, request>>
      BY <2>2 DEF handleTextChange
    <3> QED BY <1>1, <1>4, <1>5, <3>1, ClickCounted DEF InputTypes
  <2>3. CASE handleFileChange
    <3>1. PICK n \in 0..MaxFiles :
            files' = [i \in 1..n |-> [kind |-> "file", from |-> open, takes |-> {}, in |-> open]]
      BY <2>3 DEF handleFileChange
    <3>2. Click /\ UNCHANGED <<open, may, text, preview, request>> /\ n \in Nat
      BY <2>3, <3>1, FootConstants DEF handleFileChange
    <3>3. PICK f : f = [kind |-> "file", from |-> open, takes |-> {}, in |-> open]
      OBVIOUS
    <3>4. f \in Attachment /\ f.kind = "file" /\ f.from = open /\ f.takes = {} /\ f.in = open
      BY <1>1, <3>3 DEF Attachment, InputTypes
    <3>5. files' = [i \in 1..n |-> f]
      BY <3>1, <3>3
    <3>6. files' \in Seq(Attachment) /\ DOMAIN files' = 1..n /\ \A i \in 1..n : files'[i] = f
      BY <3>2, <3>4, <3>5
    <3>7. FilesSound'
      BY <1>2, <3>4, <3>6 DEF FilesSound, AttachedIn, ComposedIn
    <3> QED BY <1>1, <1>5, <3>2, <3>6, <3>7, ClickCounted DEF InputTypes
  <2>4. CASE onRemoveAttachment
    <3>1. PICK i \in DOMAIN files : files' = RemoveAt(files, i)
      BY <2>4 DEF onRemoveAttachment
    <3>2. Click /\ UNCHANGED <<open, may, text, preview, request>>
      BY <2>4 DEF onRemoveAttachment
    <3>3. PICK fs : fs = files
      OBVIOUS
    <3>4. files' \in Seq(Attachment) /\ \A j \in DOMAIN files' : \E k \in DOMAIN fs : files'[j] = fs[k]
      BY <1>1, <3>1, <3>3, RemovedSeq DEF InputTypes
    <3>5. PICK o : o = open
      OBVIOUS
    <3>6. \A k \in DOMAIN fs : AttachedIn(o, fs[k])'
      BY <1>1, <1>3, <3>3, <3>5, AttachedStays DEF FilesSound
    <3>7. FilesSound'
      BY <3>2, <3>4, <3>5, <3>6 DEF FilesSound, AttachedIn, ComposedIn
    <3> QED BY <1>1, <1>5, <3>2, <3>4, <3>7, ClickCounted DEF InputTypes
  <2>5. CASE cleanupRecordingPreview
    <3>1. Click /\ preview' = FALSE /\ UNCHANGED <<open, may, text, files, request>>
      BY <2>5 DEF cleanupRecordingPreview, input
    <3> QED BY <1>1, <1>4, <1>5, <3>1, ClickCounted DEF InputTypes
  <2>6. CASE handleSend
    <3>1. /\ Click /\ request' = sendMedia(open, Payload)
          /\ UNCHANGED <<open, may, text, files, preview>>
      BY <2>6 DEF handleSend, input
    <3>2. PICK r : r = sendMedia(open, Payload)
      OBVIOUS
    <3>3. r.chat = open /\ r.text = text /\ r.file = IF files = <<>> THEN NoInput ELSE Head(files)
      BY <3>2 DEF sendMedia, Payload
    <3>4. files # <<>> => 1 \in DOMAIN files /\ Head(files) = files[1]
      BY <1>1 DEF InputTypes
    <3>5. r.text \in {r.chat, NoInput} /\ (r.file # NoInput => AttachedIn(r.chat, r.file))
      BY <1>1, <3>3, <3>4 DEF InputTypes, FilesSound
    <3>6. r.file # NoInput => AttachedIn(r.chat, r.file)'
      BY <1>3, <3>5, AttachedStays
    <3>7. PostingSound'
      BY <3>1, <3>2, <3>5, <3>6 DEF PostingSound, AttachedIn, ComposedIn
    <3> QED BY <1>1, <1>4, <3>1, <3>7, ClickCounted DEF InputTypes
  <2>7. CASE SendAnswered
    <3>1. request' = NoInput /\ UNCHANGED <<open, may, clicks>>
      BY <2>7 DEF SendAnswered
    <3>2. PostingSound'
      BY <3>1 DEF PostingSound
    <3>3. CASE Empty /\ preview' = FALSE
      <4>1. files' = <<>> /\ text' = NoInput
        BY <3>3 DEF Empty
      <4>2. InputTypes'
        <5>1. preview' \in BOOLEAN
          BY <3>3
        <5>2. files' \in Seq(Attachment) /\ text' \in {open', NoInput}
          BY <4>1
        <5> QED BY <1>1, <3>1, <5>1, <5>2 DEF InputTypes
      <4>3. FilesSound'
        BY <4>1 DEF FilesSound
      <4> QED BY <3>2, <4>2, <4>3
    <3>4. CASE UNCHANGED <<input, preview>>
      BY <1>1, <1>4, <3>1, <3>2, <3>4 DEF InputTypes, input
    <3> QED BY <2>7, <3>3, <3>4 DEF SendAnswered
  <2> QED BY <2>1, <2>2, <2>3, <2>4, <2>5, <2>6, <2>7
<1> QED BY <1>3, <1>6, FootParts, PTL DEF FootInv

(* What is left alone while recordings begin, stop and end.                *)
LEMMA SameInput ==
  ASSUME InputTypes, UNCHANGED <<open, may, text, files>>, preview' \in BOOLEAN, clicks' \in 0..MaxClicks
  PROVE  InputTypes'
BY DEF InputTypes

LEMMA RecordingStarted ==
  ASSUME FootInv, NEW t \in Takes, startRecording(t)
  PROVE  FootInv'
<1>1. FootTypes /\ TakesSound /\ RecorderTypes /\ InputTypes
  BY FootParts DEF FootInv
<1>2. /\ Click /\ Enabled /\ takes[t].at = "none" /\ preview' = FALSE /\ files' = <<>>
      /\ takes' = [takes EXCEPT ![t] = [at |-> "asking", from |-> open, crossed |-> FALSE]]
      /\ UNCHANGED <<open, may, text, chunks, recorderRef, recording, timers, lastTimer, request>>
  BY DEF startRecording
<1>3. takes' \in [Takes -> TakeState] /\ takes'[t].at = "asking" /\ takes'[t].from = open
  BY <1>1, <1>2 DEF RecorderTypes, InputTypes, TakeState, TakeSteps
<1>4. \A u \in Takes : u # t => takes'[u] = takes[u]
  BY <1>1, <1>2 DEF RecorderTypes
<1>5. OverStay
  BY <1>2, <1>4 DEF OverStay
<1>6. RecorderTypes'
  BY <1>1, <1>2, <1>3, <1>4 DEF RecorderTypes, TakesAt
<1>7. InputTypes'
  <2>1. preview' \in BOOLEAN
    BY <1>2
  <2>2. files' \in Seq(Attachment)
    BY <1>2
  <2> QED BY <1>1, <1>2, <2>1, <2>2, ClickCounted DEF InputTypes
<1>8. TakesSound'
  <2>1. UnderWay' = UnderWay \cup {t} /\ Sounding' = Sounding /\ t \notin Sounding /\ t \notin chunks
    BY <1>1, <1>2, <1>3, <1>4 DEF UnderWay, Sounding, TakesSound
  <2>2. \A u \in UnderWay' : OfChat(u, open)'
    BY <1>1, <1>2, <1>3, <1>4, <2>1 DEF OfChat, TakesSound, UnderWay
  <2>3. Sounding \subseteq Takes /\ chunks \subseteq Takes
    BY <1>1 DEF Sounding, RecorderTypes
  <2> QED BY <1>1, <1>2, <1>4, <2>1, <2>2, <2>3 DEF TakesSound
<1>9. FilesSound'
  BY <1>2 DEF FilesSound
<1>10. PostingSound'
  BY <1>2, <1>5, PostingStays DEF FootInv
<1> QED BY <1>6, <1>7, <1>8, <1>9, <1>10, FootParts, PTL DEF FootInv

LEMMA MicrophoneGranted ==
  ASSUME FootInv, NEW t \in Takes, Granted(t)
  PROVE  FootInv'
<1>1. FootTypes /\ TakesSound /\ FilesSound /\ RecorderTypes /\ InputTypes
  BY FootParts DEF FootInv
<1> DEFINE others == IF UnderWay = {t} THEN {} ELSE UnderWay
<1>2. /\ takes[t].at = "asking" /\ takes' = [Crossed(others) EXCEPT ![t].at = "on"]
      /\ chunks' = {} /\ recorderRef' = t /\ recording' = TRUE
      /\ timers' = timers \cup {t} /\ lastTimer' = t
      /\ UNCHANGED <<open, may, text, files, preview, request, clicks>>
  BY DEF Granted, input
<1>3. others \in SUBSET Takes
  BY DEF UnderWay
<1>4. PICK new : new = Crossed(others)
  OBVIOUS
<1>5. /\ new \in [Takes -> TakeState]
      /\ \A u \in Takes : /\ new[u].at = takes[u].at /\ new[u].from = takes[u].from
                          /\ new[u].crossed <=> (takes[u].crossed \/ u \in others)
                          /\ u \notin others => new[u] = takes[u]
  <2> HIDE DEF others
  <2> QED BY <1>1, <1>3, <1>4, CrossedTakes
<1>6. others \subseteq UnderWay /\ (UnderWay = {t} \/ others = UnderWay)
  OBVIOUS
<1>7. takes' = [new EXCEPT ![t].at = "on"]
  BY <1>2, <1>4
<1>8. /\ takes' \in [Takes -> TakeState]
      /\ \A u \in Takes : takes'[u].from = takes[u].from /\ takes'[u].crossed = new[u].crossed
      /\ takes'[t].at = "on" /\ \A u \in Takes : u # t => takes'[u] = new[u]
  BY <1>5, <1>7 DEF TakeState, TakeSteps
<1> HIDE DEF others
<1>9. OverStay
  BY <1>2, <1>5, <1>6, <1>8 DEF OverStay, UnderWay
<1>10. RecorderTypes'
  BY <1>1, <1>2, <1>8 DEF RecorderTypes, TakesAt
<1>11. InputTypes'
  BY <1>1, <1>2, SameInput DEF InputTypes
<1>12. TakesSound'
  <2>1. UnderWay' = UnderWay /\ Sounding' \subseteq UnderWay /\ t \in UnderWay
    <3>1. \A u \in Takes : u # t => takes'[u].at = takes[u].at
      BY <1>5, <1>8
    <3> QED BY <1>2, <1>8, <3>1 DEF UnderWay, Sounding
  <2>2. \A u \in Takes : takes[u].crossed => takes'[u].crossed
    BY <1>5, <1>8
  <2>3. \A u \in UnderWay' : OfChat(u, open)'
    BY <1>1, <1>2, <1>8, <2>1, <2>2 DEF OfChat, TakesSound, UnderWay
  <2>4. \A u, v \in Sounding' : u = v \/ takes'[u].crossed
    BY <1>5, <1>6, <1>8, <2>1 DEF UnderWay
  <2> QED BY <1>2, <2>3, <2>4 DEF TakesSound
<1>13. FilesSound'
  BY <1>1, <1>2, <1>9, FilesStay
<1>14. PostingSound'
  BY <1>2, <1>9, PostingStays DEF FootInv
<1> QED BY <1>10, <1>11, <1>12, <1>13, <1>14, FootParts, PTL DEF FootInv

(* The recorder that is held stops: by the button, by a limit, or because  *)
(* the microphone was refused to a later click, which is over.             *)
LEMMA RecorderStops ==
  ASSUME FootInv, NEW over \in SUBSET TakesAt("asking"),
         takes' = [u \in Takes |-> IF u \in over THEN [takes[u] EXCEPT !.at = "done"]
                                   ELSE IF u = recorderRef THEN [takes[u] EXCEPT !.at = "stopping"]
                                   ELSE takes[u]],
         recorderRef' = NoInput, recording' = FALSE, timers' \subseteq timers,
         clicks' \in 0..MaxClicks,
         UNCHANGED <<open, may, text, files, chunks, lastTimer, preview, request>>
  PROVE  FootInv'
<1>1. FootTypes /\ TakesSound /\ FilesSound /\ RecorderTypes /\ InputTypes
  BY FootParts DEF FootInv
<1>2. /\ takes' \in [Takes -> TakeState]
      /\ \A u \in Takes : takes'[u].from = takes[u].from /\ takes'[u].crossed = takes[u].crossed
  BY <1>1 DEF RecorderTypes, TakeState, TakeSteps
<1>3. \A u \in Takes : \/ takes'[u] = takes[u]
                       \/ takes[u].at = "asking" /\ takes'[u].at = "done"
                       \/ takes[u].at = "on" /\ takes'[u].at = "stopping"
  <2>1. \A u \in over : takes[u].at = "asking"
    BY DEF TakesAt
  <2>2. recorderRef \in Takes => takes[recorderRef].at = "on"
    BY <1>1, FootConstants DEF RecorderTypes, TakesAt
  <2> QED BY <1>1, <2>1, <2>2 DEF RecorderTypes, TakeState
<1>4. OverStay
  BY <1>3 DEF OverStay
<1>5. RecorderTypes'
  BY <1>1, <1>2 DEF RecorderTypes
<1>6. InputTypes'
  BY <1>1, SameInput DEF InputTypes
<1>7. TakesSound'
  <2>1. UnderWay' \subseteq UnderWay /\ Sounding' = Sounding
    BY <1>3 DEF UnderWay, Sounding
  <2>2. \A u \in UnderWay' : OfChat(u, open)'
    BY <1>1, <1>2, <2>1 DEF OfChat, TakesSound, UnderWay
  <2>3. \A u \in chunks : takes'[u].at = "done"
    BY <1>1, <1>4 DEF TakesSound, OverStay, RecorderTypes
  <2>4. Sounding \subseteq Takes /\ chunks \subseteq Takes
    BY <1>1 DEF Sounding, RecorderTypes
  <2> QED BY <1>1, <1>2, <2>1, <2>2, <2>3, <2>4 DEF TakesSound
<1>8. FilesSound'
  BY <1>1, <1>4, FilesStay
<1>9. PostingSound'
  BY <1>4, PostingStays DEF FootInv
<1> QED BY <1>5, <1>6, <1>7, <1>8, <1>9, FootParts, PTL DEF FootInv

(* A recording ends: its sound is with that of other recordings only if    *)
(* both were crossed.                                                      *)
LEMMA SoundHeard ==
  ASSUME FootInv, NEW t \in Takes, Stopped(t)
  PROVE  FootInv'
<1>1. FootTypes /\ TakesSound /\ FilesSound /\ RecorderTypes /\ InputTypes
  BY FootParts DEF FootInv
<1>2. PICK sound \in BOOLEAN :
        LET heard == chunks \cup (IF sound THEN {t} ELSE {}) IN
        /\ chunks' = heard
        /\ IF heard = {} THEN UNCHANGED <<files, preview>>
           ELSE /\ files' = <<[kind |-> "voice", from |-> NoThread, takes |-> heard, in |-> open]>>
                /\ preview' = TRUE
  BY DEF Stopped
<1>3. PICK heard : heard = chunks \cup (IF sound THEN {t} ELSE {})
  OBVIOUS
<1>4. /\ chunks' = heard
      /\ \/ UNCHANGED <<files, preview>>
         \/ /\ files' = <<[kind |-> "voice", from |-> NoThread, takes |-> heard, in |-> open]>>
            /\ preview' = TRUE
  BY <1>2, <1>3
<1>5. /\ takes[t].at = "stopping" /\ takes' = [takes EXCEPT ![t].at = "done"]
      /\ UNCHANGED <<open, may, text, recorderRef, recording, timers, lastTimer, request, clicks>>
  BY DEF Stopped
<1>6. /\ takes' \in [Takes -> TakeState] /\ takes'[t].at = "done"
      /\ \A u \in Takes : /\ takes'[u].from = takes[u].from /\ takes'[u].crossed = takes[u].crossed
                          /\ u # t => takes'[u] = takes[u]
  BY <1>1, <1>5 DEF RecorderTypes, TakeState, TakeSteps
<1>7. OverStay
  BY <1>5, <1>6 DEF OverStay
<1>8. heard \subseteq chunks \cup {t} /\ heard \subseteq Takes
  BY <1>1, <1>3 DEF RecorderTypes
<1>9. t \in Sounding /\ t \in UnderWay
  BY <1>5 DEF Sounding, UnderWay
<1>10. \A u \in heard : takes'[u].at = "done"
  BY <1>1, <1>6, <1>7, <1>8 DEF TakesSound, OverStay
<1>11. \A u \in heard : OfChat(u, open)
  BY <1>1, <1>8, <1>9 DEF TakesSound, OfChat
<1>12. RecorderTypes'
  BY <1>1, <1>4, <1>5, <1>6, <1>8 DEF RecorderTypes, TakesAt
<1>13. TakesSound'
  <2>1. UnderWay' \subseteq UnderWay /\ Sounding' = Sounding \ {t}
    BY <1>6 DEF UnderWay, Sounding
  <2>2. \A u \in UnderWay' : OfChat(u, open)'
    BY <1>1, <1>5, <1>6, <2>1 DEF OfChat, TakesSound, UnderWay
  <2>3. \A u, v \in Sounding' : u = v \/ takes'[u].crossed
    BY <1>1, <1>6, <2>1 DEF TakesSound, Sounding
  <2>4. \A u \in heard : Sounding' = {} \/ takes'[u].crossed
    BY <1>1, <1>6, <1>8, <1>9, <2>1 DEF TakesSound
  <2> QED BY <1>4, <1>10, <2>2, <2>3, <2>4 DEF TakesSound
<1>14. InputTypes' /\ FilesSound'
  <2>1. CASE UNCHANGED <<files, preview>>
    <3>1. InputTypes'
      BY <1>1, <1>5, <2>1, SameInput DEF InputTypes
    <3>2. FilesSound'
      BY <1>1, <1>5, <1>7, <2>1, FilesStay
    <3> QED BY <3>1, <3>2
  <2>2. CASE /\ files' = <<[kind |-> "voice", from |-> NoThread, takes |-> heard, in |-> open]>>
             /\ preview' = TRUE
    <3>1. PICK f : f = [kind |-> "voice", from |-> NoThread, takes |-> heard, in |-> open]
      OBVIOUS
    <3>2. f \in Attachment /\ f.kind = "voice" /\ f.takes = heard /\ f.in = open
      BY <1>1, <1>8, <3>1 DEF Attachment, InputTypes, SomeThread
    <3>3. files' = <<f>>
      BY <2>2, <3>1
    <3>4. files' \in Seq(Attachment) /\ DOMAIN files' = {1} /\ files'[1] = f
      BY <3>2, <3>3
    <3>5. \A u \in heard : takes'[u].from = open \/ takes'[u].crossed
      BY <1>6, <1>8, <1>11 DEF OfChat
    <3>6. AttachedIn(open, f)'
      BY <1>5, <1>10, <3>2, <3>5 DEF AttachedIn, ComposedIn
    <3>7. InputTypes'
      BY <1>1, <1>5, <2>2, <3>4 DEF InputTypes
    <3>8. FilesSound'
      BY <1>5, <3>4, <3>6 DEF FilesSound, AttachedIn, ComposedIn
    <3> QED BY <3>7, <3>8
  <2> QED BY <1>4, <2>1, <2>2
<1>15. PostingSound'
  BY <1>5, <1>7, PostingStays DEF FootInv
<1> QED BY <1>12, <1>13, <1>14, <1>15, FootParts, PTL DEF FootInv

LEMMA RecorderSteps ==
  ASSUME FootInv, onToggleRecording \/ \E t \in Takes : Denied(t) \/ LimitReached(t)
  PROVE  FootInv'
<1>1. FootTypes /\ RecorderTypes /\ InputTypes
  BY FootParts DEF FootInv
<1>2. recorderRef = NoInput \/ takes[recorderRef].at = "on"
  BY <1>1 DEF RecorderTypes, TakesAt
<1>3. CASE onToggleRecording
  <2>1. /\ takes' = [u \in Takes |-> IF u = recorderRef THEN [takes[u] EXCEPT !.at = "stopping"] ELSE takes[u]]
        /\ recorderRef' = NoInput /\ recording' = FALSE /\ timers' \subseteq timers /\ Click
        /\ UNCHANGED <<open, may, text, files, chunks, lastTimer, preview, request>>
    BY <1>3 DEF onToggleRecording, stopRecording, input
  <2>2. takes' = [u \in Takes |-> IF u \in {} THEN [takes[u] EXCEPT !.at = "done"]
                                  ELSE IF u = recorderRef THEN [takes[u] EXCEPT !.at = "stopping"]
                                  ELSE takes[u]]
    BY <2>1
  <2>3. {} \in SUBSET TakesAt("asking") /\ clicks' \in 0..MaxClicks
    BY <1>1, <2>1, ClickCounted
  <2> QED BY <2>1, <2>2, <2>3, RecorderStops
<1>4. ASSUME NEW t \in Takes, Denied(t)
      PROVE  FootInv'
  <2>1. /\ takes[t].at = "asking"
        /\ takes' = [u \in Takes |-> IF u = recorderRef THEN [[takes EXCEPT ![t].at = "done"][u] EXCEPT !.at = "stopping"]
                                     ELSE [takes EXCEPT ![t].at = "done"][u]]
        /\ recorderRef' = NoInput /\ recording' = FALSE /\ timers' \subseteq timers
        /\ UNCHANGED <<open, may, text, files, chunks, lastTimer, preview, request, clicks>>
    BY <1>4 DEF Denied, stopRecording, input
  <2>2. t # recorderRef
    BY <1>2, <2>1, FootConstants
  <2>3. \A u \in Takes : [takes EXCEPT ![t].at = "done"][u] =
          IF u = t THEN [takes[u] EXCEPT !.at = "done"] ELSE takes[u]
    BY <1>1 DEF RecorderTypes
  <2>4. takes' = [u \in Takes |-> IF u \in {t} THEN [takes[u] EXCEPT !.at = "done"]
                                  ELSE IF u = recorderRef THEN [takes[u] EXCEPT !.at = "stopping"]
                                  ELSE takes[u]]
    BY <2>1, <2>2, <2>3
  <2>5. {t} \in SUBSET TakesAt("asking") /\ clicks' \in 0..MaxClicks
    BY <1>1, <2>1 DEF TakesAt, InputTypes
  <2> QED BY <2>1, <2>4, <2>5, RecorderStops
<1>5. ASSUME NEW t \in Takes, LimitReached(t)
      PROVE  FootInv'
  <2>1. /\ takes' = [u \in Takes |-> IF u = recorderRef THEN [takes[u] EXCEPT !.at = "stopping"] ELSE takes[u]]
        /\ recorderRef' = NoInput /\ recording' = FALSE /\ timers' \subseteq timers
        /\ UNCHANGED <<open, may, text, files, chunks, lastTimer, preview, request, clicks>>
    BY <1>5 DEF LimitReached, input
  <2>2. takes' = [u \in Takes |-> IF u \in {} THEN [takes[u] EXCEPT !.at = "done"]
                                  ELSE IF u = recorderRef THEN [takes[u] EXCEPT !.at = "stopping"]
                                  ELSE takes[u]]
    BY <2>1
  <2>3. {} \in SUBSET TakesAt("asking") /\ clicks' \in 0..MaxClicks
    BY <1>1, <2>1 DEF InputTypes
  <2> QED BY <2>1, <2>2, <2>3, RecorderStops
<1> QED BY <1>3, <1>4, <1>5

(* The foot of a chat keeps, in all its variables: the parts above.        *)
THEOREM FootInvariant == FootSpec => []FootInv
<1>1. FootInit => FootInv
  <2> SUFFICES ASSUME FootInit PROVE FootInv
    OBVIOUS
  <2>1. \A t \in Takes : takes[t] = [at |-> "none", from |-> NoThread, crossed |-> FALSE]
    BY DEF FootInit, NoTake
  <2>2. RecorderTypes
    BY <2>1 DEF FootInit, NoTake, RecorderTypes, TakeState, TakeSteps, SomeThread
  <2>3. InputTypes
    <3>1. files \in Seq(Attachment) /\ clicks \in 0..MaxClicks
      BY FootConstants DEF FootInit
    <3>2. preview \in BOOLEAN
      BY DEF FootInit
    <3> QED BY <3>1, <3>2 DEF FootInit, InputTypes, SomeThread
  <2>4. TakesSound
    BY <2>1 DEF FootInit, TakesSound, UnderWay, Sounding
  <2>5. FilesSound /\ PostingSound
    BY DEF FootInit, FilesSound, PostingSound
  <2> QED BY <2>2, <2>3, <2>4, <2>5, FootParts DEF FootInv
<1>2. FootInv /\ [FootNext]_footVars => FootInv'
  <2> SUFFICES ASSUME FootInv, [FootNext]_footVars PROVE FootInv'
    OBVIOUS
  <2>1. CASE \/ \E c \in Threads : PermissionChanges(c)
             \/ handleTextChange \/ handleFileChange \/ onRemoveAttachment \/ cleanupRecordingPreview
             \/ handleSend \/ SendAnswered
    BY <2>1, InputSteps
  <2>2. ASSUME NEW c \in SomeThread, OpenChat(c) PROVE FootInv'
    BY <2>2, ChatOpened
  <2>3. ASSUME NEW t \in Takes, startRecording(t) PROVE FootInv'
    BY <2>3, RecordingStarted
  <2>4. ASSUME NEW t \in Takes, Granted(t) PROVE FootInv'
    BY <2>4, MicrophoneGranted
  <2>5. ASSUME NEW t \in Takes, Stopped(t) PROVE FootInv'
    BY <2>5, SoundHeard
  <2>6. CASE onToggleRecording \/ \E t \in Takes : Denied(t) \/ LimitReached(t)
    BY <2>6, RecorderSteps
  <2>7. CASE UNCHANGED footVars
    <3>1. /\ UNCHANGED recorder /\ UNCHANGED <<open, may, text, files, preview, request, clicks>>
          /\ UNCHANGED <<takes, chunks>>
      BY <2>7 DEF footVars, recorder
    <3>2. FootTypes /\ TakesSound /\ FilesSound /\ PostingSound /\ InputTypes
      BY FootParts DEF FootInv
    <3>3. RecorderTypes' /\ TakesSound' /\ OverStay
      BY <3>1, <3>2, SameRecorder, SameTakes
    <3>4. InputTypes'
      BY <3>1, <3>2 DEF InputTypes
    <3>5. FilesSound' /\ PostingSound'
      BY <3>1, <3>2, <3>3, FilesStay, PostingStays
    <3> QED BY <3>3, <3>4, <3>5, FootParts, PTL DEF FootInv
  <2> QED BY <2>1, <2>2, <2>3, <2>4, <2>5, <2>6, <2>7 DEF FootNext, FootUser, FootWorld, SomeThread
<1> QED BY <1>1, <1>2, PTL DEF FootSpec

(* What goes to a client was composed in the chat with that client         *)
(* (ChatWindow.jsx, handleSend and the effect of chat.id), however the     *)
(* answers of the microphone and of the server fall between the clicks.    *)
THEOREM SentWhereItWasComposed == FootSpec => []SentWhereComposed
<1>1. FootInv => SentWhereComposed
  BY DEF FootInv, PostingSound, AttachedIn, SentWhereComposed
<1> QED BY <1>1, FootInvariant, PTL

-----------------------------------------------------------------------------
(* A conversation on the screen (ConversationScreen): types.               *)
Marks    == 0..3
Listings == UNION {[S -> Marks] : S \in SUBSET Msgs}
News     == [kind : {"new", "update"}, msg : Msgs, status : Marks]
ReqForm  == [kind : {"none", "reset", "older", "send", "delete"}, at : {"none", "asked", "read"},
             msg : 0..MaxMsg, got : Listings, next : 0..MaxMsg, fresh : BOOLEAN]

TalkTypes ==
  /\ stored \in Seq(Marks) /\ Len(stored) <= MaxMsg /\ feed \in Seq(News) /\ echo \in BOOLEAN
  /\ req \in [Reqs -> ReqForm]
  /\ active \in BOOLEAN /\ fits \in BOOLEAN /\ spoilt \in BOOLEAN /\ (active => fits)
  /\ shown \in Listings /\ cursor \in 0..MaxMsg

(* A list has messages there are, with a status they had.                  *)
Had(list) ==
  /\ DOMAIN list \subseteq DOMAIN stored
  /\ \A m \in DOMAIN list : list[m] <= stored[m] /\ (list[m] = Inbound => stored[m] = Inbound)

(* A page is a block; the beginnings of two are in the order of their ends.*)
PageFrom(last) == IF last > PageLen THEN last - PageLen + 1 ELSE 1
IsPage(list, next, last) ==
  /\ DOMAIN list = PageFrom(last)..last /\ Had(list)
  /\ next \in {0} \cup DOMAIN list /\ (next # 0 => next = PageFrom(last))

RequestSound(q) ==
  /\ q.kind = "none" <=> q.at = "none"
  /\ q.kind = "reset" /\ q.at = "asked" => q.msg = 0
  /\ q.kind = "reset" /\ q.at = "read" => \E last \in 0..Len(stored) : IsPage(q.got, q.next, last)
  /\ q.kind = "older" => q.msg \in DOMAIN stored
  /\ q.kind = "older" /\ q.at = "read" => IsPage(q.got, q.next, q.msg - 1)
  /\ q.kind \in {"send", "delete"} /\ q.at = "read" => q.msg \in DOMAIN stored /\ stored[q.msg] # Inbound
  /\ q.kind = "delete" => q.msg \in DOMAIN stored /\ stored[q.msg] # Inbound
  /\ q.kind = "delete" /\ q.at = "read" => stored[q.msg] = Deleted

ScreenSound ==
  /\ \A r \in Reqs : RequestSound(req[r])
  /\ Had(shown) /\ keys \subseteq DOMAIN stored /\ cursor \in {0} \cup DOMAIN stored

(* What is on its way: a message is announced once, in the order of time,  *)
(* and the last word on its status is the last.                            *)
UpIn(m)  == \E i \in DOMAIN feed : feed[i].kind = "update" /\ feed[i].msg = m
NewIn(m) == \E i \in DOMAIN feed : feed[i].kind = "new" /\ feed[i].msg = m

LastWord(i) ==
  feed[i].status = stored[feed[i].msg]
    \/ \E k \in DOMAIN feed : k > i /\ feed[k].kind = "update" /\ feed[k].msg = feed[i].msg
Announced(i) ==
  /\ feed[i].msg \notin keys /\ feed[i].status \in {Inbound, Server}
  /\ \A k \in DOMAIN feed : k # i /\ feed[k].kind = "new" => feed[k].msg # feed[i].msg
  /\ echo => \A m \in DOMAIN stored : m > feed[i].msg =>
               \E k \in DOMAIN feed : k > i /\ feed[k].kind = "new" /\ feed[k].msg = m

FeedSound ==
  \A i \in DOMAIN feed :
    /\ feed[i].msg \in DOMAIN stored /\ feed[i].status <= stored[feed[i].msg]
    /\ feed[i].status = Inbound => stored[feed[i].msg] = Inbound
    /\ LastWord(i)
    /\ feed[i].kind = "new" => Announced(i)

(* A message that a list lacks, or shows with an old status, is owed word  *)
(* of that, or a reload is coming that has it.                             *)
ResponseFor(m) == \E r \in Reqs : req[r].kind = "send" /\ req[r].at = "read" /\ req[r].msg = m

Owed(m, list) ==
  IF m \in DOMAIN list THEN list[m] = stored[m] \/ UpIn(m)
  ELSE NewIn(m) \/ (ResponseFor(m) /\ (stored[m] = Server \/ UpIn(m)))

Before(m, list) == DOMAIN list # {} /\ \A n \in DOMAIN list : m < n
Covers(list, m) == Before(m, list) \/ (m \in DOMAIN list /\ (list[m] = stored[m] \/ UpIn(m)))
Brings(q, m) == q.kind = "reset" /\ (q.at = "asked" \/ (q.at = "read" /\ Covers(q.got, m)))
Coming(m) == \E r \in Reqs : Brings(req[r], m)

Whole(first) == \A m \in DOMAIN stored : m >= first => Owed(m, shown) \/ Coming(m)

ListWhole == \A m \in DOMAIN stored : Before(m, shown) \/ Owed(m, shown) \/ Coming(m)

(* A page that was read: the list has something newer than all of it, or   *)
(* what it lacks is owed, or comes with another, or is shown already.      *)
Newer(list) == \E m \in DOMAIN shown : \A n \in DOMAIN list : m > n
Overtaken(m, list) == m \in DOMAIN list /\ m \in DOMAIN shown /\ list[m] < shown[m]
PageTrue(list) ==
  \/ Newer(list)
  \/ \A m \in DOMAIN stored : Before(m, list) \/ Owed(m, list) \/ Coming(m) \/ Overtaken(m, list)

OlderTrue(list) ==
  \A m \in DOMAIN list : list[m] = stored[m] \/ UpIn(m) \/ m \in DOMAIN shown \/ Coming(m)

ListTrue ==
  active /\ ~spoilt =>
    /\ ListWhole /\ (cursor # 0 => Whole(cursor))
    /\ \A r \in Reqs : req[r].kind = "older" /\ req[r].fresh =>
         Whole(req[r].msg) /\ (req[r].at = "read" => OlderTrue(req[r].got))
PagesTrue ==
  active => \A r \in Reqs :
    req[r].kind = "reset" /\ req[r].at = "read" /\ (req[r].fresh \/ ~spoilt) => PageTrue(req[r].got)

TalkInv == TalkTypes /\ ScreenSound /\ FeedSound /\ ListTrue /\ PagesTrue

-----------------------------------------------------------------------------
(* Lists, and pages of a conversation.                                     *)
LEMMA TalkConstants ==
  PageLen \in Nat \ {0} /\ OldMsgs \in Nat /\ MaxMsg \in Nat /\ OldMsgs <= MaxMsg
BY ScreenAssumption

LEMMA ListingIs ==
  ASSUME NEW list \in Listings
  PROVE  /\ list = [m \in DOMAIN list |-> list[m]] /\ DOMAIN list \subseteq Msgs
         /\ \A m \in DOMAIN list : list[m] \in Marks
<1>1. PICK S \in SUBSET Msgs : list \in [S -> Marks]
  BY DEF Listings
<1> QED BY <1>1

LEMMA IsListing ==
  ASSUME NEW S \in SUBSET Msgs, NEW list \in [S -> Marks]
  PROVE  list \in Listings
BY DEF Listings

LEMMA MsgsAre ==
  ASSUME TalkTypes
  PROVE  /\ Len(stored) \in Nat /\ DOMAIN stored = 1..Len(stored) /\ DOMAIN stored \subseteq Msgs
         /\ \A m \in DOMAIN stored : stored[m] \in Marks
         /\ DOMAIN feed = 1..Len(feed) /\ Len(feed) \in Nat /\ \A i \in DOMAIN feed : feed[i] \in News
BY TalkConstants DEF TalkTypes, Msgs

LEMMA PageBegins ==
  ASSUME NEW last \in Nat
  PROVE  PageFrom(last) \in Nat \ {0} /\ PageFrom(last) <= last + 1
BY TalkConstants DEF PageFrom

(* A block that begins after another ends after it.                        *)
LEMMA PagesInOrder ==
  ASSUME NEW k \in Nat, NEW l \in Nat, PageFrom(k) < PageFrom(l)
  PROVE  k < l /\ l \in PageFrom(l)..l
BY TalkConstants DEF PageFrom

LEMMA OffPage ==
  ASSUME NEW list, NEW next, NEW last \in Nat, IsPage(list, next, last), NEW m \in Nat \ {0},
         m \notin DOMAIN list, ~Before(m, list)
  PROVE  \A n \in DOMAIN list : m > n
<1>1. DOMAIN list = PageFrom(last)..last /\ PageFrom(last) \in Nat
  BY PageBegins DEF IsPage
<1>2. ASSUME NEW n \in DOMAIN list, NEW k \in DOMAIN list, m >= k
      PROVE  m > n
  BY <1>1, <1>2
<1>3. (\E k \in DOMAIN list : m >= k) \/ DOMAIN list = {}
  BY <1>1 DEF Before
<1> QED BY <1>2, <1>3

LEMMA PageOf ==
  ASSUME ScreenSound, TalkTypes, NEW r \in Reqs, req[r].kind = "reset", req[r].at = "read"
  PROVE  \E last \in Nat : IsPage(req[r].got, req[r].next, last) /\ last <= Len(stored)
<1>1. PICK last \in 0..Len(stored) : IsPage(req[r].got, req[r].next, last)
  BY DEF ScreenSound, RequestSound
<1> QED BY <1>1, MsgsAre

-----------------------------------------------------------------------------
(* Events on their way.                                                    *)
LEMMA Emitted ==
  ASSUME TalkTypes, NEW e \in News, feed' = Append(feed, e)
  PROVE  /\ feed' \in Seq(News) /\ DOMAIN feed' = 1..(Len(feed) + 1)
         /\ \A i \in DOMAIN feed : i \in DOMAIN feed' /\ feed'[i] = feed[i]
         /\ feed'[Len(feed) + 1] = e
BY MsgsAre DEF TalkTypes

LEMMA Heard ==
  ASSUME TalkTypes, feed # <<>>, feed' = Tail(feed)
  PROVE  /\ feed' \in Seq(News) /\ Head(feed) = feed[1] /\ 1 \in DOMAIN feed /\ feed[1] \in News
         /\ DOMAIN feed' = 1..(Len(feed) - 1)
         /\ \A i \in DOMAIN feed' : i + 1 \in DOMAIN feed /\ feed'[i] = feed[i + 1]
         /\ \A i \in DOMAIN feed : i # 1 => i - 1 \in DOMAIN feed' /\ feed'[i - 1] = feed[i]
<1>1. feed \in Seq(News) /\ Len(feed) \in Nat /\ Len(feed) # 0 /\ DOMAIN feed = 1..Len(feed)
  BY EmptySeq DEF TalkTypes
<1>2. Head(feed) = feed[1] /\ Tail(feed) \in Seq(News) /\ Len(Tail(feed)) = Len(feed) - 1
      /\ \A i \in 1..Len(Tail(feed)) : Tail(feed)[i] = feed[i + 1]
  BY <1>1, HeadTailProperties
<1>3. DOMAIN feed' = 1..(Len(feed) - 1)
  BY <1>1, <1>2
<1> QED BY <1>1, <1>2, <1>3

(* What is emitted of message m: the word on it stays, and is the last.    *)
LEMMA WordEmitted ==
  ASSUME TalkTypes, NEW e \in News, feed' = Append(feed, e)
  PROVE  /\ \A m : UpIn(m)' <=> UpIn(m) \/ (e.kind = "update" /\ e.msg = m)
         /\ \A m : NewIn(m)' <=> NewIn(m) \/ (e.kind = "new" /\ e.msg = m)
<1>1. /\ DOMAIN feed' = 1..(Len(feed) + 1) /\ DOMAIN feed = 1..Len(feed) /\ Len(feed) \in Nat
      /\ \A i \in DOMAIN feed : i \in DOMAIN feed' /\ feed'[i] = feed[i]
      /\ feed'[Len(feed) + 1] = e
  BY Emitted, MsgsAre
<1>2. \A i \in DOMAIN feed' : i \in DOMAIN feed \/ i = Len(feed) + 1
  BY <1>1
<1>3. ASSUME NEW kind, NEW m
      PROVE  (\E i \in DOMAIN feed' : feed'[i].kind = kind /\ feed'[i].msg = m)
               <=> (\E i \in DOMAIN feed : feed[i].kind = kind /\ feed[i].msg = m) \/ (e.kind = kind /\ e.msg = m)
  BY <1>1, <1>2
<1> QED BY <1>3 DEF UpIn, NewIn

LEMMA WordHeard ==
  ASSUME TalkTypes, feed # <<>>, feed' = Tail(feed), NEW m
  PROVE  /\ UpIn(m)' => UpIn(m)
         /\ NewIn(m)' => NewIn(m)
         /\ UpIn(m) => UpIn(m)' \/ (Head(feed).kind = "update" /\ Head(feed).msg = m)
         /\ NewIn(m) => NewIn(m)' \/ (Head(feed).kind = "new" /\ Head(feed).msg = m)
<1>1. /\ Head(feed) = feed[1]
      /\ \A i \in DOMAIN feed' : i + 1 \in DOMAIN feed /\ feed'[i] = feed[i + 1]
      /\ \A i \in DOMAIN feed : i # 1 => i - 1 \in DOMAIN feed' /\ feed'[i - 1] = feed[i]
  BY Heard
<1>2. UpIn(m)' => UpIn(m)
  BY <1>1 DEF UpIn
<1>3. NewIn(m)' => NewIn(m)
  BY <1>1 DEF NewIn
<1>4. UpIn(m) => UpIn(m)' \/ (Head(feed).kind = "update" /\ Head(feed).msg = m)
  BY <1>1 DEF UpIn
<1>5. NewIn(m) => NewIn(m)' \/ (Head(feed).kind = "new" /\ Head(feed).msg = m)
  BY <1>1 DEF NewIn
<1> QED BY <1>2, <1>3, <1>4, <1>5

(* The events stay sound: one is heard, ...                                *)
LEMMA HeardSound ==
  ASSUME TalkTypes, FeedSound, feed # <<>>, feed' = Tail(feed), stored' = stored, echo' = echo,
         keys' = keys \/ (Head(feed).kind = "new" /\ keys' = keys \cup {Head(feed).msg})
  PROVE  FeedSound'
<1>1. /\ Head(feed) = feed[1] /\ 1 \in DOMAIN feed /\ DOMAIN feed' \subseteq Nat /\ DOMAIN feed \subseteq Nat
      /\ \A i \in DOMAIN feed' : i + 1 \in DOMAIN feed /\ feed'[i] = feed[i + 1] /\ i + 1 # 1
      /\ \A i \in DOMAIN feed : i # 1 => i - 1 \in DOMAIN feed' /\ feed'[i - 1] = feed[i]
  BY Heard, MsgsAre
<1>2. ASSUME NEW i \in DOMAIN feed'
      PROVE  /\ feed'[i].msg \in DOMAIN stored' /\ feed'[i].status <= stored'[feed'[i].msg]
             /\ feed'[i].status = Inbound => stored'[feed'[i].msg] = Inbound
             /\ LastWord(i)' /\ (feed'[i].kind = "new" => Announced(i)')
  <2>1. PICK j \in DOMAIN feed : j = i + 1 /\ feed'[i] = feed[j] /\ j # 1 /\ j \in Nat
    BY <1>1
  <2>2. /\ feed[j].msg \in DOMAIN stored /\ feed[j].status <= stored[feed[j].msg]
        /\ feed[j].status = Inbound => stored[feed[j].msg] = Inbound
        /\ LastWord(j) /\ (feed[j].kind = "new" => Announced(j))
    BY <2>1 DEF FeedSound
  <2>3. \A k \in DOMAIN feed : k > j => k - 1 \in DOMAIN feed' /\ k - 1 > i /\ feed'[k - 1] = feed[k]
    BY <1>1, <2>1
  <2>4. LastWord(i)'
    BY <2>1, <2>2, <2>3 DEF LastWord
  <2>5. ASSUME feed'[i].kind = "new"
        PROVE  Announced(i)'
    <3>1. Announced(j)
      BY <2>1, <2>2, <2>5
    <3>2. feed'[i].msg \notin keys'
      <4>1. CASE Head(feed).kind = "new"
        <5>1. feed[1].msg # feed[j].msg
          BY <1>1, <2>1, <2>5, <3>1, <4>1 DEF Announced
        <5> QED BY <1>1, <2>1, <3>1, <5>1 DEF Announced
      <4>2. CASE Head(feed).kind # "new"
        BY <2>1, <3>1, <4>2 DEF Announced
      <4> QED BY <4>1, <4>2
    <3>3. \A k \in DOMAIN feed' : k # i /\ feed'[k].kind = "new" => feed'[k].msg # feed'[i].msg
      <4>1. ASSUME NEW k \in DOMAIN feed', k # i, feed'[k].kind = "new"
            PROVE  feed'[k].msg # feed'[i].msg
        <5>1. k + 1 \in DOMAIN feed /\ feed'[k] = feed[k + 1] /\ k + 1 # j
          BY <1>1, <2>1, <4>1
        <5> QED BY <2>1, <3>1, <4>1, <5>1 DEF Announced
      <4> QED BY <4>1
    <3>4. echo' => \A m \in DOMAIN stored' : m > feed'[i].msg =>
                     \E k \in DOMAIN feed' : k > i /\ feed'[k].kind = "new" /\ feed'[k].msg = m
      BY <2>1, <2>3, <3>1 DEF Announced
    <3>5. feed'[i].status \in {Inbound, Server}
      BY <2>1, <3>1 DEF Announced
    <3> QED BY <3>2, <3>3, <3>4, <3>5 DEF Announced
  <2> QED BY <2>1, <2>2, <2>4, <2>5
<1> QED BY <1>2 DEF FeedSound

(* ... a message is written and announced, ...                             *)
LEMMA WrittenSound ==
  ASSUME TalkTypes, ScreenSound, FeedSound, NEW s \in {Inbound, Server},
         stored' = Append(stored, s), Len(stored) < MaxMsg, UNCHANGED <<echo, keys>>,
         \/ feed' = Append(feed, [kind |-> "new", msg |-> Len(stored) + 1, status |-> s])
         \/ ~echo /\ feed' = feed
  PROVE  FeedSound'
<1>1. /\ Len(stored) \in Nat /\ DOMAIN stored = 1..Len(stored) /\ DOMAIN stored' = 1..(Len(stored) + 1)
      /\ \A m \in DOMAIN stored : stored'[m] = stored[m]
      /\ stored'[Len(stored) + 1] = s
  BY MsgsAre DEF TalkTypes
<1>2. PICK e \in News : e = [kind |-> "new", msg |-> Len(stored) + 1, status |-> s]
  BY <1>1, TalkConstants DEF News, Msgs, Marks, Inbound, Server
<1>3. e.kind = "new" /\ e.msg = Len(stored) + 1 /\ e.status = s
  BY <1>2
<1>4. /\ DOMAIN feed = 1..Len(feed) /\ Len(feed) \in Nat
      /\ \A i \in DOMAIN feed : i \in DOMAIN feed' /\ feed'[i] = feed[i]
      /\ feed' = feed \/ (DOMAIN feed' = 1..(Len(feed) + 1) /\ feed'[Len(feed) + 1] = e)
  BY <1>2, MsgsAre, Emitted
<1>5. \A i \in DOMAIN feed : feed[i].msg \in DOMAIN stored /\ feed[i].msg # Len(stored) + 1
  BY <1>1 DEF FeedSound
<1>6. ASSUME NEW i \in DOMAIN feed
      PROVE  /\ feed'[i].msg \in DOMAIN stored' /\ feed'[i].status <= stored'[feed'[i].msg]
             /\ feed'[i].status = Inbound => stored'[feed'[i].msg] = Inbound
             /\ LastWord(i)' /\ (feed'[i].kind = "new" => Announced(i)')
  <2>1. /\ feed[i].msg \in DOMAIN stored /\ feed[i].status <= stored[feed[i].msg]
        /\ feed[i].status = Inbound => stored[feed[i].msg] = Inbound
        /\ LastWord(i) /\ (feed[i].kind = "new" => Announced(i))
    BY <1>6 DEF FeedSound
  <2>2. feed'[i] = feed[i]
    BY <1>4
  <2>3. LastWord(i)'
    BY <1>1, <1>4, <2>1, <2>2 DEF LastWord
  <2>4. ASSUME feed'[i].kind = "new"
        PROVE  Announced(i)'
    <3>1. Announced(i)
      BY <2>1, <2>2, <2>4
    <3>2. \A k \in DOMAIN feed' : k \in DOMAIN feed \/ (k = Len(feed) + 1 /\ feed'[k] = e)
      BY <1>4
    <3>3. \A k \in DOMAIN feed' : k # i /\ feed'[k].kind = "new" => feed'[k].msg # feed'[i].msg
      BY <1>3, <1>4, <1>5, <2>2, <3>1, <3>2 DEF Announced
    <3>4. ASSUME echo', NEW m \in DOMAIN stored', m > feed'[i].msg
          PROVE  \E k \in DOMAIN feed' : k > i /\ feed'[k].kind = "new" /\ feed'[k].msg = m
      <4>1. CASE m \in DOMAIN stored
        BY <1>4, <2>2, <3>1, <3>4, <4>1 DEF Announced
      <4>2. CASE m = Len(stored) + 1
        <5>1. DOMAIN feed' = 1..(Len(feed) + 1) /\ feed'[Len(feed) + 1] = e
          BY <1>2, <3>4, Emitted
        <5> QED BY <1>3, <1>4, <4>2, <5>1
      <4> QED BY <1>1, <4>1, <4>2
    <3>5. feed'[i].msg \notin keys' /\ feed'[i].status \in {Inbound, Server}
      BY <2>2, <3>1 DEF Announced
    <3> QED BY <3>3, <3>4, <3>5 DEF Announced
  <2> QED BY <1>1, <2>1, <2>2, <2>3, <2>4
<1>7. ASSUME NEW i \in DOMAIN feed', i \notin DOMAIN feed
      PROVE  /\ feed'[i].msg \in DOMAIN stored' /\ feed'[i].status <= stored'[feed'[i].msg]
             /\ feed'[i].status = Inbound => stored'[feed'[i].msg] = Inbound
             /\ LastWord(i)' /\ (feed'[i].kind = "new" => Announced(i)')
  <2>1. feed'[i] = e /\ i = Len(feed) + 1
    BY <1>4, <1>7
  <2>2. s <= s
    BY DEF Inbound, Server
  <2>3. LastWord(i)'
    BY <1>1, <1>3, <2>1 DEF LastWord
  <2>4. Announced(i)'
    <3>1. e.msg \notin keys
      BY <1>1, <1>3 DEF ScreenSound
    <3>2. \A k \in DOMAIN feed' : k # i => k \in DOMAIN feed /\ feed'[k] = feed[k]
      BY <1>4, <2>1
    <3>3. \A m \in DOMAIN stored' : ~(m > e.msg)
      BY <1>1, <1>3
    <3> QED BY <1>3, <1>5, <2>1, <3>1, <3>2, <3>3 DEF Announced
  <2> QED BY <1>1, <1>3, <2>1, <2>2, <2>3, <2>4
<1> QED BY <1>6, <1>7 DEF FeedSound

(* ... or one has a new status, later than those before.                   *)
LEMMA MarkedSound ==
  ASSUME TalkTypes, FeedSound, NEW m \in DOMAIN stored, NEW s \in {Delivered, Deleted},
         stored[m] # Inbound, stored[m] <= s,
         stored' = [stored EXCEPT ![m] = s], UNCHANGED <<echo, keys>>,
         feed' = Append(feed, [kind |-> "update", msg |-> m, status |-> s])
  PROVE  FeedSound'
<1>1. /\ m \in Msgs /\ DOMAIN stored' = DOMAIN stored /\ stored'[m] = s
      /\ \A k \in DOMAIN stored : k # m => stored'[k] = stored[k]
      /\ \A k \in DOMAIN stored : stored[k] \in Marks
  BY MsgsAre DEF TalkTypes
<1>2. PICK e \in News : e = [kind |-> "update", msg |-> m, status |-> s]
  BY <1>1 DEF News, Marks, Delivered, Deleted
<1>3. e.kind = "update" /\ e.msg = m /\ e.status = s
  BY <1>2
<1>4. /\ DOMAIN feed = 1..Len(feed) /\ Len(feed) \in Nat /\ DOMAIN feed' = 1..(Len(feed) + 1)
      /\ \A i \in DOMAIN feed : i \in DOMAIN feed' /\ feed'[i] = feed[i] /\ feed[i] \in News
      /\ feed'[Len(feed) + 1] = e
  BY <1>2, MsgsAre, Emitted
<1>5. \A i \in DOMAIN feed : Len(feed) + 1 > i
  BY <1>4
<1>6. ASSUME NEW i \in DOMAIN feed
      PROVE  /\ feed'[i].msg \in DOMAIN stored' /\ feed'[i].status <= stored'[feed'[i].msg]
             /\ feed'[i].status = Inbound => stored'[feed'[i].msg] = Inbound
             /\ LastWord(i)' /\ (feed'[i].kind = "new" => Announced(i)')
  <2>1. /\ feed[i].msg \in DOMAIN stored /\ feed[i].status <= stored[feed[i].msg] /\ feed[i].status \in Marks
        /\ feed[i].status = Inbound => stored[feed[i].msg] = Inbound
        /\ LastWord(i) /\ (feed[i].kind = "new" => Announced(i))
    BY <1>4, <1>6 DEF FeedSound, News
  <2>2. feed'[i] = feed[i]
    BY <1>4
  <2>3. feed'[i].status <= stored'[feed'[i].msg]
    <3>1. CASE feed[i].msg = m
      <4>1. stored[m] \in Nat /\ s \in Nat /\ feed[i].status \in Nat
        BY <1>1, <2>1 DEF Marks, Delivered, Deleted
      <4>2. feed[i].status <= stored[m]
        BY <2>1, <3>1
      <4>3. feed[i].status <= s
        BY <4>1, <4>2
      <4> QED BY <1>1, <2>2, <3>1, <4>3
    <3>2. CASE feed[i].msg # m
      BY <1>1, <2>1, <2>2, <3>2
    <3> QED BY <3>1, <3>2
  <2>4. LastWord(i)'
    <3>1. CASE feed[i].msg = m
      BY <1>3, <1>4, <1>5, <2>2, <3>1 DEF LastWord
    <3>2. CASE feed[i].msg # m
      BY <1>1, <1>4, <2>1, <2>2, <3>2 DEF LastWord
    <3> QED BY <3>1, <3>2
  <2>5. ASSUME feed'[i].kind = "new"
        PROVE  Announced(i)'
    <3>1. Announced(i)
      BY <2>1, <2>2, <2>5
    <3>2. \A k \in DOMAIN feed' : feed'[k].kind = "new" => k \in DOMAIN feed
      BY <1>3, <1>4
    <3> QED BY <1>1, <1>4, <2>2, <3>1, <3>2 DEF Announced
  <2>6. feed'[i].status = Inbound => stored'[feed'[i].msg] = Inbound
    BY <1>1, <2>1, <2>2
  <2> QED BY <1>1, <2>1, <2>2, <2>3, <2>4, <2>5, <2>6
<1>7. ASSUME NEW i \in DOMAIN feed', i \notin DOMAIN feed
      PROVE  /\ feed'[i].msg \in DOMAIN stored' /\ feed'[i].status <= stored'[feed'[i].msg]
             /\ feed'[i].status = Inbound => stored'[feed'[i].msg] = Inbound
             /\ LastWord(i)' /\ (feed'[i].kind = "new" => Announced(i)')
  <2>1. feed'[i] = e
    BY <1>4, <1>7
  <2>2. s <= s /\ s # Inbound
    BY DEF Delivered, Deleted, Inbound
  <2> QED BY <1>1, <1>3, <2>1, <2>2 DEF LastWord
<1> QED BY <1>6, <1>7 DEF FeedSound

-----------------------------------------------------------------------------
(* Requests.                                                               *)
ReqsForm == [Reqs -> ReqForm]
Same(p, q) == p.kind = q.kind /\ p.at = q.at /\ p.msg = q.msg /\ p.got = q.got /\ p.next = q.next

LEMMA NoListing == <<>> \in Listings
<1>1. <<>> = [m \in {} |-> 0]
  OBVIOUS
<1>2. [m \in {} |-> 0] \in Listings
  <2>1. {} \in SUBSET Msgs /\ [m \in {} |-> 0] \in [{} -> Marks]
    OBVIOUS
  <2> QED BY <2>1, IsListing
<1> QED BY <1>1, <1>2

LEMMA IdleForm == Idle \in ReqForm /\ Idle.kind = "none" /\ Idle.at = "none"
BY NoListing, TalkConstants DEF Idle, ReqForm

LEMMA AskForm ==
  ASSUME req \in ReqsForm, NEW r \in Reqs, NEW kind \in {"reset", "older", "send", "delete"},
         NEW m \in 0..MaxMsg, req' = Ask(r, kind, m)
  PROVE  /\ req' \in ReqsForm /\ \A q \in Reqs : q # r => req'[q] = req[q]
         /\ req'[r].kind = kind /\ req'[r].at = "asked" /\ req'[r].msg = m /\ req'[r].fresh = TRUE
<1>1. PICK p : p = [Idle EXCEPT !.kind = kind, !.at = "asked", !.msg = m]
  OBVIOUS
<1>2. p = [kind |-> kind, at |-> "asked", msg |-> m, got |-> <<>>, next |-> 0, fresh |-> TRUE]
  BY <1>1 DEF Idle
<1>3. PICK none \in Listings : none = <<>>
  BY NoListing
<1>4. p = [kind |-> kind, at |-> "asked", msg |-> m, got |-> none, next |-> 0, fresh |-> TRUE]
  BY <1>2, <1>3
<1>5. 0 \in 0..MaxMsg
  BY TalkConstants
<1>6. p \in ReqForm
  BY <1>4, <1>5 DEF ReqForm
<1>7. p.kind = kind /\ p.at = "asked" /\ p.msg = m /\ p.fresh = TRUE
  BY <1>4
<1>8. req' = [req EXCEPT ![r] = p]
  BY <1>1 DEF Ask
<1> QED BY <1>6, <1>7, <1>8 DEF ReqsForm

LEMMA WithoutForm ==
  ASSUME req \in ReqsForm, NEW r \in Reqs
  PROVE  /\ Without(r) \in ReqsForm /\ Without(r)[r] = Idle
         /\ \A q \in Reqs : q # r => Without(r)[q] = req[q]
BY IdleForm DEF Without, ReqsForm

LEMMA AgesForm ==
  ASSUME NEW reqs \in ReqsForm
  PROVE  /\ Ages(reqs) \in ReqsForm
         /\ \A r \in Reqs : Same(Ages(reqs)[r], reqs[r])
         /\ \A r \in Reqs : Ages(reqs)[r].kind # "none" => ~Ages(reqs)[r].fresh
<1>1. ASSUME NEW r \in Reqs
      PROVE  /\ Ages(reqs)[r] \in ReqForm /\ Same(Ages(reqs)[r], reqs[r])
             /\ Ages(reqs)[r].kind # "none" => ~Ages(reqs)[r].fresh
  <2>1. reqs[r] \in ReqForm
    BY DEF ReqsForm
  <2>2. Ages(reqs)[r] = IF reqs[r].kind = "none" THEN reqs[r] ELSE [reqs[r] EXCEPT !.fresh = FALSE]
    BY DEF Ages
  <2> QED BY <2>1, <2>2 DEF ReqForm, Same
<1> QED BY <1>1 DEF Ages, ReqsForm

LEMMA Spoiling ==
  ASSUME NEW reqs \in ReqsForm, NEW yes \in BOOLEAN, spoilt \in BOOLEAN, Spoils(yes, reqs)
  PROVE  /\ req' \in ReqsForm /\ spoilt' \in BOOLEAN /\ \A r \in Reqs : Same(req'[r], reqs[r])
         /\ yes => spoilt' /\ \A r \in Reqs : req'[r].kind # "none" => ~req'[r].fresh
         /\ ~yes => spoilt' = spoilt /\ req' = reqs
<1>1. spoilt' = (spoilt \/ yes) /\ req' = IF yes THEN Ages(reqs) ELSE reqs
  BY DEF Spoils
<1>2. CASE yes
  BY <1>1, <1>2, AgesForm
<1>3. CASE ~yes
  BY <1>1, <1>3 DEF Same
<1> QED BY <1>2, <1>3

(* What was sound of a request stays so while statuses only go on.         *)
StatusesOnward ==
  /\ DOMAIN stored \subseteq DOMAIN stored' /\ stored' \in Seq(Marks) /\ Len(stored') <= MaxMsg
  /\ Len(stored) <= Len(stored')
  /\ \A m \in DOMAIN stored : /\ stored[m] <= stored'[m] /\ (stored[m] = Inbound <=> stored'[m] = Inbound)
                              /\ stored[m] = Deleted => stored'[m] = Deleted

LEMMA HadStays ==
  ASSUME TalkTypes, StatusesOnward, NEW list \in Listings, Had(list)
  PROVE  Had(list)'
<1>1. /\ \A m \in DOMAIN list : list[m] \in Nat /\ list[m] <= stored[m] /\ m \in DOMAIN stored
      /\ \A m \in DOMAIN list : list[m] = Inbound => stored[m] = Inbound
  BY ListingIs DEF Had, Marks
<1>2. \A m \in DOMAIN stored : stored[m] \in Nat /\ stored'[m] \in Nat
  BY MsgsAre DEF StatusesOnward, Marks
<1>3. ASSUME NEW m \in DOMAIN list
      PROVE  m \in DOMAIN stored' /\ list[m] <= stored'[m] /\ (list[m] = Inbound => stored'[m] = Inbound)
  BY <1>1, <1>2 DEF StatusesOnward
<1> QED BY <1>3 DEF Had

LEMMA RequestStays ==
  ASSUME TalkTypes, StatusesOnward, NEW p \in ReqForm, RequestSound(p), NEW q \in ReqForm, Same(q, p)
  PROVE  RequestSound(q)'
<1>1. p.got \in Listings /\ q.kind = p.kind /\ q.at = p.at /\ q.msg = p.msg /\ q.got = p.got /\ q.next = p.next
  BY DEF ReqForm, Same
<1>2. ASSUME NEW last, IsPage(p.got, p.next, last)
      PROVE  IsPage(q.got, q.next, last)'
  <2>1. Had(p.got)'
    BY <1>1, <1>2, HadStays DEF IsPage
  <2> QED BY <1>1, <1>2, <2>1 DEF IsPage
<1>3. 0..Len(stored) \subseteq 0..Len(stored')
  BY MsgsAre DEF StatusesOnward
<1>4. q.kind = "reset" /\ q.at = "read" => (\E last \in 0..Len(stored) : IsPage(q.got, q.next, last))'
  BY <1>1, <1>2, <1>3 DEF RequestSound
<1>5. q.kind = "older" /\ q.at = "read" => IsPage(q.got, q.next, q.msg - 1)'
  BY <1>1, <1>2 DEF RequestSound
<1> QED BY <1>1, <1>4, <1>5 DEF RequestSound, StatusesOnward

LEMMA StoredSame ==
  ASSUME TalkTypes, stored' = stored
  PROVE  StatusesOnward
BY MsgsAre DEF StatusesOnward, TalkTypes, Marks

LEMMA IdleSound == RequestSound(Idle)'
BY IdleForm DEF RequestSound

LEMMA ScreenStays ==
  ASSUME TalkTypes, ScreenSound, StatusesOnward, req' \in ReqsForm,
         \A q \in Reqs : RequestSound(req[q])' \/ Same(req'[q], req[q]),
         Had(shown)', keys' \subseteq DOMAIN stored', cursor' \in {0} \cup DOMAIN stored'
  PROVE  ScreenSound'
<1>1. ASSUME NEW q \in Reqs
      PROVE  RequestSound(req[q])'
  <2>1. CASE Same(req'[q], req[q])
    <3>1. PICK p \in ReqForm : p = req[q]
      BY DEF TalkTypes
    <3>2. PICK n \in ReqForm : n = req'[q]
      BY DEF ReqsForm
    <3>3. RequestSound(p) /\ Same(n, p)
      BY <2>1, <3>1, <3>2 DEF ScreenSound
    <3>4. RequestSound(n)'
      BY <3>3, RequestStays
    <3> QED BY <3>2, <3>4
  <2> QED BY <2>1
<1> QED BY <1>1 DEF ScreenSound

(* The list has messages there are.                                        *)
LEMMA ListStays ==
  ASSUME TalkTypes, ScreenSound, StatusesOnward, shown' = shown
  PROVE  Had(shown)' /\ shown' \in Listings
<1>1. PICK list \in Listings : list = shown
  BY DEF TalkTypes
<1>2. Had(list)
  BY <1>1 DEF ScreenSound
<1>3. Had(list)'
  BY <1>2, HadStays
<1> QED BY <1>1, <1>3

LEMMA ListAppended ==
  ASSUME TalkTypes, ScreenSound, stored' = stored, NEW m \in DOMAIN stored, NEW s \in Marks,
         shown' = Appended(m, s), s <= stored[m], s = Inbound => stored[m] = Inbound
  PROVE  /\ shown' \in Listings /\ Had(shown)'
         /\ DOMAIN shown' = DOMAIN shown \cup {m} /\ shown'[m] = s
         /\ \A n \in DOMAIN shown : n # m => shown'[n] = shown[n]
<1>1. /\ DOMAIN shown \subseteq Msgs /\ m \in Msgs /\ \A n \in DOMAIN shown : shown[n] \in Marks
  BY MsgsAre, ListingIs DEF TalkTypes
<1>2. /\ DOMAIN shown' = DOMAIN shown \cup {m} /\ shown'[m] = s
      /\ \A n \in DOMAIN shown : n # m => shown'[n] = shown[n]
      /\ shown' = [n \in DOMAIN shown \cup {m} |-> IF n = m THEN s ELSE shown[n]]
  BY DEF Appended, dedupeMessages
<1>3. shown' \in Listings
  BY <1>1, <1>2, IsListing
<1>4. Had(shown)'
  BY <1>2 DEF ScreenSound, Had
<1> QED BY <1>2, <1>3, <1>4

LEMMA ListPrepended ==
  ASSUME TalkTypes, ScreenSound, stored' = stored, NEW got \in Listings, Had(got), shown' = Prepended(got)
  PROVE  /\ shown' \in Listings /\ Had(shown)'
         /\ DOMAIN shown' = DOMAIN shown \cup DOMAIN got
         /\ \A n \in DOMAIN shown : shown'[n] = shown[n]
         /\ \A n \in DOMAIN got : n \notin DOMAIN shown => shown'[n] = got[n]
<1>1. /\ DOMAIN shown \subseteq Msgs /\ \A n \in DOMAIN shown : shown[n] \in Marks
      /\ DOMAIN got \subseteq Msgs /\ \A n \in DOMAIN got : got[n] \in Marks
  BY ListingIs DEF TalkTypes
<1>2. /\ DOMAIN shown' = DOMAIN shown \cup DOMAIN got
      /\ \A n \in DOMAIN shown : shown'[n] = shown[n]
      /\ \A n \in DOMAIN got : n \notin DOMAIN shown => shown'[n] = got[n]
      /\ shown' = [n \in DOMAIN shown \cup DOMAIN got |-> IF n \in DOMAIN shown THEN shown[n] ELSE got[n]]
  BY DEF Prepended, dedupeMessages
<1>3. shown' \in Listings
  BY <1>1, <1>2, IsListing
<1>4. Had(shown)'
  BY <1>2 DEF ScreenSound, Had
<1> QED BY <1>2, <1>3, <1>4

LEMMA ListMarked ==
  ASSUME TalkTypes, ScreenSound, stored' = stored, NEW m \in DOMAIN shown, NEW s \in Marks,
         shown' = [shown EXCEPT ![m] = s], s <= stored[m], s = Inbound => stored[m] = Inbound
  PROVE  /\ shown' \in Listings /\ Had(shown)'
         /\ DOMAIN shown' = DOMAIN shown /\ shown'[m] = s
         /\ \A n \in DOMAIN shown : n # m => shown'[n] = shown[n]
<1>1. /\ DOMAIN shown \subseteq Msgs /\ \A n \in DOMAIN shown : shown[n] \in Marks
  BY ListingIs DEF TalkTypes
<1>2. /\ DOMAIN shown' = DOMAIN shown /\ shown'[m] = s
      /\ \A n \in DOMAIN shown : n # m => shown'[n] = shown[n]
      /\ shown' = [n \in DOMAIN shown |-> IF n = m THEN s ELSE shown[n]]
  BY ListingIs DEF TalkTypes
<1>3. shown' \in Listings
  BY <1>1, <1>2, IsListing
<1>4. Had(shown)'
  BY <1>2 DEF ScreenSound, Had
<1> QED BY <1>2, <1>3, <1>4

LEMMA ListReloaded ==
  ASSUME stored' = stored, NEW got \in Listings, Had(got), shown' = got
  PROVE  shown' \in Listings /\ Had(shown)'
BY DEF Had

-----------------------------------------------------------------------------
(* When the list is known to be spoilt, is not shown, or is asked for, the *)
(* rest promises nothing.                                                  *)
LEMMA SpoiltTrue ==
  ASSUME spoilt', \A r \in Reqs : req'[r].kind # "none" => ~req'[r].fresh
  PROVE  ListTrue' /\ PagesTrue'
BY DEF ListTrue, PagesTrue

LEMMA AwayTrue ==
  ASSUME ~active'
  PROVE  ListTrue' /\ PagesTrue'
BY DEF ListTrue, PagesTrue

LEMMA AskedComes ==
  ASSUME NEW r \in Reqs, req'[r].kind = "reset", req'[r].at = "asked", NEW m
  PROVE  Coming(m)'
BY DEF Coming, Brings

LEMMA ComingTrue ==
  ASSUME \A m \in DOMAIN stored' : Coming(m)',
         \A r \in Reqs : DOMAIN req'[r].got \subseteq DOMAIN stored' \/ req'[r].kind # "older" \/ req'[r].at # "read"
  PROVE  ListTrue' /\ PagesTrue'
<1>1. ListTrue'
  <2>1. ListWhole'
    BY DEF ListWhole
  <2>2. ASSUME NEW first
        PROVE  Whole(first)'
    BY DEF Whole
  <2>3. Whole(cursor)'
    BY DEF Whole
  <2>4. ASSUME NEW r \in Reqs, req'[r].kind = "older"
        PROVE  Whole(req[r].msg)' /\ (req'[r].at = "read" => OlderTrue(req[r].got)')
    BY <2>4 DEF Whole, OlderTrue
  <2> QED BY <2>1, <2>3, <2>4 DEF ListTrue
<1>2. PagesTrue'
  BY DEF PagesTrue, PageTrue
<1> QED BY <1>1, <1>2

(* What was owed or coming stays so while no word of it is lost.           *)
WordKept(m) ==
  /\ UpIn(m) => UpIn(m)'
  /\ NewIn(m) => NewIn(m)'
  /\ ResponseFor(m) => ResponseFor(m)'
  /\ stored'[m] = stored[m] \/ UpIn(m)'

LEMMA OwedKept ==
  ASSUME NEW m, NEW list, WordKept(m), Owed(m, list)
  PROVE  Owed(m, list)'
BY DEF WordKept, Owed

LEMMA ComingKept ==
  ASSUME NEW m, UpIn(m) => UpIn(m)', stored'[m] = stored[m] \/ UpIn(m)', Coming(m),
         \A r \in Reqs : req[r].kind = "reset" /\ Brings(req[r], m) => Same(req'[r], req[r])
  PROVE  Coming(m)'
<1>1. PICK r \in Reqs : Brings(req[r], m)
  BY DEF Coming
<1>2. PICK q, p : q = req[r] /\ p = req'[r]
  OBVIOUS
<1>3. Brings(q, m) /\ p.kind = q.kind /\ p.at = q.at /\ p.got = q.got
  BY <1>1, <1>2 DEF Brings, Same
<1>4. Brings(p, m)'
  BY <1>3 DEF Brings, Covers, Before
<1>5. Brings(req[r], m)'
  BY <1>2, <1>4 DEF Brings, Covers, Before
<1> QED BY <1>5 DEF Coming

(* Steps that leave the list as it is: each message is as it was, or new   *)
(* and its word on the way.                                                *)
LEMMA ListUntouched ==
  ASSUME TalkTypes, ScreenSound, ListTrue, PagesTrue,
         UNCHANGED <<shown, cursor, active, spoilt>>, DOMAIN stored \subseteq DOMAIN stored',
         \A m \in DOMAIN stored : WordKept(m),
         \A m \in DOMAIN stored' : m \notin DOMAIN stored =>
           NewIn(m)' \/ (ResponseFor(m)' /\ stored'[m] = Server),
         \A r \in Reqs : req[r].kind = "reset" => req'[r] = req[r],
         \A r \in Reqs : req'[r].kind = "reset" /\ req'[r].at = "read" => req'[r] = req[r],
         \A r \in Reqs : req'[r].kind = "older" /\ req'[r].fresh =>
           /\ \/ req[r].kind = "older" /\ req[r].fresh /\ req'[r].msg = req[r].msg
              \/ req'[r].msg = cursor /\ cursor # 0
           /\ req'[r].at = "read" =>
                req'[r] = req[r] \/ \A m \in DOMAIN req'[r].got : req'[r].got[m] = stored'[m]
  PROVE  ListTrue' /\ PagesTrue'
<1>1. ASSUME NEW m \in DOMAIN stored, Coming(m)
      PROVE  Coming(m)'
  BY <1>1, ComingKept DEF Same, WordKept
<1>2. ASSUME NEW list, NEW m \in DOMAIN stored, Owed(m, list)
      PROVE  Owed(m, list)'
  BY <1>2, OwedKept
<1>3. ASSUME NEW list, DOMAIN list \subseteq DOMAIN stored, NEW m \in DOMAIN stored', m \notin DOMAIN stored
      PROVE  Owed(m, list)'
  BY <1>3 DEF Owed
<1>4. PICK list : list = shown
  OBVIOUS
<1>5. DOMAIN list \subseteq DOMAIN stored /\ shown' = list
  BY <1>4 DEF ScreenSound, Had
<1>6. ASSUME NEW m \in DOMAIN stored'
      PROVE  /\ m \in DOMAIN stored /\ Owed(m, shown) => Owed(m, shown)'
             /\ m \notin DOMAIN stored => Owed(m, shown)'
  <2>1. m \in DOMAIN stored /\ Owed(m, list) => Owed(m, list)'
    BY <1>2
  <2>2. m \notin DOMAIN stored => Owed(m, list)'
    BY <1>3, <1>5
  <2> QED BY <1>4, <1>5, <2>1, <2>2 DEF Owed
<1>7. ASSUME NEW first, Whole(first)
      PROVE  Whole(first)'
  BY <1>1, <1>6, <1>7 DEF Whole
<1>8. ListWhole => ListWhole'
  BY <1>1, <1>6 DEF ListWhole, Before
<1>9. ASSUME NEW got, OlderTrue(got), DOMAIN got \subseteq DOMAIN stored
      PROVE  OlderTrue(got)'
  BY <1>1, <1>9 DEF OlderTrue, WordKept
<1>10. ListTrue'
  <2> SUFFICES ASSUME active', ~spoilt'
               PROVE  /\ ListWhole' /\ (cursor' # 0 => Whole(cursor)')
                      /\ \A r \in Reqs : req'[r].kind = "older" /\ req'[r].fresh =>
                           Whole(req[r].msg)' /\ (req'[r].at = "read" => OlderTrue(req[r].got)')
    BY DEF ListTrue
  <2>1. ListWhole /\ (cursor # 0 => Whole(cursor))
    BY DEF ListTrue
  <2>2. PICK c : c = cursor /\ cursor' = c
    OBVIOUS
  <2>3. c # 0 => Whole(c)'
    BY <1>7, <2>1, <2>2
  <2>4. cursor' # 0 => Whole(cursor)'
    BY <2>2, <2>3 DEF Whole
  <2>5. ASSUME NEW r \in Reqs, req'[r].kind = "older", req'[r].fresh
        PROVE  Whole(req[r].msg)' /\ (req'[r].at = "read" => OlderTrue(req[r].got)')
    <3>1. PICK p, q : p = req[r] /\ q = req'[r]
      OBVIOUS
    <3>2. Whole(q.msg)'
      <4>1. CASE p.kind = "older" /\ p.fresh /\ q.msg = p.msg
        <5>1. Whole(p.msg)
          BY <3>1, <4>1 DEF ListTrue
        <5> QED BY <1>7, <4>1, <5>1
      <4>2. CASE q.msg = c /\ c # 0
        BY <2>3, <4>2
      <4> QED BY <2>2, <2>5, <3>1, <4>1, <4>2
    <3>3. q.at = "read" => OlderTrue(q.got)'
      <4>1. CASE q.at = "read" /\ q = p
        <5>1. OlderTrue(p.got)
          BY <2>5, <3>1, <4>1 DEF ListTrue
        <5>2. DOMAIN p.got \subseteq DOMAIN stored
          BY <2>5, <3>1, <4>1 DEF ScreenSound, RequestSound, IsPage, Had
        <5> QED BY <1>9, <4>1, <5>1, <5>2
      <4>2. CASE \A m \in DOMAIN q.got : q.got[m] = stored'[m]
        BY <4>2 DEF OlderTrue
      <4> QED BY <2>5, <3>1, <4>1, <4>2
    <3> QED BY <3>1, <3>2, <3>3 DEF Whole, OlderTrue
  <2> QED BY <1>8, <2>1, <2>4, <2>5
<1>11. PagesTrue'
  <2>1. ASSUME active', NEW r \in Reqs, req'[r].kind = "reset", req'[r].at = "read", req'[r].fresh \/ ~spoilt'
        PROVE  PageTrue(req[r].got)'
    <3>1. PICK got : got = req[r].got /\ req'[r].got = got
      BY <2>1
    <3>2. PageTrue(got)
      BY <2>1, <3>1 DEF PagesTrue
    <3>3. DOMAIN got \subseteq DOMAIN stored
      BY <2>1, <3>1 DEF ScreenSound, RequestSound, IsPage, Had
    <3>4. Newer(got) => Newer(got)'
      BY DEF Newer
    <3>5. \A m : Overtaken(m, got) => Overtaken(m, got)'
      BY DEF Overtaken
    <3>6. \A m : Before(m, got) => Before(m, got)'
      BY DEF Before
    <3>7. \A m \in DOMAIN stored : Owed(m, got) => Owed(m, got)'
      BY <1>2
    <3>8. \A m \in DOMAIN stored' : m \notin DOMAIN stored => Owed(m, got)'
      BY <1>3, <3>3
    <3>9. PageTrue(got)'
      BY <1>1, <3>2, <3>4, <3>5, <3>6, <3>7, <3>8 DEF PageTrue
    <3> QED BY <3>1, <3>9 DEF PageTrue, Newer, Before, Owed, Overtaken
  <2> QED BY <2>1 DEF PagesTrue
<1> QED BY <1>10, <1>11

-----------------------------------------------------------------------------
(* What the steps share.                                                   *)
LEMMA TalkTypesStay ==
  ASSUME TalkTypes, StatusesOnward, feed' \in Seq(News), echo' = echo, req' \in ReqsForm,
         active' \in BOOLEAN, fits' \in BOOLEAN, spoilt' \in BOOLEAN, active' => fits',
         shown' \in Listings, cursor' \in {0} \cup DOMAIN stored'
  PROVE  TalkTypes'
<1>1. cursor' \in 0..MaxMsg
  BY TalkConstants DEF StatusesOnward
<1> QED BY <1>1 DEF TalkTypes, StatusesOnward, ReqsForm

LEMMA FeedStays ==
  ASSUME FeedSound, UNCHANGED <<stored, feed, echo, keys>>
  PROVE  FeedSound'
BY DEF FeedSound, LastWord, Announced

LEMMA WrittenOnward ==
  ASSUME TalkTypes, NEW s \in {Inbound, Server}, Len(stored) < MaxMsg, stored' = Append(stored, s)
  PROVE  /\ StatusesOnward /\ DOMAIN stored' = DOMAIN stored \cup {Len(stored) + 1}
         /\ Len(stored) + 1 \in Msgs \ DOMAIN stored /\ s \in Marks
         /\ \A m \in DOMAIN stored : stored'[m] = stored[m]
         /\ stored'[Len(stored) + 1] = s
<1>1. s \in Marks
  BY DEF Marks, Inbound, Server
<1>2. /\ DOMAIN stored = 1..Len(stored) /\ Len(stored) \in Nat
      /\ DOMAIN stored' = 1..(Len(stored) + 1) /\ Len(stored') = Len(stored) + 1
      /\ \A m \in DOMAIN stored : stored'[m] = stored[m] /\ stored[m] \in Marks
      /\ stored'[Len(stored) + 1] = s /\ stored' \in Seq(Marks)
  BY <1>1, MsgsAre DEF TalkTypes
<1>3. DOMAIN stored' = DOMAIN stored \cup {Len(stored) + 1} /\ Len(stored) + 1 \in Msgs \ DOMAIN stored
  BY <1>2, TalkConstants DEF Msgs
<1>4. StatusesOnward
  BY <1>2, <1>3, TalkConstants DEF StatusesOnward, Marks
<1> QED BY <1>1, <1>2, <1>3, <1>4

LEMMA MarkedOnward ==
  ASSUME TalkTypes, NEW m \in DOMAIN stored, NEW s \in {Delivered, Deleted}, stored[m] # Inbound,
         stored[m] <= s, s = Deleted \/ stored[m] # Deleted, stored' = [stored EXCEPT ![m] = s]
  PROVE  /\ StatusesOnward /\ DOMAIN stored' = DOMAIN stored /\ s \in Marks /\ m \in Msgs
         /\ \A n \in DOMAIN stored : n # m => stored'[n] = stored[n]
         /\ stored'[m] = s
<1>1. s \in Marks /\ s # Inbound /\ m \in Msgs
  BY MsgsAre DEF Marks, Delivered, Deleted, Inbound
<1>2. /\ DOMAIN stored' = DOMAIN stored /\ Len(stored') = Len(stored) /\ Len(stored) <= MaxMsg
      /\ \A n \in DOMAIN stored : n # m => stored'[n] = stored[n]
      /\ stored'[m] = s /\ stored' \in Seq(Marks) /\ Len(stored) \in Nat
      /\ \A n \in DOMAIN stored : stored[n] \in Marks
  BY <1>1, MsgsAre DEF TalkTypes
<1>3. ASSUME NEW n \in DOMAIN stored
      PROVE  /\ stored[n] <= stored'[n] /\ (stored[n] = Inbound <=> stored'[n] = Inbound)
             /\ stored[n] = Deleted => stored'[n] = Deleted
  <2>1. CASE n = m
    BY <1>1, <1>2, <2>1
  <2>2. CASE n # m
    BY <1>2, <2>2 DEF Marks
  <2> QED BY <2>1, <2>2
<1>4. StatusesOnward
  BY <1>2, <1>3 DEF StatusesOnward
<1> QED BY <1>1, <1>2, <1>4

-----------------------------------------------------------------------------
(* The steps of the server.                                                *)
LEMMA ClientWritesKeeps ==
  ASSUME TalkInv, ClientWrites
  PROVE  TalkInv'
<1>1. TalkTypes /\ ScreenSound /\ FeedSound /\ ListTrue /\ PagesTrue
  BY DEF TalkInv
<1>2. PICK new : new = Len(stored) + 1
  OBVIOUS
<1>3. PICK e : e = [kind |-> "new", msg |-> new, status |-> Inbound]
  OBVIOUS
<1>4. /\ Len(stored) < MaxMsg /\ stored' = Append(stored, Inbound) /\ feed' = Append(feed, e)
      /\ UNCHANGED <<echo, req, active, fits, shown, keys, cursor, loads, spoilt>>
  BY <1>2, <1>3 DEF ClientWrites, Emit, screen
<1>5. /\ StatusesOnward /\ DOMAIN stored' = DOMAIN stored \cup {new} /\ new \in Msgs \ DOMAIN stored /\ Inbound \in Marks
      /\ \A m \in DOMAIN stored : stored'[m] = stored[m]
  BY <1>1, <1>2, <1>4, WrittenOnward
<1>6. e \in News /\ e.kind = "new" /\ e.msg = new
  BY <1>3, <1>5 DEF News
<1>7. feed' \in Seq(News) /\ \A m : (UpIn(m)' <=> UpIn(m)) /\ (NewIn(m)' <=> NewIn(m) \/ m = new)
  BY <1>1, <1>4, <1>6, Emitted, WordEmitted
<1>8. shown' \in Listings /\ Had(shown)' /\ req' \in ReqsForm
  BY <1>1, <1>4, <1>5, ListStays DEF TalkTypes, ReqsForm
<1>9. cursor' \in {0} \cup DOMAIN stored' /\ keys' \subseteq DOMAIN stored'
  BY <1>1, <1>4, <1>5 DEF ScreenSound
<1>10. TalkTypes'
  <2>1. active' \in BOOLEAN /\ fits' \in BOOLEAN /\ spoilt' \in BOOLEAN /\ (active' => fits')
    BY <1>1, <1>4 DEF TalkTypes
  <2> QED BY <1>1, <1>4, <1>5, <1>7, <1>8, <1>9, <2>1, TalkTypesStay
<1>11. ScreenSound'
  <2>1. \A q \in Reqs : Same(req'[q], req[q])
    BY <1>4 DEF Same
  <2> QED BY <1>1, <1>5, <1>8, <1>9, <2>1, ScreenStays
<1>12. FeedSound'
  BY <1>1, <1>2, <1>3, <1>4, WrittenSound
<1>13. ListTrue' /\ PagesTrue'
  <2>1. \A m \in DOMAIN stored : WordKept(m)
    BY <1>4, <1>5, <1>7 DEF WordKept, ResponseFor
  <2>2. \A m \in DOMAIN stored' : m \notin DOMAIN stored => NewIn(m)'
    BY <1>5, <1>7
  <2>3. \A r \in Reqs : req[r].kind = "older" /\ req[r].fresh => req'[r] = req[r]
    BY <1>4
  <2> QED BY <1>1, <1>4, <1>5, <2>1, <2>2, ListUntouched
<1> QED BY <1>10, <1>11, <1>12, <1>13 DEF TalkInv

LEMMA AcknowledgedKeeps ==
  ASSUME TalkInv, NEW m \in Msgs, Acknowledged(m)
  PROVE  TalkInv'
<1>1. TalkTypes /\ ScreenSound /\ FeedSound /\ ListTrue /\ PagesTrue
  BY DEF TalkInv
<1>2. PICK e : e = [kind |-> "update", msg |-> m, status |-> Delivered]
  OBVIOUS
<1>3. /\ m \in DOMAIN stored /\ stored[m] = Server
      /\ stored' = [stored EXCEPT ![m] = Delivered] /\ feed' = Append(feed, e)
      /\ UNCHANGED <<echo, req, active, fits, shown, keys, cursor, loads, spoilt>>
  BY <1>2 DEF Acknowledged, Emit, screen
<1>4. stored[m] # Inbound /\ stored[m] <= Delivered /\ stored[m] # Deleted /\ Delivered \in {Delivered, Deleted}
  BY <1>3 DEF Inbound, Server, Delivered, Deleted
<1>5. /\ StatusesOnward /\ DOMAIN stored' = DOMAIN stored /\ Delivered \in Marks
      /\ \A n \in DOMAIN stored : n # m => stored'[n] = stored[n]
  BY <1>1, <1>3, <1>4, MarkedOnward
<1>6. e \in News /\ e.kind = "update" /\ e.msg = m
  BY <1>2, <1>5 DEF News
<1>7. feed' \in Seq(News) /\ \A n : (UpIn(n)' <=> UpIn(n) \/ n = m) /\ (NewIn(n)' <=> NewIn(n))
  BY <1>1, <1>3, <1>6, Emitted, WordEmitted
<1>8. shown' \in Listings /\ Had(shown)' /\ req' \in ReqsForm
  BY <1>1, <1>3, <1>5, ListStays DEF TalkTypes, ReqsForm
<1>9. cursor' \in {0} \cup DOMAIN stored' /\ keys' \subseteq DOMAIN stored'
  BY <1>1, <1>3, <1>5 DEF ScreenSound
<1>10. TalkTypes'
  <2>1. active' \in BOOLEAN /\ fits' \in BOOLEAN /\ spoilt' \in BOOLEAN /\ (active' => fits')
    BY <1>1, <1>3 DEF TalkTypes
  <2> QED BY <1>1, <1>3, <1>5, <1>7, <1>8, <1>9, <2>1, TalkTypesStay
<1>11. ScreenSound'
  <2>1. \A q \in Reqs : Same(req'[q], req[q])
    BY <1>3 DEF Same
  <2> QED BY <1>1, <1>5, <1>8, <1>9, <2>1, ScreenStays
<1>12. FeedSound'
  BY <1>1, <1>2, <1>3, <1>4, MarkedSound
<1>13. ListTrue' /\ PagesTrue'
  <2>1. \A n \in DOMAIN stored : WordKept(n)
    BY <1>3, <1>5, <1>7 DEF WordKept, ResponseFor
  <2> QED BY <1>1, <1>3, <1>5, <2>1, ListUntouched
<1> QED BY <1>10, <1>11, <1>12, <1>13 DEF TalkInv

LEMMA PageRead ==
  ASSUME TalkTypes, NEW before \in {0} \cup DOMAIN stored, NEW list, NEW next,
         list = listMessagesByChat(before).list, next = listMessagesByChat(before).next
  PROVE  \E last \in 0..Len(stored) :
           /\ last = IF before = 0 THEN Len(stored) ELSE before - 1
           /\ list \in Listings /\ next \in 0..MaxMsg /\ IsPage(list, next, last)
           /\ \A m \in DOMAIN list : list[m] = stored[m]
           /\ \A m \in 1..last : Before(m, list) \/ m \in DOMAIN list
<1>1. /\ Len(stored) \in Nat /\ DOMAIN stored = 1..Len(stored) /\ DOMAIN stored \subseteq Msgs
      /\ \A m \in DOMAIN stored : stored[m] \in Marks
  BY MsgsAre
<1>2. PICK last \in 0..Len(stored) : last = IF before = 0 THEN Len(stored) ELSE before - 1
  <2>1. CASE before = 0
    <3>1. Len(stored) \in 0..Len(stored)
      BY <1>1
    <3> QED BY <2>1, <3>1
  <2>2. CASE before # 0
    <3>1. before - 1 \in 0..Len(stored)
      BY <1>1, <2>2
    <3> QED BY <2>2, <3>1
  <2> QED BY <2>1, <2>2
<1>3. PICK first : first = PageFrom(last)
  OBVIOUS
<1>4. list = [m \in first..last |-> stored[m]] /\ next = IF last >= PageLen THEN first ELSE 0
  <2>1. listMessagesByChat(before)
          = [list |-> [m \in first..last |-> stored[m]], next |-> IF last >= PageLen THEN first ELSE 0]
    BY <1>2, <1>3 DEF listMessagesByChat, PageFrom
  <2> QED BY <2>1
<1>5. first \in Nat \ {0} /\ last \in Nat /\ (last >= 1 => first <= last)
  <2>1. last \in Nat
    BY <1>1
  <2>2. PageFrom(last) \in Nat \ {0} /\ (last >= 1 => PageFrom(last) <= last)
    BY <2>1, TalkConstants DEF PageFrom
  <2> QED BY <1>3, <2>1, <2>2
<1>6. first..last \subseteq DOMAIN stored
  BY <1>1, <1>5
<1>7. list \in Listings
  <2>1. first..last \in SUBSET Msgs /\ list \in [first..last -> Marks]
    BY <1>1, <1>4, <1>6
  <2> QED BY <2>1, IsListing
<1>8. next \in {0} \cup DOMAIN list /\ (next # 0 => next = first)
  BY <1>4, <1>5, TalkConstants
<1>9. Had(list)
  <2>1. \A m \in DOMAIN list : m \in DOMAIN stored /\ list[m] = stored[m] /\ stored[m] <= stored[m]
    BY <1>1, <1>4, <1>6 DEF Marks
  <2> QED BY <2>1 DEF Had
<1>10. ASSUME NEW m \in 1..last
       PROVE  Before(m, list) \/ m \in DOMAIN list
  <2>1. m < first => first \in DOMAIN list /\ \A n \in DOMAIN list : m < n
    BY <1>4, <1>5, <1>10
  <2> QED BY <1>4, <1>5, <1>10, <2>1 DEF Before
<1>11. next \in 0..MaxMsg
  BY <1>1, <1>4, <1>6, <1>8, TalkConstants DEF Msgs
<1> QED BY <1>2, <1>3, <1>4, <1>7, <1>8, <1>9, <1>10, <1>11 DEF IsPage

LEMMA ServePageKeeps ==
  ASSUME TalkInv, NEW r \in Reqs, ServePage(r)
  PROVE  TalkInv'
<1>1. TalkTypes /\ ScreenSound /\ FeedSound /\ ListTrue /\ PagesTrue
  BY DEF TalkInv
<1>2. PICK q : q = req[r]
  OBVIOUS
<1>3. PICK list, next : list = listMessagesByChat(q.msg).list /\ next = listMessagesByChat(q.msg).next
  OBVIOUS
<1>4. /\ q.at = "asked" /\ q.kind \in {"reset", "older"}
      /\ req' = [req EXCEPT ![r].at = "read", ![r].got = list, ![r].next = next]
      /\ UNCHANGED <<stored, feed, echo, active, fits, shown, keys, cursor, loads, spoilt>>
  BY <1>2, <1>3 DEF ServePage, server, screen
<1>5. q.msg \in {0} \cup DOMAIN stored /\ (q.kind = "reset" <=> q.msg = 0)
  <2>1. RequestSound(q) /\ 0 \notin DOMAIN stored
    BY <1>1, <1>2, MsgsAre DEF ScreenSound, Msgs
  <2> QED BY <1>4, <2>1 DEF RequestSound
<1>6. PICK last \in 0..Len(stored) :
           /\ last = IF q.msg = 0 THEN Len(stored) ELSE q.msg - 1
           /\ list \in Listings /\ next \in 0..MaxMsg /\ IsPage(list, next, last)
           /\ \A m \in DOMAIN list : list[m] = stored[m]
           /\ \A m \in 1..last : Before(m, list) \/ m \in DOMAIN list
  <2>1. PICK before : before = q.msg
    OBVIOUS
  <2>2. before \in {0} \cup DOMAIN stored
    BY <1>5, <2>1
  <2>3. list = listMessagesByChat(before).list /\ next = listMessagesByChat(before).next
    BY <1>3, <2>1
  <2>4. \E last \in 0..Len(stored) :
           /\ last = IF before = 0 THEN Len(stored) ELSE before - 1
           /\ list \in Listings /\ next \in 0..MaxMsg /\ IsPage(list, next, last)
           /\ \A m \in DOMAIN list : list[m] = stored[m]
           /\ \A m \in 1..last : Before(m, list) \/ m \in DOMAIN list
    BY <1>1, <2>2, <2>3, PageRead
  <2> QED BY <2>1, <2>4
<1>7. req \in ReqsForm
  BY <1>1 DEF TalkTypes, ReqsForm
<1>8. /\ req' \in ReqsForm /\ \A p \in Reqs : p # r => req'[p] = req[p]
      /\ req'[r].kind = q.kind /\ req'[r].at = "read" /\ req'[r].msg = q.msg
      /\ req'[r].got = list /\ req'[r].next = next /\ req'[r].fresh = q.fresh
  BY <1>2, <1>4, <1>6, <1>7 DEF ReqsForm, ReqForm
<1>9. StatusesOnward /\ shown' \in Listings /\ Had(shown)'
  BY <1>1, <1>4, StoredSame, ListStays
<1>10. cursor' \in {0} \cup DOMAIN stored' /\ keys' \subseteq DOMAIN stored'
  BY <1>1, <1>4 DEF ScreenSound
<1>11. TalkTypes'
  <2>1. /\ active' \in BOOLEAN /\ fits' \in BOOLEAN /\ spoilt' \in BOOLEAN /\ (active' => fits')
        /\ feed' \in Seq(News)
    BY <1>1, <1>4 DEF TalkTypes
  <2> QED BY <1>1, <1>4, <1>8, <1>9, <1>10, <2>1, TalkTypesStay
<1>12. ScreenSound'
  <2>1. PICK n : n = req'[r]
    OBVIOUS
  <2>2. IsPage(n.got, n.next, last)'
    BY <1>4, <1>6, <1>8, <2>1 DEF IsPage, Had
  <2>3. /\ n.kind = q.kind /\ n.at = "read" /\ n.msg = q.msg
        /\ n.kind = "older" => n.msg \in DOMAIN stored' /\ last = n.msg - 1
        /\ last \in 0..Len(stored')
    BY <1>4, <1>5, <1>6, <1>8, <2>1
  <2>4. RequestSound(n)'
    BY <1>4, <2>2, <2>3 DEF RequestSound
  <2>5. ASSUME NEW p \in Reqs
        PROVE  RequestSound(req[p])' \/ Same(req'[p], req[p])
    BY <1>8, <2>1, <2>4 DEF Same
  <2> QED BY <1>1, <1>8, <1>9, <1>10, <2>5, ScreenStays
<1>13. FeedSound'
  BY <1>1, <1>4, FeedStays
<1>14. CASE q.kind = "reset"
  <2>1. ASSUME NEW m \in DOMAIN stored'
        PROVE  Coming(m)'
    <3>1. m \in 1..last /\ m \in DOMAIN stored
      BY <1>1, <1>4, <1>5, <1>6, <1>14, <2>1, MsgsAre
    <3>2. Before(m, list) \/ (m \in DOMAIN list /\ list[m] = stored'[m])
      BY <1>4, <1>6, <3>1
    <3>3. Covers(list, m)'
      BY <3>2 DEF Covers, Before
    <3>4. Covers(req[r].got, m)'
      BY <1>8, <3>3 DEF Covers, Before
    <3> QED BY <1>8, <1>14, <3>4 DEF Coming, Brings
  <2>2. \A p \in Reqs : req'[p].kind = "older" /\ req'[p].at = "read" => DOMAIN req'[p].got \subseteq DOMAIN stored'
    BY <1>12 DEF ScreenSound, RequestSound, IsPage, Had
  <2>3. ListTrue' /\ PagesTrue'
    BY <2>1, <2>2, ComingTrue
  <2> QED BY <1>11, <1>12, <1>13, <2>3 DEF TalkInv
<1>15. CASE q.kind = "older"
  <2>1. \A m \in DOMAIN stored : WordKept(m)
    BY <1>2, <1>4, <1>8, <1>15 DEF WordKept, UpIn, NewIn, ResponseFor
  <2>2. \A p \in Reqs : req[p].kind = "reset" => req'[p] = req[p]
    BY <1>2, <1>8, <1>15
  <2>3. \A p \in Reqs : req'[p].kind = "reset" /\ req'[p].at = "read" => req'[p] = req[p]
    BY <1>2, <1>8, <1>15
  <2>4. ASSUME NEW p \in Reqs, req'[p].kind = "older", req'[p].fresh
        PROVE  /\ req[p].kind = "older" /\ req[p].fresh /\ req'[p].msg = req[p].msg
               /\ req'[p] = req[p] \/ \A m \in DOMAIN req'[p].got : req'[p].got[m] = stored'[m]
    <3>1. CASE p = r
      <4>1. req[r].kind = "older" /\ req[r].fresh /\ req'[r].msg = req[r].msg
        BY <1>2, <1>8, <1>15, <2>4, <3>1
      <4>2. \A m \in DOMAIN req'[r].got : req'[r].got[m] = stored'[m]
        <5>1. \A m \in DOMAIN list : list[m] = stored'[m]
          BY <1>4, <1>6
        <5> QED BY <1>8, <5>1
      <4> QED BY <3>1, <4>1, <4>2
    <3>2. CASE p # r
      BY <1>8, <2>4, <3>2
    <3> QED BY <3>1, <3>2
  <2>5. ListTrue' /\ PagesTrue'
    BY <1>1, <1>4, <2>1, <2>2, <2>3, <2>4, ListUntouched
  <2> QED BY <1>11, <1>12, <1>13, <2>5 DEF TalkInv
<1> QED BY <1>4, <1>14, <1>15

LEMMA ServeSendKeeps ==
  ASSUME TalkInv, NEW r \in Reqs, ServeSend(r)
  PROVE  TalkInv'
<1>1. TalkTypes /\ ScreenSound /\ FeedSound /\ ListTrue /\ PagesTrue
  BY DEF TalkInv
<1>2. PICK new : new = Len(stored) + 1
  OBVIOUS
<1>3. PICK e : e = [kind |-> "new", msg |-> new, status |-> Server]
  OBVIOUS
<1>4. /\ req[r].at = "asked" /\ req[r].kind = "send"
      /\ Len(stored) < MaxMsg /\ stored' = Append(stored, Server)
      /\ feed' = Append(feed, e) \/ (~echo /\ feed' = feed)
      /\ req' = [req EXCEPT ![r].at = "read", ![r].msg = new]
      /\ UNCHANGED <<echo, active, fits, shown, keys, cursor, loads, spoilt>>
  BY <1>1, <1>2, <1>3 DEF ServeSend, Emit, screen, TalkTypes
<1>5. /\ StatusesOnward /\ DOMAIN stored' = DOMAIN stored \cup {new} /\ new \in Msgs \ DOMAIN stored /\ Server \in Marks
      /\ \A m \in DOMAIN stored : stored'[m] = stored[m]
      /\ stored'[new] = Server
  BY <1>1, <1>2, <1>4, WrittenOnward
<1>6. e \in News /\ e.kind = "new" /\ e.msg = new
  BY <1>3, <1>5 DEF News
<1>7. feed' \in Seq(News) /\ \A m : (UpIn(m) => UpIn(m)') /\ (NewIn(m) => NewIn(m)')
  <2>1. CASE feed' = Append(feed, e)
    BY <1>1, <1>6, <2>1, Emitted, WordEmitted
  <2>2. CASE feed' = feed
    BY <1>1, <2>2 DEF TalkTypes, UpIn, NewIn
  <2> QED BY <1>4, <2>1, <2>2
<1>8. shown' \in Listings /\ Had(shown)'
  BY <1>1, <1>4, <1>5, ListStays
<1>9. /\ req' \in ReqsForm /\ \A p \in Reqs : p # r => req'[p] = req[p]
      /\ req'[r].kind = "send" /\ req'[r].at = "read" /\ req'[r].msg = new
  <2>1. new \in 0..MaxMsg /\ req \in [Reqs -> ReqForm]
    BY <1>1, <1>5, TalkConstants DEF Msgs, TalkTypes
  <2> QED BY <1>4, <2>1 DEF ReqsForm, ReqForm
<1>10. cursor' \in {0} \cup DOMAIN stored' /\ keys' \subseteq DOMAIN stored'
  BY <1>1, <1>4, <1>5 DEF ScreenSound
<1>11. TalkTypes'
  <2>1. active' \in BOOLEAN /\ fits' \in BOOLEAN /\ spoilt' \in BOOLEAN /\ (active' => fits')
    BY <1>1, <1>4 DEF TalkTypes
  <2> QED BY <1>1, <1>4, <1>5, <1>7, <1>8, <1>9, <1>10, <2>1, TalkTypesStay
<1>12. ScreenSound'
  <2>1. stored'[new] # Inbound /\ new \in DOMAIN stored'
    BY <1>5 DEF Server, Inbound
  <2>2. RequestSound(req[r])'
    BY <1>9, <2>1 DEF RequestSound
  <2>3. \A p \in Reqs : RequestSound(req[p])' \/ Same(req'[p], req[p])
    BY <1>9, <2>2 DEF Same
  <2> QED BY <1>1, <1>5, <1>8, <1>9, <1>10, <2>3, ScreenStays
<1>13. FeedSound'
  BY <1>1, <1>2, <1>3, <1>4, WrittenSound
<1>14. ListTrue' /\ PagesTrue'
  <2>1. \A m \in DOMAIN stored : WordKept(m)
    BY <1>4, <1>5, <1>7, <1>9 DEF WordKept, ResponseFor
  <2>2. \A m \in DOMAIN stored' : m \notin DOMAIN stored => ResponseFor(m)' /\ stored'[m] = Server
    BY <1>5, <1>9 DEF ResponseFor
  <2>3. \A p \in Reqs : p # r => req'[p] = req[p]
    BY <1>9
  <2>4. req[r].kind # "reset" /\ req'[r].kind # "reset" /\ req'[r].kind # "older"
    BY <1>4, <1>9
  <2> QED BY <1>1, <1>4, <1>5, <2>1, <2>2, <2>3, <2>4, ListUntouched
<1> QED BY <1>11, <1>12, <1>13, <1>14 DEF TalkInv

LEMMA ServeDeleteKeeps ==
  ASSUME TalkInv, NEW r \in Reqs, ServeDelete(r)
  PROVE  TalkInv'
<1>1. TalkTypes /\ ScreenSound /\ FeedSound /\ ListTrue /\ PagesTrue
  BY DEF TalkInv
<1>2. PICK m : m = req[r].msg
  OBVIOUS
<1>3. PICK e : e = [kind |-> "update", msg |-> m, status |-> Deleted]
  OBVIOUS
<1>4. /\ req[r].at = "asked" /\ req[r].kind = "delete"
      /\ stored' = [stored EXCEPT ![m] = Deleted] /\ feed' = Append(feed, e)
      /\ req' = [req EXCEPT ![r].at = "read"]
      /\ UNCHANGED <<echo, active, fits, shown, keys, cursor, loads, spoilt>>
  BY <1>2, <1>3 DEF ServeDelete, Emit, screen
<1>5. m \in DOMAIN stored /\ stored[m] # Inbound /\ stored[m] <= Deleted /\ Deleted \in {Delivered, Deleted}
  <2>1. m \in DOMAIN stored /\ stored[m] # Inbound
    BY <1>1, <1>2, <1>4 DEF ScreenSound, RequestSound
  <2>2. stored[m] \in Marks
    BY <1>1, <2>1, MsgsAre
  <2> QED BY <2>1, <2>2 DEF Marks, Deleted
<1>6. /\ StatusesOnward /\ DOMAIN stored' = DOMAIN stored /\ Deleted \in Marks /\ m \in Msgs
      /\ \A n \in DOMAIN stored : n # m => stored'[n] = stored[n]
      /\ stored'[m] = Deleted
  BY <1>1, <1>4, <1>5, MarkedOnward
<1>7. e \in News /\ e.kind = "update" /\ e.msg = m
  BY <1>3, <1>6 DEF News
<1>8. feed' \in Seq(News) /\ \A n : (UpIn(n)' <=> UpIn(n) \/ n = m) /\ (NewIn(n)' <=> NewIn(n))
  BY <1>1, <1>4, <1>7, Emitted, WordEmitted
<1>9. shown' \in Listings /\ Had(shown)'
  BY <1>1, <1>4, <1>6, ListStays
<1>10. /\ req' \in ReqsForm /\ \A p \in Reqs : p # r => req'[p] = req[p]
       /\ req'[r].kind = "delete" /\ req'[r].at = "read" /\ req'[r].msg = m
  <2>1. req \in [Reqs -> ReqForm]
    BY <1>1 DEF TalkTypes
  <2> QED BY <1>2, <1>4, <2>1 DEF ReqsForm, ReqForm
<1>11. cursor' \in {0} \cup DOMAIN stored' /\ keys' \subseteq DOMAIN stored'
  BY <1>1, <1>4, <1>6 DEF ScreenSound
<1>12. TalkTypes'
  <2>1. active' \in BOOLEAN /\ fits' \in BOOLEAN /\ spoilt' \in BOOLEAN /\ (active' => fits')
    BY <1>1, <1>4 DEF TalkTypes
  <2> QED BY <1>1, <1>4, <1>6, <1>8, <1>9, <1>10, <1>11, <2>1, TalkTypesStay
<1>13. ScreenSound'
  <2>1. stored'[m] # Inbound /\ m \in DOMAIN stored'
    BY <1>5, <1>6 DEF Deleted, Inbound
  <2>2. RequestSound(req[r])'
    BY <1>6, <1>10, <2>1 DEF RequestSound
  <2>3. \A p \in Reqs : RequestSound(req[p])' \/ Same(req'[p], req[p])
    BY <1>10, <2>2 DEF Same
  <2> QED BY <1>1, <1>6, <1>9, <1>10, <1>11, <2>3, ScreenStays
<1>14. FeedSound'
  BY <1>1, <1>3, <1>4, <1>5, MarkedSound
<1>15. ListTrue' /\ PagesTrue'
  <2>1. \A n \in DOMAIN stored : WordKept(n)
    BY <1>4, <1>6, <1>8, <1>10 DEF WordKept, ResponseFor
  <2>3. \A p \in Reqs : p # r => req'[p] = req[p]
    BY <1>10
  <2>4. req[r].kind # "reset" /\ req'[r].kind # "reset" /\ req'[r].kind # "older"
    BY <1>4, <1>10
  <2> QED BY <1>1, <1>4, <1>6, <2>1, <2>3, <2>4, ListUntouched
<1> QED BY <1>12, <1>13, <1>14, <1>15 DEF TalkInv

-----------------------------------------------------------------------------
(* The steps of the user.                                                  *)
LEMMA AskKeeps ==
  ASSUME TalkInv, NEW r \in Reqs, NEW kind \in {"reset", "older", "send", "delete"}, NEW m \in 0..MaxMsg,
         req' = Ask(r, kind, m), UNCHANGED <<stored, feed, echo, keys, fits, spoilt>>,
         kind = "reset" => m = 0,
         kind \in {"older", "delete"} => m \in DOMAIN stored,
         kind = "delete" => stored[m] # Inbound,
         active' \in BOOLEAN, active' => fits,
         shown' \in Listings, Had(shown)', cursor' \in {0} \cup DOMAIN stored
  PROVE  /\ TalkTypes' /\ ScreenSound' /\ FeedSound'
         /\ \A q \in Reqs : q # r => req'[q] = req[q]
         /\ req'[r].kind = kind /\ req'[r].at = "asked" /\ req'[r].msg = m /\ req'[r].fresh = TRUE
<1>1. TalkTypes /\ ScreenSound /\ FeedSound
  BY DEF TalkInv
<1>2. req \in ReqsForm
  BY <1>1 DEF TalkTypes, ReqsForm
<1>3. /\ req' \in ReqsForm /\ \A q \in Reqs : q # r => req'[q] = req[q]
      /\ req'[r].kind = kind /\ req'[r].at = "asked" /\ req'[r].msg = m /\ req'[r].fresh = TRUE
  BY <1>2, AskForm
<1>4. StatusesOnward
  BY <1>1, StoredSame
<1>5. RequestSound(req[r])'
  BY <1>3 DEF RequestSound
<1>6. \A q \in Reqs : RequestSound(req[q])' \/ Same(req'[q], req[q])
  BY <1>3, <1>5 DEF Same
<1>7. TalkTypes'
  <2>1. fits' \in BOOLEAN /\ spoilt' \in BOOLEAN /\ (active' => fits') /\ feed' \in Seq(News)
    BY <1>1 DEF TalkTypes
  <2> QED BY <1>1, <1>3, <1>4, <2>1, TalkTypesStay
<1>8. ScreenSound'
  <2>1. keys' \subseteq DOMAIN stored'
    BY <1>1 DEF ScreenSound
  <2> QED BY <1>1, <1>3, <1>4, <1>6, <2>1, ScreenStays
<1>9. FeedSound'
  BY <1>1, FeedStays
<1> QED BY <1>3, <1>7, <1>8, <1>9

(* The whole list is on its way.                                           *)
LEMMA ReloadTrue ==
  ASSUME ScreenSound', NEW r \in Reqs, req'[r].kind = "reset", req'[r].at = "asked"
  PROVE  ListTrue' /\ PagesTrue'
<1>1. \A m : Coming(m)'
  BY AskedComes
<1>2. \A q \in Reqs : req'[q].kind = "older" /\ req'[q].at = "read" => DOMAIN req'[q].got \subseteq DOMAIN stored'
  BY DEF ScreenSound, RequestSound, IsPage, Had
<1> QED BY <1>1, <1>2, ComingTrue

LEMMA SelectKeeps ==
  ASSUME TalkInv, NEW r \in Reqs, Select(r)
  PROVE  TalkInv'
<1>1. /\ fits /\ active' = TRUE /\ cursor' = 0 /\ req' = Ask(r, "reset", 0)
      /\ UNCHANGED <<stored, feed, echo, fits, shown, keys, spoilt>>
  BY DEF Select, server
<1>2. shown' \in Listings /\ Had(shown)'
  BY <1>1, StoredSame, ListStays DEF TalkInv
<1>3. /\ TalkTypes' /\ ScreenSound' /\ FeedSound'
      /\ req'[r].kind = "reset" /\ req'[r].at = "asked"
  <2>1. 0 \in 0..MaxMsg
    BY TalkConstants
  <2> QED BY <1>1, <1>2, <2>1, AskKeeps
<1> QED BY <1>3, ReloadTrue DEF TalkInv

LEMMA SwitchTabKeeps ==
  ASSUME TalkInv, SwitchTab
  PROVE  TalkInv'
<1>1. TalkTypes /\ ScreenSound /\ FeedSound
  BY DEF TalkInv
<1>2. /\ active' = FALSE /\ fits' = ~fits
      /\ UNCHANGED <<stored, feed, echo, req, shown, keys, cursor, spoilt>>
  BY DEF SwitchTab, server
<1>3. StatusesOnward /\ shown' \in Listings /\ Had(shown)'
  BY <1>1, <1>2, StoredSame, ListStays
<1>4. /\ cursor' \in {0} \cup DOMAIN stored' /\ keys' \subseteq DOMAIN stored' /\ req' \in ReqsForm
      /\ feed' \in Seq(News) /\ fits' \in BOOLEAN /\ spoilt' \in BOOLEAN
  BY <1>1, <1>2 DEF ScreenSound, TalkTypes, ReqsForm
<1>5. TalkTypes'
  BY <1>1, <1>2, <1>3, <1>4, TalkTypesStay
<1>6. ScreenSound'
  <2>1. \A q \in Reqs : Same(req'[q], req[q])
    BY <1>2 DEF Same
  <2> QED BY <1>1, <1>3, <1>4, <2>1, ScreenStays
<1>7. FeedSound'
  BY <1>1, <1>2, FeedStays
<1> QED BY <1>2, <1>5, <1>6, <1>7, AwayTrue DEF TalkInv

(* An older page, a sending or a deletion is asked for.                    *)
LEMMA AskUntouched ==
  ASSUME TalkInv, NEW r \in Reqs, NEW kind \in {"older", "send", "delete"}, NEW m \in 0..MaxMsg, Free(r),
         req' = Ask(r, kind, m), UNCHANGED <<server, screen, spoilt>>,
         kind \in {"older", "delete"} => m \in DOMAIN stored,
         kind = "delete" => stored[m] # Inbound,
         kind = "older" => m = cursor /\ cursor # 0
  PROVE  TalkInv'
<1>1. TalkTypes /\ ScreenSound /\ FeedSound /\ ListTrue /\ PagesTrue
  BY DEF TalkInv
<1>2. UNCHANGED <<stored, feed, echo, active, fits, shown, keys, cursor, spoilt>>
  BY DEF server, screen
<1>3. shown' \in Listings /\ Had(shown)'
  BY <1>1, <1>2, StoredSame, ListStays
<1>4. /\ TalkTypes' /\ ScreenSound' /\ FeedSound'
      /\ \A q \in Reqs : q # r => req'[q] = req[q]
      /\ req'[r].kind = kind /\ req'[r].at = "asked" /\ req'[r].msg = m /\ req'[r].fresh = TRUE
  <2>1. active' \in BOOLEAN /\ (active' => fits) /\ cursor' \in {0} \cup DOMAIN stored
    BY <1>1, <1>2 DEF TalkTypes, ScreenSound
  <2> QED BY <1>2, <1>3, <2>1, AskKeeps
<1>5. req[r].kind = "none"
  BY DEF Free
<1>6. \A n \in DOMAIN stored : WordKept(n)
  BY <1>2, <1>4, <1>5 DEF WordKept, UpIn, NewIn, ResponseFor
<1>7. ListTrue' /\ PagesTrue'
  <2>1. \A p \in Reqs : req[p].kind = "reset" => req'[p] = req[p]
    BY <1>4, <1>5
  <2>2. \A p \in Reqs : req'[p].kind = "reset" /\ req'[p].at = "read" => req'[p] = req[p]
    BY <1>4
  <2>3. ASSUME NEW p \in Reqs, req'[p].kind = "older" /\ req'[p].fresh
        PROVE  /\ \/ req[p].kind = "older" /\ req[p].fresh /\ req'[p].msg = req[p].msg
                  \/ req'[p].msg = cursor /\ cursor # 0
               /\ req'[p].at = "read" => req'[p] = req[p]
    BY <1>4, <2>3
  <2> QED BY <1>1, <1>2, <1>6, <2>1, <2>2, <2>3, ListUntouched
<1> QED BY <1>4, <1>7 DEF TalkInv

LEMMA handleLoadMoreMessagesKeeps ==
  ASSUME TalkInv, NEW r \in Reqs, handleLoadMoreMessages(r)
  PROVE  TalkInv'
<1>1. PICK c : c = cursor
  OBVIOUS
<1>2. /\ c # 0 /\ Free(r) /\ req' = Ask(r, "older", c) /\ UNCHANGED <<server, screen, spoilt>>
  BY <1>1 DEF handleLoadMoreMessages, FirstFree
<1>3. c \in DOMAIN stored /\ c \in 0..MaxMsg
  BY <1>1, <1>2 DEF TalkInv, ScreenSound, TalkTypes
<1> QED BY <1>1, <1>2, <1>3, AskUntouched

LEMMA SendClickedKeeps ==
  ASSUME TalkInv, NEW r \in Reqs, SendClicked(r)
  PROVE  TalkInv'
<1>1. /\ Free(r) /\ req' = Ask(r, "send", 0) /\ UNCHANGED <<server, screen, spoilt>>
  BY DEF SendClicked, FirstFree
<1>2. 0 \in 0..MaxMsg
  BY TalkConstants
<1> QED BY <1>1, <1>2, AskUntouched

LEMMA confirmDeleteMessageKeeps ==
  ASSUME TalkInv, NEW r \in Reqs, NEW m \in Msgs, confirmDeleteMessage(r, m)
  PROVE  TalkInv'
<1>1. /\ Free(r) /\ m \in DOMAIN shown /\ shown[m] \in {Server, Delivered}
      /\ req' = Ask(r, "delete", m) /\ UNCHANGED <<server, screen, spoilt>>
  BY DEF confirmDeleteMessage, FirstFree
<1>2. m \in DOMAIN stored /\ shown[m] <= stored[m]
  BY <1>1 DEF TalkInv, ScreenSound, Had
<1>3. stored[m] # Inbound
  BY <1>1, <1>2 DEF Server, Delivered, Inbound
<1>4. m \in 0..MaxMsg
  BY TalkConstants DEF Msgs
<1> QED BY <1>1, <1>2, <1>3, <1>4, AskUntouched

-----------------------------------------------------------------------------
(* Responses and events that are lost.                                     *)
LEMMA handleErrorKeeps ==
  ASSUME TalkInv, NEW r \in Reqs, handleError(r)
  PROVE  TalkInv'
<1>1. TalkTypes /\ ScreenSound /\ FeedSound
  BY DEF TalkInv
<1>2. /\ Spoils(TRUE, Without(r)) /\ UNCHANGED <<stored, feed, echo, fits, shown, keys>>
      /\ active' = active \/ active' = FALSE
      /\ cursor' = cursor \/ cursor' = 0
  BY DEF handleError, server
<1>3. PICK reqs : reqs = Without(r)
  OBVIOUS
<1>4. reqs \in ReqsForm /\ reqs[r] = Idle /\ \A q \in Reqs : q # r => reqs[q] = req[q]
  BY <1>1, <1>3, WithoutForm DEF TalkTypes, ReqsForm
<1>5. /\ req' \in ReqsForm /\ spoilt' \in BOOLEAN /\ \A q \in Reqs : Same(req'[q], reqs[q])
      /\ spoilt' /\ \A q \in Reqs : req'[q].kind # "none" => ~req'[q].fresh
  <2>1. spoilt \in BOOLEAN /\ TRUE \in BOOLEAN /\ Spoils(TRUE, reqs)
    BY <1>1, <1>2, <1>3 DEF TalkTypes
  <2> QED BY <1>4, <2>1, Spoiling
<1>6. StatusesOnward /\ shown' \in Listings /\ Had(shown)'
  BY <1>1, <1>2, StoredSame, ListStays
<1>7. /\ cursor' \in {0} \cup DOMAIN stored' /\ keys' \subseteq DOMAIN stored'
      /\ feed' \in Seq(News) /\ fits' \in BOOLEAN /\ active' \in BOOLEAN /\ (active' => fits')
  <2>1. /\ cursor' \in {0} \cup DOMAIN stored' /\ keys' \subseteq DOMAIN stored'
        /\ feed' \in Seq(News) /\ fits' \in BOOLEAN
    BY <1>1, <1>2 DEF ScreenSound, TalkTypes
  <2>2. CASE active' = active
    BY <1>1, <1>2, <2>1, <2>2 DEF TalkTypes
  <2>3. CASE active' = FALSE
    BY <2>1, <2>3
  <2> QED BY <1>2, <2>1, <2>2, <2>3
<1>8. TalkTypes'
  BY <1>1, <1>2, <1>5, <1>6, <1>7, TalkTypesStay
<1>9. ScreenSound'
  <2>1. RequestSound(req[r])'
    <3>1. req'[r].kind = "none" /\ req'[r].at = "none"
      BY <1>4, <1>5, IdleForm DEF Same
    <3> QED BY <3>1 DEF RequestSound
  <2>2. \A q \in Reqs : RequestSound(req[q])' \/ Same(req'[q], req[q])
    BY <1>4, <1>5, <2>1
  <2> QED BY <1>1, <1>5, <1>6, <1>7, <2>2, ScreenStays
<1>10. FeedSound'
  BY <1>1, <1>2, FeedStays
<1> QED BY <1>5, <1>8, <1>9, <1>10, SpoiltTrue DEF TalkInv

LEMMA LoseKeeps ==
  ASSUME TalkInv, Lose
  PROVE  TalkInv'
<1>1. TalkTypes /\ ScreenSound /\ FeedSound
  BY DEF TalkInv
<1>2. /\ feed # <<>> /\ feed' = Tail(feed) /\ Spoils(TRUE, req)
      /\ UNCHANGED <<stored, echo, active, fits, shown, keys, cursor>>
  BY DEF Lose, Read, screen
<1>3. PICK reqs \in ReqsForm : reqs = req
  BY <1>1 DEF TalkTypes, ReqsForm
<1>4. /\ req' \in ReqsForm /\ spoilt' \in BOOLEAN /\ \A q \in Reqs : Same(req'[q], reqs[q])
      /\ spoilt' /\ \A q \in Reqs : req'[q].kind # "none" => ~req'[q].fresh
  <2>1. spoilt \in BOOLEAN /\ TRUE \in BOOLEAN /\ Spoils(TRUE, reqs)
    BY <1>1, <1>2, <1>3 DEF TalkTypes
  <2> QED BY <2>1, Spoiling
<1>5. StatusesOnward /\ shown' \in Listings /\ Had(shown)'
  BY <1>1, <1>2, StoredSame, ListStays
<1>6. /\ cursor' \in {0} \cup DOMAIN stored' /\ keys' \subseteq DOMAIN stored'
      /\ fits' \in BOOLEAN /\ active' \in BOOLEAN /\ (active' => fits')
  BY <1>1, <1>2 DEF ScreenSound, TalkTypes
<1>7. feed' \in Seq(News)
  BY <1>1, <1>2, Heard
<1>8. TalkTypes'
  BY <1>1, <1>2, <1>4, <1>5, <1>6, <1>7, TalkTypesStay
<1>9. ScreenSound'
  BY <1>1, <1>3, <1>4, <1>5, <1>6, ScreenStays
<1>10. FeedSound'
  BY <1>1, <1>2, HeardSound
<1> QED BY <1>4, <1>8, <1>9, <1>10, SpoiltTrue DEF TalkInv

LEMMA DeleteDoneKeeps ==
  ASSUME TalkInv, NEW r \in Reqs, DeleteDone(r)
  PROVE  TalkInv'
<1>1. TalkTypes /\ ScreenSound
  BY DEF TalkInv
<1>2. PICK m : m = req[r].msg
  OBVIOUS
<1>3. /\ req[r].at = "read" /\ req[r].kind = "delete"
      /\ shown' = IF m \in DOMAIN shown THEN [shown EXCEPT ![m] = Deleted] ELSE shown
      /\ cursor' = 0 /\ req' = Ask(r, "reset", 0)
      /\ UNCHANGED <<stored, feed, echo, active, fits, keys, spoilt>>
  BY <1>2 DEF DeleteDone, server
<1>4. stored[m] = Deleted
  BY <1>1, <1>2, <1>3 DEF ScreenSound, RequestSound
<1>5. shown' \in Listings /\ Had(shown)'
  <2>1. CASE m \in DOMAIN shown
    <3>1. Deleted \in Marks /\ Deleted <= stored[m] /\ Deleted # Inbound
      BY <1>4 DEF Marks, Deleted, Inbound
    <3>2. shown' = [shown EXCEPT ![m] = Deleted] /\ stored' = stored
      BY <1>3, <2>1
    <3> QED BY <1>1, <2>1, <3>1, <3>2, ListMarked
  <2>2. CASE m \notin DOMAIN shown
    BY <1>1, <1>3, <2>2, StoredSame, ListStays
  <2> QED BY <2>1, <2>2
<1>6. /\ TalkTypes' /\ ScreenSound' /\ FeedSound'
      /\ req'[r].kind = "reset" /\ req'[r].at = "asked"
  <2>1. 0 \in 0..MaxMsg /\ active' \in BOOLEAN /\ (active' => fits)
    BY <1>1, <1>3, TalkConstants DEF TalkTypes
  <2> QED BY <1>3, <1>5, <2>1, AskKeeps
<1> QED BY <1>6, ReloadTrue DEF TalkInv

-----------------------------------------------------------------------------
(* One message of the list is new, or has another status: the last word of *)
(* it is there, or still on its way.                                       *)
LEMMA ListAdded ==
  ASSUME TalkTypes, ScreenSound, ListTrue, PagesTrue, UNCHANGED <<stored, cursor, active, spoilt>>,
         NEW m0 \in DOMAIN stored, DOMAIN shown' = DOMAIN shown \cup {m0},
         \A n \in DOMAIN shown : n # m0 => shown'[n] = shown[n],
         shown'[m0] = stored[m0] \/ UpIn(m0)',
         \A n \in DOMAIN stored : n # m0 => WordKept(n),
         \A n \in DOMAIN stored : m0 < n /\ Before(n, shown) => NewIn(n)',
         \A q \in Reqs : req[q].kind \in {"reset", "older"} => req'[q] = req[q],
         \A q \in Reqs : req'[q].kind \in {"reset", "older"} => req'[q] = req[q]
  PROVE  ListTrue' /\ PagesTrue'
<1>1. ASSUME NEW m \in DOMAIN stored, m # m0, Coming(m)
      PROVE  Coming(m)'
  <2>1. WordKept(m)
    BY <1>1
  <2> QED BY <1>1, <2>1, ComingKept DEF WordKept, Same
<1>2. /\ DOMAIN stored' = DOMAIN stored /\ DOMAIN stored \subseteq Nat \ {0}
      /\ \A m \in DOMAIN stored : stored[m] \in Marks
  BY MsgsAre DEF Msgs
<1>3. Owed(m0, shown)'
  BY DEF Owed
<1>4. ASSUME NEW m \in DOMAIN stored, m # m0, Owed(m, shown)
      PROVE  Owed(m, shown)'
  BY <1>4 DEF WordKept, Owed
<1>5. ASSUME NEW first, Whole(first)
      PROVE  Whole(first)'
  BY <1>1, <1>2, <1>3, <1>4, <1>5 DEF Whole
<1>6. ASSUME ListWhole
      PROVE  ListWhole'
  <2>1. ASSUME NEW m \in DOMAIN stored, m # m0, Before(m, shown)
        PROVE  Before(m, shown)' \/ Owed(m, shown)'
    <3>1. CASE m < m0
      BY <2>1, <3>1 DEF Before
    <3>2. CASE m0 < m
      <4>1. NewIn(m)'
        BY <2>1, <3>2
      <4>2. m \notin DOMAIN shown'
        <5>1. ~(m < m)
          BY <1>2
        <5> QED BY <2>1, <5>1 DEF Before
      <4> QED BY <4>1, <4>2 DEF Owed
    <3> QED BY <1>2, <2>1, <3>1, <3>2
  <2>2. ASSUME NEW m \in DOMAIN stored
        PROVE  Before(m, shown)' \/ Owed(m, shown)' \/ Coming(m)'
    BY <1>1, <1>3, <1>4, <1>6, <2>1 DEF ListWhole
  <2> QED BY <1>2, <2>2 DEF ListWhole
<1>7. ASSUME NEW got, OlderTrue(got), DOMAIN got \subseteq DOMAIN stored
      PROVE  OlderTrue(got)'
  <2>1. ASSUME NEW m \in DOMAIN got
        PROVE  got[m] = stored'[m] \/ UpIn(m)' \/ m \in DOMAIN shown' \/ Coming(m)'
    <3>1. CASE m = m0
      BY <3>1
    <3>2. CASE m # m0
      BY <1>1, <1>7, <3>2 DEF OlderTrue, WordKept
    <3> QED BY <3>1, <3>2
  <2> QED BY <2>1 DEF OlderTrue
<1>8. ListTrue'
  <2> SUFFICES ASSUME active', ~spoilt'
               PROVE  /\ ListWhole' /\ (cursor' # 0 => Whole(cursor)')
                      /\ \A r \in Reqs : req'[r].kind = "older" /\ req'[r].fresh =>
                           Whole(req[r].msg)' /\ (req'[r].at = "read" => OlderTrue(req[r].got)')
    BY DEF ListTrue
  <2>1. ListWhole /\ (cursor # 0 => Whole(cursor))
    BY DEF ListTrue
  <2>2. PICK c : c = cursor /\ cursor' = c
    OBVIOUS
  <2>3. c # 0 => Whole(c)'
    BY <1>5, <2>1, <2>2
  <2>4. cursor' # 0 => Whole(cursor)'
    BY <2>2, <2>3 DEF Whole
  <2>5. ASSUME NEW r \in Reqs, req'[r].kind = "older", req'[r].fresh
        PROVE  Whole(req[r].msg)' /\ (req'[r].at = "read" => OlderTrue(req[r].got)')
    <3>1. PICK q : q = req'[r] /\ req[r] = q
      BY <2>5
    <3>2. Whole(q.msg) /\ (q.at = "read" => OlderTrue(q.got) /\ DOMAIN q.got \subseteq DOMAIN stored)
      BY <2>5, <3>1 DEF ListTrue, ScreenSound, RequestSound, IsPage, Had
    <3>3. Whole(q.msg)' /\ (q.at = "read" => OlderTrue(q.got)')
      BY <1>5, <1>7, <3>2
    <3> QED BY <3>1, <3>3 DEF Whole, OlderTrue
  <2> QED BY <1>6, <2>1, <2>4, <2>5
<1>9. PagesTrue'
  <2>1. ASSUME active', NEW r \in Reqs, req'[r].kind = "reset", req'[r].at = "read", req'[r].fresh \/ ~spoilt'
        PROVE  PageTrue(req[r].got)'
    <3>1. PICK q : q = req'[r] /\ req[r] = q
      BY <2>1
    <3>2. PageTrue(q.got)
      BY <2>1, <3>1 DEF PagesTrue
    <3>3. PICK last \in Nat : IsPage(q.got, q.next, last)
      BY <2>1, <3>1, PageOf
    <3>4. CASE Newer(q.got)
      <4>1. Newer(q.got)'
        BY <3>4 DEF Newer
      <4> QED BY <3>1, <4>1 DEF PageTrue, Newer
    <3>5. CASE m0 \notin DOMAIN q.got /\ ~Before(m0, q.got)
      <4>1. \A n \in DOMAIN q.got : m0 > n
        BY <1>2, <3>3, <3>5, OffPage
      <4>2. Newer(q.got)'
        BY <4>1 DEF Newer
      <4> QED BY <3>1, <4>2 DEF PageTrue, Newer
    <3>6. CASE ~Newer(q.got) /\ (m0 \in DOMAIN q.got \/ Before(m0, q.got))
      <4>1. ASSUME NEW m \in DOMAIN stored, m # m0
            PROVE  Before(m, q.got) \/ Owed(m, q.got)' \/ Coming(m)' \/ Overtaken(m, q.got)'
        <5>1. Before(m, q.got) \/ Owed(m, q.got) \/ Coming(m) \/ Overtaken(m, q.got)
          BY <3>2, <3>6 DEF PageTrue
        <5>2. Overtaken(m, q.got) => Overtaken(m, q.got)'
          BY <4>1 DEF Overtaken
        <5>3. Owed(m, q.got) => Owed(m, q.got)'
          BY <4>1, OwedKept
        <5> QED BY <1>1, <4>1, <5>1, <5>2, <5>3
      <4>2. m0 \in DOMAIN q.got => Owed(m0, q.got)' \/ Overtaken(m0, q.got)'
        <5>1. ASSUME m0 \in DOMAIN q.got, ~UpIn(m0)', q.got[m0] # stored[m0]
              PROVE  Overtaken(m0, q.got)'
          <6>1. q.got[m0] <= stored[m0]
            BY <3>3, <5>1 DEF IsPage, Had
          <6>2. q.got[m0] \in Nat /\ stored[m0] \in Nat
            <7>1. q.got \in Listings
              BY <3>1 DEF TalkTypes, ReqForm
            <7> QED BY <1>2, <5>1, <7>1, ListingIs DEF Marks
          <6>3. q.got[m0] < stored[m0] /\ shown'[m0] = stored[m0]
            BY <5>1, <6>1, <6>2
          <6> QED BY <5>1, <6>3 DEF Overtaken
        <5> QED BY <5>1 DEF Owed
      <4>3. ASSUME NEW m \in DOMAIN stored'
            PROVE  (Before(m, q.got) \/ Owed(m, q.got) \/ Coming(m) \/ Overtaken(m, q.got))'
        BY <1>2, <3>6, <4>1, <4>2 DEF Before
      <4>4. PageTrue(q.got)'
        BY <4>3 DEF PageTrue
      <4> QED BY <3>1, <4>4 DEF PageTrue, Newer, Before, Owed, Overtaken
    <3> QED BY <3>4, <3>5, <3>6
  <2> QED BY <2>1 DEF PagesTrue
<1> QED BY <1>8, <1>9

-----------------------------------------------------------------------------
(* A response is taken, an event is heard.                                 *)
LEMMA AnswerKeeps ==
  ASSUME TalkInv, NEW r \in Reqs, NEW yes \in BOOLEAN, Spoils(yes, Without(r)),
         UNCHANGED <<stored, feed, echo, active, fits, keys>>,
         shown' \in Listings, Had(shown)', cursor' \in {0} \cup DOMAIN stored
  PROVE  /\ TalkTypes' /\ ScreenSound' /\ FeedSound'
         /\ yes => ListTrue' /\ PagesTrue'
         /\ ~yes => spoilt' = spoilt /\ \A q \in Reqs : req'[q] = IF q = r THEN Idle ELSE req[q]
<1>1. TalkTypes /\ ScreenSound /\ FeedSound
  BY DEF TalkInv
<1>2. PICK reqs : reqs = Without(r)
  OBVIOUS
<1>3. reqs \in ReqsForm /\ \A q \in Reqs : reqs[q] = IF q = r THEN Idle ELSE req[q]
  BY <1>1, <1>2, WithoutForm DEF TalkTypes, ReqsForm
<1>4. /\ req' \in ReqsForm /\ spoilt' \in BOOLEAN /\ \A q \in Reqs : Same(req'[q], reqs[q])
      /\ yes => spoilt' /\ \A q \in Reqs : req'[q].kind # "none" => ~req'[q].fresh
      /\ ~yes => spoilt' = spoilt /\ req' = reqs
  <2>1. spoilt \in BOOLEAN /\ Spoils(yes, reqs)
    BY <1>1, <1>2 DEF TalkTypes
  <2> QED BY <1>3, <2>1, Spoiling
<1>5. StatusesOnward
  BY <1>1, StoredSame
<1>6. TalkTypes'
  <2>1. /\ feed' \in Seq(News) /\ fits' \in BOOLEAN /\ active' \in BOOLEAN /\ (active' => fits')
    BY <1>1 DEF TalkTypes
  <2> QED BY <1>1, <1>4, <1>5, <2>1, TalkTypesStay
<1>7. ScreenSound'
  <2>1. RequestSound(req[r])'
    <3>1. req'[r].kind = "none" /\ req'[r].at = "none"
      BY <1>3, <1>4, IdleForm DEF Same
    <3> QED BY <3>1 DEF RequestSound
  <2>2. \A q \in Reqs : RequestSound(req[q])' \/ Same(req'[q], req[q])
    BY <1>3, <1>4, <2>1
  <2>3. keys' \subseteq DOMAIN stored'
    BY <1>1 DEF ScreenSound
  <2> QED BY <1>1, <1>4, <1>5, <2>2, <2>3, ScreenStays
<1>8. FeedSound'
  BY <1>1, FeedStays
<1>9. yes => ListTrue' /\ PagesTrue'
  BY <1>4, SpoiltTrue
<1> QED BY <1>3, <1>4, <1>6, <1>7, <1>8, <1>9

LEMMA EventKeeps ==
  ASSUME TalkInv, NEW yes \in BOOLEAN, Spoils(yes, req), feed # <<>>, feed' = Tail(feed),
         UNCHANGED <<stored, echo, fits, cursor>>,
         keys' = keys \/ (Head(feed).kind = "new" /\ keys' = keys \cup {Head(feed).msg}),
         active' \in BOOLEAN, active' => fits, shown' \in Listings, Had(shown)'
  PROVE  /\ TalkTypes' /\ ScreenSound' /\ FeedSound'
         /\ yes => ListTrue' /\ PagesTrue'
         /\ ~yes => spoilt' = spoilt /\ req' = req
<1>1. TalkTypes /\ ScreenSound /\ FeedSound
  BY DEF TalkInv
<1>2. PICK reqs \in ReqsForm : reqs = req
  BY <1>1 DEF TalkTypes, ReqsForm
<1>3. /\ req' \in ReqsForm /\ spoilt' \in BOOLEAN /\ \A q \in Reqs : Same(req'[q], req[q])
      /\ yes => spoilt' /\ \A q \in Reqs : req'[q].kind # "none" => ~req'[q].fresh
      /\ ~yes => spoilt' = spoilt /\ req' = req
  <2>1. spoilt \in BOOLEAN /\ Spoils(yes, reqs)
    BY <1>1, <1>2 DEF TalkTypes
  <2> QED BY <1>2, <2>1, Spoiling
<1>4. StatusesOnward
  BY <1>1, StoredSame
<1>5. feed' \in Seq(News) /\ Head(feed).msg \in DOMAIN stored
  BY <1>1, Heard DEF FeedSound
<1>6. /\ cursor' \in {0} \cup DOMAIN stored' /\ keys' \subseteq DOMAIN stored' /\ fits' \in BOOLEAN
  BY <1>1, <1>5 DEF ScreenSound, TalkTypes
<1>7. TalkTypes'
  BY <1>1, <1>3, <1>4, <1>5, <1>6, TalkTypesStay
<1>8. ScreenSound'
  BY <1>1, <1>3, <1>4, <1>6, ScreenStays
<1>9. FeedSound'
  BY <1>1, HeardSound
<1>10. yes => ListTrue' /\ PagesTrue'
  BY <1>3, SpoiltTrue
<1> QED BY <1>3, <1>7, <1>8, <1>9, <1>10

LEMMA HeadSound ==
  ASSUME TalkTypes, FeedSound, feed # <<>>, feed' = Tail(feed), stored' = stored,
         NEW m, m = Head(feed).msg, NEW s, s = Head(feed).status
  PROVE  /\ m \in DOMAIN stored /\ s \in Marks /\ s <= stored[m] /\ (s = Inbound => stored[m] = Inbound)
         /\ s = stored[m] \/ UpIn(m)'
         /\ Head(feed).kind = "new" =>
              m \notin keys /\ (echo => \A n \in DOMAIN stored : n > m => NewIn(n)')
         /\ \A n \in DOMAIN stored : n # m /\ stored'[n] = stored[n] /\ ResponseFor(n) = ResponseFor(n)' => WordKept(n)
<1>1. /\ feed[1] \in News /\ 1 \in DOMAIN feed /\ m = feed[1].msg /\ s = feed[1].status /\ Head(feed) = feed[1]
      /\ \A i \in DOMAIN feed : i # 1 => i - 1 \in DOMAIN feed' /\ feed'[i - 1] = feed[i]
  BY Heard
<1>2. /\ m \in DOMAIN stored /\ s <= stored[m] /\ (s = Inbound => stored[m] = Inbound)
      /\ LastWord(1) /\ (feed[1].kind = "new" => Announced(1))
  BY <1>1 DEF FeedSound
<1>3. s = stored[m] \/ UpIn(m)'
  BY <1>1, <1>2 DEF LastWord, UpIn
<1>4. feed[1].kind = "new" => m \notin keys /\ (echo => \A n \in DOMAIN stored : n > m => NewIn(n)')
  <2>1. ASSUME feed[1].kind = "new", echo, NEW n \in DOMAIN stored, n > m
        PROVE  NewIn(n)'
    <3>1. PICK k \in DOMAIN feed : k > 1 /\ feed[k].kind = "new" /\ feed[k].msg = n
      BY <1>1, <1>2, <2>1 DEF Announced
    <3>2. k # 1
      BY <3>1, MsgsAre
    <3> QED BY <1>1, <3>1, <3>2 DEF NewIn
  <2>2. feed[1].kind = "new" => m \notin keys
    BY <1>1, <1>2 DEF Announced
  <2> QED BY <2>1, <2>2
<1>5. ASSUME NEW n \in DOMAIN stored, n # m, stored'[n] = stored[n], ResponseFor(n) = ResponseFor(n)'
      PROVE  WordKept(n)
  BY <1>5, WordHeard DEF WordKept
<1> QED BY <1>1, <1>2, <1>3, <1>4, <1>5 DEF News

LEMMA SentKeeps ==
  ASSUME TalkInv, NEW r \in Reqs, Sent(r)
  PROVE  TalkInv'
<1>1. TalkTypes /\ ScreenSound /\ FeedSound /\ ListTrue /\ PagesTrue
  BY DEF TalkInv
<1>2. PICK m0 : m0 = req[r].msg
  OBVIOUS
<1>3. PICK yes \in BOOLEAN : yes = (stored[m0] # Server \/ Earlier(m0) \/ Overwrites(shown'))
  OBVIOUS
<1>4. /\ req[r].at = "read" /\ req[r].kind = "send"
      /\ shown' = Appended(m0, Server) /\ Spoils(yes, Without(r))
      /\ UNCHANGED <<stored, feed, echo, active, fits, keys, cursor>>
  BY <1>2, <1>3 DEF Sent, server
<1>5. m0 \in DOMAIN stored /\ Server \in Marks /\ Server <= stored[m0] /\ Server # Inbound
  <2>1. m0 \in DOMAIN stored /\ stored[m0] # Inbound
    BY <1>1, <1>2, <1>4 DEF ScreenSound, RequestSound
  <2>2. stored[m0] \in Marks
    BY <1>1, <2>1, MsgsAre
  <2> QED BY <2>1, <2>2 DEF Marks, Server, Inbound
<1>6. /\ shown' \in Listings /\ Had(shown)'
      /\ DOMAIN shown' = DOMAIN shown \cup {m0} /\ shown'[m0] = Server
      /\ \A n \in DOMAIN shown : n # m0 => shown'[n] = shown[n]
  BY <1>1, <1>4, <1>5, ListAppended
<1>7. /\ TalkTypes' /\ ScreenSound' /\ FeedSound'
      /\ yes => ListTrue' /\ PagesTrue'
      /\ ~yes => spoilt' = spoilt /\ \A q \in Reqs : req'[q] = IF q = r THEN Idle ELSE req[q]
  <2>1. cursor' \in {0} \cup DOMAIN stored
    BY <1>1, <1>4 DEF ScreenSound
  <2> QED BY <1>4, <1>6, <2>1, AnswerKeeps
<1>8. CASE ~yes
  <2>1. stored[m0] = Server /\ ~Earlier(m0)
    BY <1>3, <1>8
  <2>2. \A q \in Reqs : req'[q] = IF q = r THEN Idle ELSE req[q]
    BY <1>7, <1>8
  <2>3. \A n \in DOMAIN stored : n # m0 => WordKept(n)
    BY <1>2, <1>4, <2>2 DEF WordKept, UpIn, NewIn, ResponseFor
  <2>4. ASSUME NEW n \in DOMAIN stored, m0 < n, Before(n, shown)
        PROVE  FALSE
    <3>1. PICK k \in DOMAIN shown : ~(m0 + 1 < k)
      BY <2>1, <2>4 DEF Earlier, Before
    <3>2. n < k
      BY <2>4 DEF Before
    <3>3. k \in Nat /\ n \in Nat /\ m0 \in Nat
      BY <1>1, <1>5, MsgsAre DEF ScreenSound, Had
    <3> QED BY <2>4, <3>1, <3>2, <3>3
  <2>5. \A q \in Reqs : req[q].kind \in {"reset", "older"} => req'[q] = req[q]
    BY <1>4, <2>2
  <2>6. \A q \in Reqs : req'[q].kind \in {"reset", "older"} => req'[q] = req[q]
    BY <2>2, IdleForm
  <2>7. ListTrue' /\ PagesTrue'
    BY <1>1, <1>4, <1>5, <1>6, <1>7, <1>8, <2>1, <2>3, <2>4, <2>5, <2>6, ListAdded
  <2> QED BY <1>7, <2>7 DEF TalkInv
<1> QED BY <1>7, <1>8 DEF TalkInv

LEMMA handleIncomingMessageKeeps ==
  ASSUME TalkInv, handleIncomingMessage
  PROVE  TalkInv'
<1>1. TalkTypes /\ ScreenSound /\ FeedSound /\ ListTrue /\ PagesTrue
  BY DEF TalkInv
<1>2. PICK m0, s : m0 = Head(feed).msg /\ s = Head(feed).status
  OBVIOUS
<1>3. /\ feed # <<>> /\ Head(feed).kind = "new" /\ feed' = Tail(feed) /\ keys' = keys \cup {m0}
      /\ UNCHANGED <<stored, echo, fits, cursor>>
  BY <1>2 DEF handleIncomingMessage, Event, Read
<1>4. /\ m0 \in DOMAIN stored /\ s \in Marks /\ s <= stored[m0] /\ (s = Inbound => stored[m0] = Inbound)
      /\ s = stored[m0] \/ UpIn(m0)'
      /\ m0 \notin keys /\ (echo => \A n \in DOMAIN stored : n > m0 => NewIn(n)')
      /\ \A n \in DOMAIN stored : n # m0 /\ stored'[n] = stored[n] /\ ResponseFor(n) = ResponseFor(n)' => WordKept(n)
  BY <1>1, <1>2, <1>3, HeadSound
<1>5. CASE ~fits
  <2>1. active' = FALSE /\ shown' = shown /\ Spoils(FALSE, req)
    BY <1>2, <1>4, <1>5 DEF handleIncomingMessage
  <2>2. shown' \in Listings /\ Had(shown)'
    BY <1>1, <1>3, <2>1, StoredSame, ListStays
  <2>3. TalkTypes' /\ ScreenSound' /\ FeedSound'
    BY <1>2, <1>3, <2>1, <2>2, EventKeeps
  <2> QED BY <2>1, <2>3, AwayTrue DEF TalkInv
<1>6. CASE fits
  <2>1. PICK yes \in BOOLEAN : yes = (Overwrites(shown') \/ (~echo /\ Earlier(m0)))
    OBVIOUS
  <2>2. shown' = Appended(m0, s) /\ active' = active /\ Spoils(yes, req)
    BY <1>2, <1>4, <1>6, <2>1 DEF handleIncomingMessage
  <2>3. /\ shown' \in Listings /\ Had(shown)'
        /\ DOMAIN shown' = DOMAIN shown \cup {m0} /\ shown'[m0] = s
        /\ \A n \in DOMAIN shown : n # m0 => shown'[n] = shown[n]
    BY <1>1, <1>3, <1>4, <2>2, ListAppended
  <2>4. /\ TalkTypes' /\ ScreenSound' /\ FeedSound'
        /\ yes => ListTrue' /\ PagesTrue'
        /\ ~yes => spoilt' = spoilt /\ req' = req
    <3>1. active' \in BOOLEAN
      BY <1>1, <2>2 DEF TalkTypes
    <3> QED BY <1>2, <1>3, <1>6, <2>2, <2>3, <3>1, EventKeeps
  <2>5. CASE ~yes
    <3>1. req' = req /\ spoilt' = spoilt /\ (echo \/ ~Earlier(m0))
      BY <2>1, <2>4, <2>5
    <3>2. \A n \in DOMAIN stored : n # m0 => WordKept(n)
      <4>1. \A n : ResponseFor(n) = ResponseFor(n)'
        BY <3>1 DEF ResponseFor
      <4> QED BY <1>3, <1>4, <4>1
    <3>3. ASSUME NEW n \in DOMAIN stored, m0 < n, Before(n, shown)
          PROVE  NewIn(n)'
      <4>1. CASE echo
        <5>1. n > m0
          BY <3>3
        <5> QED BY <1>4, <4>1, <5>1
      <4>2. CASE ~Earlier(m0)
        <5>1. PICK k \in DOMAIN shown : ~(m0 + 1 < k)
          BY <3>3, <4>2 DEF Earlier, Before
        <5>2. n < k
          BY <3>3 DEF Before
        <5>3. k \in Nat /\ n \in Nat /\ m0 \in Nat
          BY <1>1, <1>4, MsgsAre DEF ScreenSound, Had
        <5> QED BY <3>3, <5>1, <5>2, <5>3
      <4> QED BY <3>1, <4>1, <4>2
    <3>4. ListTrue' /\ PagesTrue'
      BY <1>1, <1>3, <1>4, <2>2, <2>3, <3>1, <3>2, <3>3, ListAdded
    <3> QED BY <2>4, <3>4 DEF TalkInv
  <2> QED BY <2>4, <2>5 DEF TalkInv
<1> QED BY <1>5, <1>6

LEMMA handleStatusUpdateKeeps ==
  ASSUME TalkInv, handleStatusUpdate
  PROVE  TalkInv'
<1>1. TalkTypes /\ ScreenSound /\ FeedSound /\ ListTrue /\ PagesTrue
  BY DEF TalkInv
<1>2. PICK m0, s : m0 = Head(feed).msg /\ s = Head(feed).status
  OBVIOUS
<1>3. /\ feed # <<>> /\ Head(feed).kind = "update" /\ feed' = Tail(feed)
      /\ UNCHANGED <<stored, echo, active, fits, keys>>
  BY DEF handleStatusUpdate, Event, Read
<1>4. /\ m0 \in DOMAIN stored /\ s \in Marks /\ s <= stored[m0] /\ (s = Inbound => stored[m0] = Inbound)
      /\ s = stored[m0] \/ UpIn(m0)'
      /\ \A n \in DOMAIN stored : n # m0 /\ stored'[n] = stored[n] /\ ResponseFor(n) = ResponseFor(n)' => WordKept(n)
  BY <1>1, <1>2, <1>3, HeadSound
<1>5. active' \in BOOLEAN /\ (active' => fits)
  BY <1>1, <1>3 DEF TalkTypes
<1>6. CASE m0 \in DOMAIN shown /\ (fits \/ active)
  <2>1. shown' = [shown EXCEPT ![m0] = s] /\ UNCHANGED <<cursor, spoilt, req>>
    BY <1>2, <1>6 DEF handleStatusUpdate, StatusSet
  <2>2. /\ shown' \in Listings /\ Had(shown)'
        /\ DOMAIN shown' = DOMAIN shown /\ shown'[m0] = s
        /\ \A n \in DOMAIN shown : n # m0 => shown'[n] = shown[n]
    BY <1>1, <1>3, <1>4, <1>6, <2>1, ListMarked
  <2>3. TalkTypes' /\ ScreenSound' /\ FeedSound'
    <3>1. Spoils(FALSE, req)
      BY <1>1, <2>1 DEF Spoils, TalkTypes
    <3> QED BY <1>3, <1>5, <2>1, <2>2, <3>1, EventKeeps
  <2>4. \A n \in DOMAIN stored : n # m0 => WordKept(n)
    <3>1. \A n : ResponseFor(n) = ResponseFor(n)'
      BY <2>1 DEF ResponseFor
    <3> QED BY <1>3, <1>4, <3>1
  <2>5. ASSUME NEW n \in DOMAIN stored, m0 < n, Before(n, shown)
        PROVE  FALSE
    <3>1. n < m0
      BY <1>6, <2>5 DEF Before
    <3>2. n \in Nat /\ m0 \in Nat
      BY <1>1, <1>4, MsgsAre
    <3> QED BY <2>5, <3>1, <3>2
  <2>6. ListTrue' /\ PagesTrue'
    <3>1. DOMAIN shown' = DOMAIN shown \cup {m0}
      BY <1>6, <2>2
    <3> QED BY <1>1, <1>3, <1>4, <2>1, <2>2, <2>4, <2>5, <3>1, ListAdded
  <2> QED BY <2>3, <2>6 DEF TalkInv
<1>7. CASE ~(m0 \in DOMAIN shown /\ (fits \/ active))
  <2>1. /\ shown' = shown
        /\ \/ Spoils(TRUE, req) /\ UNCHANGED cursor
           \/ /\ cursor' = 0 /\ spoilt' = spoilt
              /\ \E r \in Reqs : req' = [Ages(req) EXCEPT ![r] = Ask(r, "reset", 0)[r]]
    BY <1>2, <1>7 DEF handleStatusUpdate
  <2>2. shown' \in Listings /\ Had(shown)'
    BY <1>1, <1>3, <2>1, StoredSame, ListStays
  <2>3. CASE Spoils(TRUE, req) /\ UNCHANGED cursor
    <3>1. TalkTypes' /\ ScreenSound' /\ FeedSound' /\ ListTrue' /\ PagesTrue'
      BY <1>3, <1>5, <2>2, <2>3, EventKeeps
    <3> QED BY <3>1 DEF TalkInv
  <2>4. CASE /\ cursor' = 0 /\ spoilt' = spoilt
             /\ \E r \in Reqs : req' = [Ages(req) EXCEPT ![r] = Ask(r, "reset", 0)[r]]
    <3>1. PICK r \in Reqs : req' = [Ages(req) EXCEPT ![r] = Ask(r, "reset", 0)[r]]
      BY <2>4
    <3>2. PICK p : p = [Idle EXCEPT !.kind = "reset", !.at = "asked", !.msg = 0]
      OBVIOUS
    <3>3. PICK none \in Listings : none = <<>>
      BY NoListing
    <3>4. p = [kind |-> "reset", at |-> "asked", msg |-> 0, got |-> none, next |-> 0, fresh |-> TRUE]
      BY <3>2, <3>3 DEF Idle
    <3>5. p \in ReqForm /\ p.kind = "reset" /\ p.at = "asked" /\ p.msg = 0
      BY <3>4, TalkConstants DEF ReqForm
    <3>6. PICK reqs \in ReqsForm : reqs = req
      BY <1>1 DEF TalkTypes, ReqsForm
    <3>7. PICK aged \in ReqsForm : aged = Ages(req) /\ \A q \in Reqs : Same(aged[q], reqs[q])
      BY <3>6, AgesForm
    <3>8. Ask(r, "reset", 0)[r] = p
      BY <3>2, <3>6 DEF Ask, ReqsForm
    <3>9. req' = [aged EXCEPT ![r] = p]
      BY <3>1, <3>7, <3>8
    <3>10. req' \in ReqsForm /\ req'[r] = p /\ \A q \in Reqs : q # r => Same(req'[q], req[q])
      BY <3>5, <3>6, <3>7, <3>9 DEF ReqsForm
    <3>11. StatusesOnward /\ feed' \in Seq(News) /\ spoilt' \in BOOLEAN /\ fits' \in BOOLEAN
      BY <1>1, <1>3, <2>4, StoredSame, Heard DEF TalkTypes
    <3>12. TalkTypes'
      BY <1>1, <1>3, <1>5, <2>2, <2>4, <3>10, <3>11, TalkTypesStay
    <3>13. ScreenSound'
      <4>1. RequestSound(req[r])'
        BY <3>5, <3>10 DEF RequestSound
      <4>2. \A q \in Reqs : RequestSound(req[q])' \/ Same(req'[q], req[q])
        BY <3>10, <4>1
      <4>3. keys' \subseteq DOMAIN stored' /\ cursor' \in {0} \cup DOMAIN stored'
        BY <1>1, <1>3, <2>4 DEF ScreenSound
      <4> QED BY <1>1, <2>2, <3>10, <3>11, <4>2, <4>3, ScreenStays
    <3>14. FeedSound'
      BY <1>1, <1>3, HeardSound
    <3>15. ListTrue' /\ PagesTrue'
      BY <3>5, <3>10, <3>13, ReloadTrue
    <3> QED BY <3>12, <3>13, <3>14, <3>15 DEF TalkInv
  <2> QED BY <2>1, <2>3, <2>4
<1> QED BY <1>6, <1>7

-----------------------------------------------------------------------------
(* An older page is added to the list, wherever that begins by now.        *)
LEMMA OlderAdded ==
  ASSUME TalkTypes, ScreenSound, ListTrue, PagesTrue, UNCHANGED <<stored, feed, active, spoilt>>,
         NEW r \in Reqs, req[r].kind = "older", req[r].at = "read", req[r].fresh,
         NEW got, NEW next, got = req[r].got, next = req[r].next, cursor' = next,
         DOMAIN shown' = DOMAIN shown \cup DOMAIN got,
         \A n \in DOMAIN shown : shown'[n] = shown[n],
         \A n \in DOMAIN got : n \notin DOMAIN shown => shown'[n] = got[n],
         \A q \in Reqs : req'[q] = IF q = r THEN Idle ELSE req[q]
  PROVE  ListTrue' /\ PagesTrue'
<1>1. /\ DOMAIN stored' = DOMAIN stored /\ DOMAIN stored \subseteq Nat \ {0}
      /\ \A m \in DOMAIN stored : stored[m] \in Marks
  BY MsgsAre DEF Msgs
<1>2. PICK last \in Nat : /\ last = req[r].msg - 1 /\ req[r].msg \in DOMAIN stored
                          /\ IsPage(got, next, last)
  <2>1. req[r].msg \in DOMAIN stored /\ IsPage(got, next, req[r].msg - 1)
    BY DEF ScreenSound, RequestSound
  <2>2. req[r].msg - 1 \in Nat
    BY <1>1, <2>1
  <2> QED BY <2>1, <2>2
<1>3. DOMAIN got = PageFrom(last)..last /\ PageFrom(last) \in Nat /\ DOMAIN got \subseteq DOMAIN stored
  BY <1>2, PageBegins DEF IsPage, Had
<1>4. \A m : WordKept(m)
  BY IdleForm DEF WordKept, UpIn, NewIn, ResponseFor
<1>5. ASSUME NEW m, Coming(m)
      PROVE  Coming(m)'
  <2>1. \A q \in Reqs : req[q].kind = "reset" => req'[q] = req[q]
    OBVIOUS
  <2> QED BY <1>4, <1>5, <2>1, ComingKept DEF WordKept, Same
<1>6. PagesTrue'
  <2>1. ASSUME active', NEW p \in Reqs, req'[p].kind = "reset", req'[p].at = "read", req'[p].fresh \/ ~spoilt'
        PROVE  PageTrue(req[p].got)'
    <3>1. PICK list : list = req[p].got /\ req'[p].got = list /\ req'[p] = req[p]
      BY <2>1, IdleForm
    <3>2. PageTrue(list)
      BY <2>1, <3>1 DEF PagesTrue
    <3>3. Newer(list) => Newer(list)'
      BY DEF Newer
    <3>4. \A m : Overtaken(m, list) => Overtaken(m, list)'
      BY DEF Overtaken
    <3>5. \A m : Before(m, list) => Before(m, list)'
      BY DEF Before
    <3>6. \A m : Owed(m, list) => Owed(m, list)'
      BY <1>4, OwedKept
    <3>7. PageTrue(list)'
      BY <1>1, <1>5, <3>2, <3>3, <3>4, <3>5, <3>6 DEF PageTrue
    <3> QED BY <3>1, <3>7 DEF PageTrue, Newer, Before, Owed, Overtaken
  <2> QED BY <2>1 DEF PagesTrue
<1>7. ASSUME active, ~spoilt
      PROVE  /\ ListWhole' /\ (cursor' # 0 => Whole(cursor)')
             /\ \A q \in Reqs : req'[q].kind = "older" /\ req'[q].fresh =>
                  Whole(req[q].msg)' /\ (req'[q].at = "read" => OlderTrue(req[q].got)')
  <2>1. ListWhole /\ Whole(last + 1) /\ OlderTrue(got)
    <3>1. ListWhole /\ Whole(req[r].msg) /\ OlderTrue(got)
      BY <1>7 DEF ListTrue
    <3>2. last + 1 = req[r].msg
      BY <1>1, <1>2
    <3> QED BY <3>1, <3>2
  <2>2. ASSUME NEW m \in DOMAIN shown, m \in DOMAIN stored
        PROVE  Owed(m, shown)' \/ Coming(m)'
    <3>1. ~Before(m, shown)
      BY <1>1, <2>2 DEF Before
    <3>2. Owed(m, shown) \/ Coming(m)
      BY <2>1, <2>2, <3>1 DEF ListWhole
    <3>3. Owed(m, shown) => Owed(m, shown)'
      BY <1>4, <2>2 DEF Owed, WordKept
    <3> QED BY <1>5, <3>2, <3>3
  <2>3. ASSUME NEW m \in DOMAIN got
        PROVE  Owed(m, shown)' \/ Coming(m)'
    <3>1. CASE m \in DOMAIN shown
      BY <1>3, <2>2, <3>1
    <3>2. CASE m \notin DOMAIN shown
      <4>1. got[m] = stored[m] \/ UpIn(m) \/ Coming(m)
        BY <2>1, <3>2 DEF OlderTrue
      <4>2. m \in DOMAIN shown' /\ shown'[m] = got[m]
        BY <3>2
      <4> QED BY <1>4, <1>5, <4>1, <4>2 DEF Owed, WordKept
    <3> QED BY <3>1, <3>2
  <2>4. ASSUME NEW m \in DOMAIN stored, Owed(m, shown)
        PROVE  Owed(m, shown)' \/ Coming(m)'
    <3>1. CASE m \in DOMAIN shown'
      BY <2>2, <2>3, <3>1
    <3>2. CASE m \notin DOMAIN shown'
      BY <1>4, <2>4, <3>2 DEF Owed, WordKept
    <3> QED BY <3>1, <3>2
  <2>5. ASSUME NEW first, Whole(first)
        PROVE  Whole(first)'
    BY <1>1, <1>5, <2>4, <2>5 DEF Whole
  <2>6. ASSUME NEW m \in DOMAIN stored, m >= PageFrom(last)
        PROVE  Owed(m, shown)' \/ Coming(m)'
    <3>1. CASE m <= last
      <4>1. m \in DOMAIN got
        BY <1>1, <1>3, <2>6, <3>1
      <4> QED BY <2>3, <4>1
    <3>2. CASE m >= last + 1
      BY <1>1, <1>5, <2>1, <2>4, <3>2 DEF Whole
    <3> QED BY <1>1, <3>1, <3>2
  <2>7. ListWhole'
    <3>1. ASSUME NEW m \in DOMAIN stored, ~Before(m, shown)'
          PROVE  Owed(m, shown)' \/ Coming(m)'
      <4>1. CASE m >= PageFrom(last)
        BY <2>6, <4>1
      <4>2. CASE m < PageFrom(last)
        <5>1. \A n \in DOMAIN got : m < n
          BY <1>1, <1>3, <4>2
        <5>2. ~Before(m, shown)
          BY <3>1, <5>1 DEF Before
        <5>3. Owed(m, shown) \/ Coming(m)
          BY <2>1, <5>2 DEF ListWhole
        <5> QED BY <1>5, <2>4, <5>3
      <4> QED BY <1>1, <1>3, <4>1, <4>2
    <3> QED BY <1>1, <3>1 DEF ListWhole
  <2>8. cursor' # 0 => Whole(cursor)'
    <3>1. ASSUME next # 0
          PROVE  Whole(next)'
      <4>1. next = PageFrom(last)
        BY <1>2, <3>1 DEF IsPage
      <4> QED BY <1>1, <2>6, <4>1 DEF Whole
    <3> QED BY <3>1 DEF Whole
  <2>9. ASSUME NEW q \in Reqs, req'[q].kind = "older", req'[q].fresh
        PROVE  Whole(req[q].msg)' /\ (req'[q].at = "read" => OlderTrue(req[q].got)')
    <3>1. PICK p : p = req[q] /\ req'[q] = p
      BY <2>9, IdleForm
    <3>2. Whole(p.msg) /\ (p.at = "read" => OlderTrue(p.got))
      BY <1>7, <2>9, <3>1 DEF ListTrue
    <3>3. Whole(p.msg)'
      BY <2>5, <3>2
    <3>4. OlderTrue(p.got) => OlderTrue(p.got)'
      <4>1. ASSUME OlderTrue(p.got), NEW m \in DOMAIN p.got
            PROVE  p.got[m] = stored'[m] \/ UpIn(m)' \/ m \in DOMAIN shown' \/ Coming(m)'
        <5>1. p.got[m] = stored[m] \/ UpIn(m) \/ m \in DOMAIN shown \/ Coming(m)
          BY <4>1 DEF OlderTrue
        <5> QED BY <1>4, <1>5, <5>1 DEF WordKept
      <4> QED BY <4>1 DEF OlderTrue
    <3> QED BY <3>1, <3>2, <3>3, <3>4 DEF Whole, OlderTrue
  <2> QED BY <2>7, <2>8, <2>9
<1>8. ListTrue'
  BY <1>7 DEF ListTrue
<1> QED BY <1>6, <1>8

LEMMA loadOlderKeeps ==
  ASSUME TalkInv, NEW r \in Reqs, loadOlder(r)
  PROVE  TalkInv'
<1>1. TalkTypes /\ ScreenSound /\ FeedSound /\ ListTrue /\ PagesTrue
  BY DEF TalkInv
<1>2. PICK got, next : got = req[r].got /\ next = req[r].next
  OBVIOUS
<1>3. PICK yes \in BOOLEAN : yes = ~req[r].fresh
  OBVIOUS
<1>4. /\ req[r].at = "read" /\ req[r].kind = "older"
      /\ shown' = Prepended(got) /\ cursor' = next /\ Spoils(yes, Without(r))
      /\ UNCHANGED <<stored, feed, echo, active, fits, keys>>
  BY <1>2, <1>3 DEF loadOlder, server
<1>5. got \in Listings /\ IsPage(got, next, req[r].msg - 1)
  BY <1>1, <1>2, <1>4 DEF TalkTypes, ReqForm, ScreenSound, RequestSound
<1>6. Had(got) /\ next \in {0} \cup DOMAIN stored
  BY <1>5 DEF IsPage, Had
<1>7. /\ shown' \in Listings /\ Had(shown)'
      /\ DOMAIN shown' = DOMAIN shown \cup DOMAIN got
      /\ \A n \in DOMAIN shown : shown'[n] = shown[n]
      /\ \A n \in DOMAIN got : n \notin DOMAIN shown => shown'[n] = got[n]
  BY <1>1, <1>4, <1>5, <1>6, ListPrepended
<1>8. /\ TalkTypes' /\ ScreenSound' /\ FeedSound'
      /\ yes => ListTrue' /\ PagesTrue'
      /\ ~yes => spoilt' = spoilt /\ \A q \in Reqs : req'[q] = IF q = r THEN Idle ELSE req[q]
  BY <1>4, <1>6, <1>7, AnswerKeeps
<1>9. CASE ~yes
  <2>1. req[r].fresh
    BY <1>3, <1>9
  <2>2. ListTrue' /\ PagesTrue'
    BY <1>1, <1>2, <1>4, <1>7, <1>8, <1>9, <2>1, OlderAdded
  <2> QED BY <1>8, <2>2 DEF TalkInv
<1> QED BY <1>8, <1>9 DEF TalkInv

-----------------------------------------------------------------------------
(* The list is reloaded, with a page that takes nothing back: what another *)
(* page promises holds of the new list too.                                *)
LEMMA Reloading ==
  ASSUME TalkTypes, ScreenSound, FeedSound, PagesTrue, UNCHANGED <<stored, feed, active>>,
         NEW r \in Reqs, req[r].kind = "reset", req[r].at = "read", active,
         NEW got, NEW next, got = req[r].got, next = req[r].next, shown' = got, cursor' = next,
         ~Overwrites(got), spoilt' = (spoilt /\ ~req[r].fresh),
         \A q \in Reqs : \/ q = r /\ req'[q] = Idle
                         \/ q # r /\ req[q].kind # "older" /\ req'[q] = req[q]
                         \/ q # r /\ req[q].kind = "older" /\ req'[q].kind = "older" /\ ~req'[q].fresh
  PROVE  ListTrue' /\ PagesTrue'
<1>1. /\ DOMAIN stored' = DOMAIN stored /\ DOMAIN stored \subseteq Nat \ {0}
      /\ \A m \in DOMAIN stored : stored[m] \in Marks
  BY MsgsAre DEF Msgs
<1>2. PICK last \in Nat : IsPage(got, next, last)
  BY PageOf
<1>3. /\ DOMAIN got = PageFrom(last)..last /\ PageFrom(last) \in Nat \ {0}
      /\ DOMAIN got \subseteq DOMAIN stored /\ got \in Listings
  BY <1>2, PageBegins DEF IsPage, Had, TalkTypes, ReqForm
<1>4. \A m \in DOMAIN got : got[m] <= stored[m] /\ got[m] \in Nat /\ stored[m] \in Nat
  BY <1>1, <1>2, <1>3, ListingIs DEF IsPage, Had, Marks
<1>5. /\ \A m \in DOMAIN shown : m \in DOMAIN got => ~(got[m] < shown[m])
      /\ \A m \in DOMAIN shown : m \notin DOMAIN got => \E n \in DOMAIN got : ~(m > n)
  BY DEF Overwrites
<1>6. \A m \in DOMAIN shown : shown[m] \in Nat /\ m \in Nat
  <2>1. shown \in Listings /\ DOMAIN shown \subseteq DOMAIN stored
    BY DEF TalkTypes, ScreenSound, Had
  <2>2. \A m \in DOMAIN shown : shown[m] \in Marks
    BY <2>1, ListingIs
  <2> QED BY <1>1, <2>1, <2>2 DEF Marks
<1>7. \A m : WordKept(m)
  <2>1. ASSUME NEW m
        PROVE  ResponseFor(m) => ResponseFor(m)'
    BY DEF ResponseFor
  <2> QED BY <2>1 DEF WordKept, UpIn, NewIn
<1>8. \A m, list : Owed(m, list) => Owed(m, list)'
  BY <1>7, OwedKept
<1>9. ASSUME NEW m \in DOMAIN stored, Coming(m)
      PROVE  Coming(m)' \/ Covers(got, m)
  <2>1. PICK q \in Reqs : Brings(req[q], m)
    BY <1>9 DEF Coming
  <2>2. CASE q = r
    BY <2>1, <2>2 DEF Brings
  <2>3. CASE q # r
    <3>1. req'[q] = req[q]
      BY <2>1, <2>3 DEF Brings
    <3>2. Brings(req[q], m)'
      BY <2>1, <3>1 DEF Brings, Covers, Before, UpIn
    <3> QED BY <3>2 DEF Coming
  <2> QED BY <2>2, <2>3
<1>10. ASSUME ~spoilt'
       PROVE  \A m \in DOMAIN stored : Before(m, got) \/ Owed(m, got) \/ Coming(m)'
  <2>1. PageTrue(got)
    BY <1>10 DEF PagesTrue
  <2>2. ~Newer(got)
    BY <1>3, <1>5, <1>6 DEF Newer
  <2>3. \A m : ~Overtaken(m, got)
    BY <1>5 DEF Overtaken
  <2>4. ASSUME NEW m \in DOMAIN stored
        PROVE  Before(m, got) \/ Owed(m, got) \/ Coming(m)
    BY <2>1, <2>2, <2>3 DEF PageTrue
  <2>5. \A m \in DOMAIN stored : Covers(got, m) => Before(m, got) \/ Owed(m, got)
    BY DEF Covers, Owed
  <2> QED BY <1>9, <2>4, <2>5
<1>11. ListTrue'
  <2>1. ASSUME ~spoilt'
        PROVE  ListWhole'
    BY <1>1, <1>8, <1>10, <2>1 DEF ListWhole, Before, Owed
  <2>2. ASSUME ~spoilt', next # 0
        PROVE  Whole(cursor)'
    <3>1. next \in DOMAIN got
      BY <1>2, <2>2 DEF IsPage
    <3>2. ASSUME NEW m \in DOMAIN stored, m >= next
          PROVE  ~Before(m, got)
      BY <1>1, <1>3, <3>1, <3>2 DEF Before
    <3>3. ASSUME NEW m \in DOMAIN stored, m >= next
          PROVE  Owed(m, got)' \/ Coming(m)'
      BY <1>8, <1>10, <2>2, <3>2, <3>3
    <3> QED BY <1>1, <3>3 DEF Whole, Owed
  <2>3. \A q \in Reqs : ~(req'[q].kind = "older" /\ req'[q].fresh)
    BY IdleForm
  <2> QED BY <2>1, <2>2, <2>3 DEF ListTrue
<1>12. PagesTrue'
  <2>1. ASSUME NEW p \in Reqs, req'[p].kind = "reset", req'[p].at = "read", req'[p].fresh \/ ~spoilt'
        PROVE  PageTrue(req[p].got)'
    <3>1. p # r /\ req'[p] = req[p]
      BY <2>1, IdleForm
    <3>2. PICK list \in Listings : list = req[p].got
      BY DEF TalkTypes, ReqForm
    <3>3. PICK end \in Nat : IsPage(list, req[p].next, end)
      BY <2>1, <3>1, <3>2, PageOf
    <3>4. DOMAIN list = PageFrom(end)..end /\ DOMAIN list \subseteq DOMAIN stored /\ PageFrom(end) \in Nat
      BY <3>3, PageBegins DEF IsPage, Had
    <3>5. \A m \in DOMAIN list : /\ list[m] <= stored[m] /\ list[m] \in Nat /\ stored[m] \in Nat
                                 /\ list[m] = Inbound => stored[m] = Inbound
      BY <1>1, <3>2, <3>3, <3>4, ListingIs DEF IsPage, Had, Marks
    <3>6. ASSUME NEW m \in DOMAIN stored, m \notin DOMAIN list, ~Before(m, list)
          PROVE  \A n \in DOMAIN list : m > n
      BY <1>1, <3>3, <3>6, OffPage
    (* what the reloaded list begins after *)
    <3>7. ASSUME NEW m \in DOMAIN stored, Before(m, got), ~Before(m, list)
          PROVE  Newer(list)'
      <4>1. CASE m \notin DOMAIN list
        <5>1. PICK n \in DOMAIN got : m < n
          BY <3>7 DEF Before
        <5>2. \A k \in DOMAIN list : m > k
          BY <3>6, <3>7, <4>1
        <5>3. \A k \in DOMAIN list : n > k
          BY <1>1, <1>3, <3>4, <5>1, <5>2
        <5> QED BY <5>3 DEF Newer
      <4>2. CASE m \in DOMAIN list
        <5>1. PageFrom(end) < PageFrom(last)
          <6>1. PICK n \in DOMAIN got : m < n
            BY <3>7 DEF Before
          <6>2. PageFrom(last) \in DOMAIN got
            BY <1>3, <6>1
          <6>3. m < PageFrom(last)
            BY <3>7, <6>2 DEF Before
          <6> QED BY <1>1, <1>3, <3>4, <4>2, <6>3
        <5>2. end < last /\ last \in DOMAIN got
          BY <1>3, <5>1, PagesInOrder
        <5>3. \A k \in DOMAIN list : last > k
          BY <3>4, <5>2
        <5> QED BY <5>2, <5>3 DEF Newer
      <4> QED BY <4>1, <4>2
    (* what it shows as it is *)
    <3>8. ASSUME NEW m \in DOMAIN got, got[m] = stored[m] \/ UpIn(m), ~Before(m, list)
          PROVE  Newer(list)' \/ Owed(m, list)' \/ Overtaken(m, list)'
      <4>1. CASE m \notin DOMAIN list
        <5>1. \A k \in DOMAIN list : m > k
          BY <1>3, <3>6, <3>8, <4>1
        <5> QED BY <5>1 DEF Newer
      <4>2. CASE m \in DOMAIN list /\ UpIn(m)
        BY <1>7, <4>2 DEF Owed, WordKept
      <4>3. CASE m \in DOMAIN list /\ got[m] = stored[m]
        <5>1. CASE list[m] = stored[m]
          BY <4>3, <5>1 DEF Owed
        <5>2. CASE list[m] < stored[m]
          BY <4>3, <5>2 DEF Overtaken
        <5> QED BY <3>5, <4>3, <5>1, <5>2
      <4> QED BY <3>8, <4>1, <4>2, <4>3
    <3>9. CASE req[p].fresh \/ ~spoilt
      <4>1. PageTrue(list)
        BY <2>1, <3>1, <3>2, <3>9 DEF PagesTrue
      <4>2. ASSUME Newer(list)
            PROVE  Newer(list)'
        <5>1. PICK m \in DOMAIN shown : \A n \in DOMAIN list : m > n
          BY <4>2 DEF Newer
        <5>2. CASE m \in DOMAIN got
          BY <5>1, <5>2 DEF Newer
        <5>3. CASE m \notin DOMAIN got
          <6>1. PICK n \in DOMAIN got : ~(m > n)
            BY <1>5, <5>3
          <6>2. \A k \in DOMAIN list : n > k
            BY <1>3, <1>6, <3>4, <5>1, <6>1
          <6> QED BY <6>2 DEF Newer
        <5> QED BY <5>2, <5>3
      <4>3. ASSUME ~Newer(list)
            PROVE  PageTrue(list)'
        <5>1. ASSUME NEW m \in DOMAIN stored, ~Before(m, list), ~Newer(list)'
              PROVE  Owed(m, list)' \/ Coming(m)' \/ Overtaken(m, list)'
          <6>1. Owed(m, list) \/ Coming(m) \/ Overtaken(m, list)
            BY <4>1, <4>3, <5>1 DEF PageTrue
          <6>2. CASE Owed(m, list)
            BY <1>8, <6>2
          <6>3. CASE Coming(m)
            <7>1. CASE Covers(got, m)
              BY <3>7, <3>8, <5>1, <7>1 DEF Covers
            <7> QED BY <1>9, <6>3, <7>1
          <6>4. CASE Overtaken(m, list)
            <7>1. m \in DOMAIN list /\ m \in DOMAIN shown /\ list[m] < shown[m]
              BY <6>4 DEF Overtaken
            <7>2. CASE m \in DOMAIN got
              <8>1. list[m] < got[m]
                BY <1>4, <1>5, <1>6, <3>5, <7>1, <7>2
              <8> QED BY <7>1, <7>2, <8>1 DEF Overtaken
            <7>3. CASE m \notin DOMAIN got
              <8>1. PICK n \in DOMAIN got : ~(m > n)
                BY <1>5, <7>1, <7>3
              <8>2. \A k \in DOMAIN got : m < k
                BY <1>3, <1>6, <7>1, <7>3, <8>1
              <8>3. Before(m, got)
                BY <8>1, <8>2 DEF Before
              <8> QED BY <3>7, <5>1, <8>3
            <7> QED BY <7>2, <7>3
          <6> QED BY <6>1, <6>2, <6>3, <6>4
        <5> QED BY <1>1, <5>1 DEF PageTrue, Before
      <4>4. PageTrue(list)'
        BY <4>2, <4>3 DEF PageTrue
      <4> QED BY <3>1, <3>2, <4>4 DEF PageTrue, Newer, Before, Owed, Overtaken
    <3>10. CASE ~(req[p].fresh \/ ~spoilt)
      <4>1. ~spoilt'
        BY <2>1, <3>1, <3>10
      <4>2. ASSUME NEW m \in DOMAIN stored, ~Before(m, list), ~Newer(list)'
            PROVE  Owed(m, list)' \/ Coming(m)' \/ Overtaken(m, list)'
        <5>1. Owed(m, got) \/ Coming(m)'
          BY <1>10, <3>7, <4>1, <4>2
        <5>2. CASE m \in DOMAIN got /\ Owed(m, got)
          BY <3>8, <4>2, <5>2 DEF Owed
        <5>3. CASE m \notin DOMAIN got /\ Owed(m, got)
          <6>1. NewIn(m) \/ (ResponseFor(m) /\ (stored[m] = Server \/ UpIn(m)))
            BY <5>3 DEF Owed
          <6>2. CASE m \notin DOMAIN list
            <7>1. Owed(m, list)
              BY <6>1, <6>2 DEF Owed
            <7> QED BY <1>8, <7>1
          <6>3. CASE m \in DOMAIN list
            <7>1. stored[m] \in {Inbound, Server} \/ UpIn(m)
              <8>1. CASE NewIn(m)
                <9>1. PICK i \in DOMAIN feed : feed[i].kind = "new" /\ feed[i].msg = m
                  BY <8>1 DEF NewIn
                <9>2. LastWord(i) /\ feed[i].status \in {Inbound, Server}
                  BY <9>1 DEF FeedSound, Announced
                <9> QED BY <9>1, <9>2 DEF LastWord, UpIn
              <8> QED BY <6>1, <8>1
            <7>2. stored[m] \in {Inbound, Server} => list[m] = stored[m]
              BY <3>5, <6>3 DEF Inbound, Server
            <7>3. Owed(m, list)
              BY <6>3, <7>1, <7>2 DEF Owed
            <7> QED BY <1>8, <7>3
          <6> QED BY <6>2, <6>3
        <5> QED BY <5>1, <5>2, <5>3
      <4>3. PageTrue(list)'
        BY <1>1, <4>2 DEF PageTrue, Before
      <4> QED BY <3>1, <3>2, <4>3 DEF PageTrue, Newer, Before, Owed, Overtaken
    <3> QED BY <3>9, <3>10
  <2> QED BY <2>1 DEF PagesTrue
<1> QED BY <1>11, <1>12

LEMMA loadMessagesKeeps ==
  ASSUME TalkInv, NEW r \in Reqs, loadMessages(r)
  PROVE  TalkInv'
<1>1. TalkTypes /\ ScreenSound /\ FeedSound /\ ListTrue /\ PagesTrue
  BY DEF TalkInv
<1>2. PICK got, next : got = req[r].got /\ next = req[r].next
  OBVIOUS
<1>3. PICK over \in BOOLEAN : over = Overwrites(got)
  BY DEF Overwrites
<1>4. PICK reqs \in ReqsForm : reqs = req
  BY <1>1 DEF TalkTypes, ReqsForm
<1>5. PICK aged \in ReqsForm : /\ aged = Ages(req) /\ \A q \in Reqs : Same(aged[q], reqs[q])
                               /\ \A q \in Reqs : aged[q].kind # "none" => ~aged[q].fresh
  BY <1>4, AgesForm
<1>6. /\ req[r].at = "read" /\ req[r].kind = "reset"
      /\ shown' = got /\ cursor' = next /\ spoilt' = (over \/ (spoilt /\ ~req[r].fresh))
      /\ req' = [q \in Reqs |-> IF q = r THEN Idle
                                ELSE IF over \/ req[q].kind = "older" THEN aged[q] ELSE req[q]]
      /\ UNCHANGED <<stored, feed, echo, active, fits, keys>>
  BY <1>2, <1>3, <1>5 DEF loadMessages, Reloaded, server
<1>7. /\ req' \in ReqsForm
      /\ \A q \in Reqs : q # r => Same(req'[q], req[q])
      /\ req'[r] = Idle
  <2>1. ASSUME NEW q \in Reqs
        PROVE  req'[q] \in ReqForm /\ (q # r => Same(req'[q], req[q])) /\ (q = r => req'[q] = Idle)
    <3>1. aged[q] \in ReqForm /\ req[q] \in ReqForm /\ Same(aged[q], req[q]) /\ Same(req[q], req[q])
      BY <1>4, <1>5 DEF ReqsForm, Same
    <3>2. req'[q] = IF q = r THEN Idle ELSE IF over \/ req[q].kind = "older" THEN aged[q] ELSE req[q]
      BY <1>6
    <3> QED BY <3>1, <3>2, IdleForm
  <2>2. req' = [q \in Reqs |-> req'[q]]
    BY <1>6
  <2> QED BY <2>1, <2>2 DEF ReqsForm
<1>8. got \in Listings /\ Had(got) /\ next \in {0} \cup DOMAIN stored
  <2>1. PICK last \in Nat : IsPage(got, next, last)
    BY <1>1, <1>2, <1>6, PageOf
  <2> QED BY <1>1, <1>2, <2>1 DEF TalkTypes, ReqForm, IsPage, Had
<1>9. StatusesOnward /\ shown' \in Listings /\ Had(shown)'
  BY <1>1, <1>6, <1>8, StoredSame, ListReloaded
<1>10. TalkTypes'
  <2>1. /\ feed' \in Seq(News) /\ fits' \in BOOLEAN /\ active' \in BOOLEAN /\ (active' => fits')
        /\ cursor' \in {0} \cup DOMAIN stored'
    BY <1>1, <1>6, <1>8 DEF TalkTypes
  <2>2. spoilt' \in BOOLEAN
    BY <1>6
  <2> QED BY <1>1, <1>6, <1>7, <1>9, <2>1, <2>2, TalkTypesStay
<1>11. ScreenSound'
  <2>1. RequestSound(req[r])'
    BY <1>7, IdleForm DEF RequestSound
  <2>2. \A q \in Reqs : RequestSound(req[q])' \/ Same(req'[q], req[q])
    BY <1>7, <2>1
  <2>3. keys' \subseteq DOMAIN stored' /\ cursor' \in {0} \cup DOMAIN stored'
    BY <1>1, <1>6, <1>8 DEF ScreenSound
  <2> QED BY <1>1, <1>7, <1>9, <2>2, <2>3, ScreenStays
<1>12. FeedSound'
  BY <1>1, <1>6, FeedStays
<1>13. ListTrue' /\ PagesTrue'
  <2>1. CASE over
    <3>1. \A q \in Reqs : req'[q].kind # "none" => ~req'[q].fresh
      BY <1>5, <1>6, <2>1, IdleForm
    <3> QED BY <1>6, <2>1, <3>1, SpoiltTrue
  <2>2. CASE ~active
    BY <1>6, <2>2, AwayTrue
  <2>3. CASE ~over /\ active
    <3>1. \A q \in Reqs : \/ q = r /\ req'[q] = Idle
                          \/ q # r /\ req[q].kind # "older" /\ req'[q] = req[q]
                          \/ q # r /\ req[q].kind = "older" /\ req'[q].kind = "older" /\ ~req'[q].fresh
      <4>1. ASSUME NEW q \in Reqs, q # r, req[q].kind = "older"
            PROVE  req'[q].kind = "older" /\ ~req'[q].fresh
        <5>1. req'[q] = aged[q] /\ aged[q].kind = req[q].kind
          BY <1>4, <1>5, <1>6, <4>1 DEF Same
        <5> QED BY <1>5, <4>1, <5>1
      <4>2. ASSUME NEW q \in Reqs, q # r, req[q].kind # "older"
            PROVE  req'[q] = req[q]
        BY <1>6, <2>3, <4>2
      <4> QED BY <1>7, <4>1, <4>2
    <3>2. ~Overwrites(got) /\ spoilt' = (spoilt /\ ~req[r].fresh)
      BY <1>3, <1>6, <2>3
    <3> QED BY <1>1, <1>2, <1>6, <2>3, <3>1, <3>2, Reloading
  <2> QED BY <2>1, <2>2, <2>3
<1> QED BY <1>10, <1>11, <1>12, <1>13 DEF TalkInv

-----------------------------------------------------------------------------
(* The beginning, and all steps.                                           *)
LEMMA TalkBegins == TalkInit => TalkInv
<1> SUFFICES ASSUME TalkInit
             PROVE  TalkInv
  OBVIOUS
<1>1. /\ stored = [m \in 1..OldMsgs |-> Inbound] /\ feed = <<>> /\ echo \in BOOLEAN
      /\ req = [r \in Reqs |-> Idle] /\ active = FALSE /\ fits \in BOOLEAN
      /\ shown = <<>> /\ keys = {} /\ cursor = 0 /\ spoilt = FALSE
  BY DEF TalkInit
<1>2. stored \in Seq(Marks) /\ Len(stored) = OldMsgs /\ OldMsgs <= MaxMsg
  BY <1>1, TalkConstants, IsASeq DEF Marks, Inbound
<1>3. feed \in Seq(News) /\ DOMAIN feed = {} /\ DOMAIN shown = {}
  BY <1>1
<1>4. req \in [Reqs -> ReqForm] /\ \A r \in Reqs : req[r].kind = "none" /\ req[r].at = "none"
  BY <1>1, IdleForm
<1>5. TalkTypes
  <2>1. shown \in Listings /\ cursor \in 0..MaxMsg
    BY <1>1, NoListing, TalkConstants
  <2> QED BY <1>1, <1>2, <1>3, <1>4, <2>1 DEF TalkTypes
<1>6. ScreenSound
  BY <1>1, <1>3, <1>4 DEF ScreenSound, RequestSound, Had
<1>7. FeedSound
  BY <1>3 DEF FeedSound
<1>8. ListTrue /\ PagesTrue
  BY <1>1 DEF ListTrue, PagesTrue
<1> QED BY <1>5, <1>6, <1>7, <1>8 DEF TalkInv

LEMMA TalkStep ==
  ASSUME TalkInv, [TalkNext]_talkVars
  PROVE  TalkInv'
<1>1. CASE UNCHANGED talkVars
  <2>1. UNCHANGED <<stored, feed, echo, req, active, fits, shown, keys, cursor, loads, spoilt>>
    BY <1>1 DEF talkVars, server, screen
  <2>2. TalkTypes' /\ ScreenSound' /\ FeedSound'
    BY <2>1 DEF TalkInv, TalkTypes, ScreenSound, RequestSound, IsPage, Had, FeedSound, LastWord, Announced
  <2>3. \A m : WordKept(m)
    BY <2>1 DEF WordKept, UpIn, NewIn, ResponseFor
  <2>4. ListTrue' /\ PagesTrue'
    BY <2>1, <2>3, ListUntouched DEF TalkInv
  <2> QED BY <2>2, <2>4 DEF TalkInv
<1>2. CASE ClientWrites
  BY <1>2, ClientWritesKeeps
<1>3. CASE SwitchTab
  BY <1>3, SwitchTabKeeps
<1>4. CASE handleIncomingMessage
  BY <1>4, handleIncomingMessageKeeps
<1>5. CASE handleStatusUpdate
  BY <1>5, handleStatusUpdateKeeps
<1>6. CASE Lose
  BY <1>6, LoseKeeps
<1>7. ASSUME NEW m \in Msgs, Acknowledged(m)
      PROVE  TalkInv'
  BY <1>7, AcknowledgedKeeps
<1>8. ASSUME NEW r \in Reqs, ServePage(r) \/ ServeSend(r) \/ ServeDelete(r)
      PROVE  TalkInv'
  BY <1>8, ServePageKeeps, ServeSendKeeps, ServeDeleteKeeps
<1>9. ASSUME NEW r \in Reqs, Select(r) \/ handleLoadMoreMessages(r) \/ SendClicked(r)
      PROVE  TalkInv'
  BY <1>9, SelectKeeps, handleLoadMoreMessagesKeeps, SendClickedKeeps
<1>10. ASSUME NEW r \in Reqs, loadMessages(r) \/ loadOlder(r) \/ Sent(r) \/ DeleteDone(r) \/ handleError(r)
       PROVE  TalkInv'
  BY <1>10, loadMessagesKeeps, loadOlderKeeps, SentKeeps, DeleteDoneKeeps, handleErrorKeeps
<1>11. ASSUME NEW r \in Reqs, NEW m \in Msgs, confirmDeleteMessage(r, m)
       PROVE  TalkInv'
  BY <1>11, confirmDeleteMessageKeeps
<1> QED BY <1>1, <1>2, <1>3, <1>4, <1>5, <1>6, <1>7, <1>8, <1>9, <1>10, <1>11 DEF TalkNext

(* What the browser has, what is asked for and what is on its way add up   *)
(* to the conversation, for any number of messages, requests and events.   *)
THEOREM TalkInvariant == TalkSpec => []TalkInv
<1>1. TalkInv /\ [TalkNext]_talkVars => TalkInv'
  BY TalkStep
<1> QED BY TalkBegins, <1>1, PTL DEF TalkSpec

(* With nothing under way the list is the end of the conversation, without *)
(* a hole and with every status, in whatever order responses and events    *)
(* came, unless one was older than the list or lost.                       *)
THEOREM ConversationStaysTrue == TalkSpec => []ConversationIsTrue
<1>1. TalkInv => ConversationIsTrue
  <2> SUFFICES ASSUME TalkInv, active, feed = <<>>, \A r \in Reqs : Free(r), ~spoilt
               PROVE  \E first \in {1} \cup 1..Len(stored) : shown = [m \in first..Len(stored) |-> stored[m]]
    BY DEF ConversationIsTrue
  <2>1. TalkTypes /\ ScreenSound /\ ListWhole
    BY DEF TalkInv, ListTrue
  <2>2. /\ Len(stored) \in Nat /\ DOMAIN stored = 1..Len(stored) /\ DOMAIN shown \subseteq DOMAIN stored
    BY <2>1, MsgsAre DEF ScreenSound, Had
  <2>3. ASSUME NEW m
        PROVE  ~UpIn(m) /\ ~NewIn(m) /\ ~ResponseFor(m) /\ ~Coming(m)
    BY DEF UpIn, NewIn, ResponseFor, Coming, Brings, Free
  <2>4. ASSUME NEW m \in DOMAIN stored
        PROVE  Before(m, shown) \/ (m \in DOMAIN shown /\ shown[m] = stored[m])
    BY <2>1, <2>3 DEF ListWhole, Owed
  <2>5. CASE DOMAIN shown = {}
    <3>1. DOMAIN stored = {}
      BY <2>4, <2>5 DEF Before
    <3>2. Len(stored) = 0
      BY <2>2, <3>1
    <3>3. shown = [m \in 1..Len(stored) |-> stored[m]]
      <4>1. PICK list \in Listings : list = shown
        BY <2>1 DEF TalkTypes
      <4>2. list = [m \in DOMAIN list |-> list[m]]
        BY ListingIs
      <4>3. 1..Len(stored) = {}
        BY <3>2
      <4> QED BY <2>5, <4>1, <4>2, <4>3
    <3> QED BY <3>3
  <2>6. CASE DOMAIN shown # {}
    <3>1. PICK first \in DOMAIN stored : first \in DOMAIN shown /\ \A n \in DOMAIN shown : first <= n
      <4>1. DOMAIN shown \in SUBSET Nat
        BY <2>2
      <4> QED BY <2>2, <2>6, <4>1, OldestIsFirst
    <3>2. \A m \in DOMAIN stored : m >= first => ~Before(m, shown)
      BY <2>2, <3>1 DEF Before
    <3>3. DOMAIN shown = first..Len(stored)
      <4>1. \A m \in DOMAIN shown : m \in first..Len(stored)
        BY <2>2, <3>1
      <4>2. \A m \in first..Len(stored) : m \in DOMAIN shown
        BY <2>2, <2>4, <3>1, <3>2
      <4> QED BY <4>1, <4>2
    <3>4. shown = [m \in first..Len(stored) |-> stored[m]]
      <4>1. PICK list \in Listings : list = shown
        BY <2>1 DEF TalkTypes
      <4>2. list = [m \in DOMAIN list |-> list[m]]
        BY ListingIs
      <4>3. \A m \in first..Len(stored) : list[m] = stored[m]
        BY <2>2, <2>4, <3>1, <3>2, <3>3, <4>1
      <4> QED BY <3>3, <4>1, <4>2, <4>3
    <3> QED BY <2>2, <3>1, <3>4
  <2> QED BY <2>5, <2>6
<1> QED BY <1>1, TalkInvariant, PTL

=============================================================================
