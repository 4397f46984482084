---------------------------- MODULE MessageStore ----------------------------
(***************************************************************************)
(* The messages of one conversation between WhatsApp, the handlers of its  *)
(* events, and the agents' requests (backend/src/services/                 *)
(* chatMessageService.js, chatMessageEditService.js,                       *)
(* whatsappInboundService.js, infra/db/chatMessageRepository.js and the    *)
(* message handlers of whatsapp/whatsappSocket.js).  A handler is a        *)
(* process; a step is what it does up to an await: one statement or one    *)
(* call.  What it does to the chat's row is ChatLifecycle's.  `emit` does  *)
(* not wait, so the handlers of one message run side by side.              *)
(***************************************************************************)
EXTENDS MessageLog, FiniteSets

CONSTANTS
  Handlers,   \* handlers at work together
  MaxOffers,  \* bound: how often WhatsApp delivers a message
  MaxAck, MaxEdit  \* bounds: acknowledgements, edits of a message

(* A row of the table; a text is 1 at first and e + 1 after edit e.         *)
MessageRow ==
  [by : {"send", "media", "live", "history"}, status : DOMAIN Rank,
   text : 1..(MaxEdit + 1), first : 0..(MaxEdit + 1), gone : BOOLEAN]

ASSUME StoreAssumption ==
  /\ MaxOffers \in Nat /\ MaxAck \in 1..3 /\ MaxEdit \in Nat
  /\ NoRow \notin Ids /\ NoRow \notin MessageRow

VARIABLES
  own,     \* the messages that are ours, from the application or from the phone
  wire,    \* what WhatsApp has done to each message
  offers,  \* upserts of it delivered
  pc, job, \* handlers: where, and [kind, id, arg]
  answer,  \* what the API told the agent who sent it
  newest,  \* history: the last acknowledgement and the last edit written
  missed,  \* history: messages an update was for before they had a row
  faulty   \* history: messages with a failed statement or call, or a dropped event

outside == <<own, wire, offers>>
handlers == <<pc, job>>
history == <<newest, missed, faulty>>
log == <<rows, told, doubtful>>
vars == <<log, outside, handlers, answer, history>>

Acks == <<"server", "delivered", "read">>
NoJob == [kind |-> "none", id |-> NoRow, arg |-> 0]

Init ==
  /\ LogInit /\ own \in SUBSET Ids
  /\ wire = [m \in Ids |-> [known |-> m \notin own, acks |-> 0, edits |-> 0, wiped |-> FALSE]]
  /\ offers = [m \in Ids |-> 0]
  /\ pc = [h \in Handlers |-> "idle"] /\ job = [h \in Handlers |-> NoJob]
  /\ answer = [m \in Ids |-> "none"]
  /\ newest = [m \in Ids |-> [ack |-> 0, edit |-> 0]] /\ missed = {} /\ faulty = {}

Begin(h, kind, m, arg, step) ==
  /\ pc[h] = "idle"
  /\ pc' = [pc EXCEPT ![h] = step]
  /\ job' = [job EXCEPT ![h] = [kind |-> kind, id |-> m, arg |-> arg]]

Goto(h, step) == pc' = [pc EXCEPT ![h] = step] /\ UNCHANGED job
End(h) == pc' = [pc EXCEPT ![h] = "idle"] /\ job' = [job EXCEPT ![h] = NoJob]

Sending(h) == job[h].kind \in {"send", "media"}
Reply(h, a) == answer' = IF Sending(h) THEN [answer EXCEPT ![job[h].id] = a] ELSE answer

-----------------------------------------------------------------------------
(* sendMessage and sendMediaMessage, once the permission is given: WhatsApp *)
(* first, then the file of a medium, the row, and the events.              *)
Send(h, m) ==
  /\ m \in own /\ answer[m] = "none" /\ ~wire[m].known
  /\ \A g \in Handlers : job[g].id # m
  /\ \E kind \in {"send", "media"} : Begin(h, kind, m, 0, "deliver")
  /\ UNCHANGED <<log, outside, answer, history>>

sendWhatsAppMessage(h) ==
  LET m == job[h].id IN
  /\ pc[h] = "deliver"
  /\ \/ /\ wire' = [wire EXCEPT ![m].known = TRUE]
        /\ Goto(h, IF job[h].kind = "media" THEN "save" ELSE "insert")
        /\ UNCHANGED <<answer, faulty>>
     \/ /\ wire' \in {wire, [wire EXCEPT ![m].known = TRUE]}
        /\ End(h) /\ Reply(h, "error")
        /\ faulty' = faulty \cup {m}
  /\ UNCHANGED <<log, own, offers, newest, missed>>

saveMediaBuffer(h) ==
  /\ pc[h] = "save" /\ Goto(h, "insert")
  /\ UNCHANGED <<log, outside, answer, history>>

NewRow(h) ==
  [by |-> job[h].kind, text |-> 1, first |-> Unedited, gone |-> FALSE,
   status |-> IF Sending(h) THEN "server" ELSE IF job[h].id \in own THEN "sent" ELSE "received"]

RefusedQuietly(h) == Reply(h, "ok")  \* mutant

(* The unique indexes refuse a second row of one message: who sent it gets *)
(* an error although the message is out.                                   *)
Taken(m) == rows[m] # NoRow
Refused(h) == Reply(h, "error")

insertMessage(h) ==
  LET m == job[h].id IN
  /\ pc[h] = "insert"
  /\ \/ /\ ~Taken(m) /\ Put(m, NewRow(h))
        /\ IF Sending(h) \/ (m \notin own /\ job[h].kind = "live") THEN Goto(h, "tell") ELSE End(h)
        /\ newest' = [newest EXCEPT ![m].ack = IF Sending(h) /\ @ = 0 THEN 1 ELSE @]
        /\ UNCHANGED answer
     \/ /\ Taken(m) /\ End(h) /\ Refused(h)
        /\ UNCHANGED <<rows, newest>>
  /\ UNCHANGED <<told, doubtful, outside, missed, faulty>>

emitChatEvents(h) ==
  /\ pc[h] = "tell"
  /\ told' = [told EXCEPT ![job[h].id] = @ + 1]
  /\ IF Sending(h) THEN Goto(h, "audit") ELSE End(h)
  /\ UNCHANGED <<rows, doubtful, outside, answer, history>>

logChatMsgAudit(h) ==
  /\ pc[h] = "audit" /\ End(h) /\ Reply(h, "ok")
  /\ UNCHANGED <<log, outside, history>>

-----------------------------------------------------------------------------
(* handleMessagesUpsert and handleIncomingWhatsAppMessage.                 *)
PhoneSends(m) ==
  /\ m \in own /\ answer[m] = "none" /\ ~wire[m].known
  /\ \A g \in Handlers : job[g].id # m
  /\ wire' = [wire EXCEPT ![m].known = TRUE]
  /\ UNCHANGED <<log, own, offers, handlers, answer, history>>

Upsert(h, m) ==
  /\ wire[m].known /\ offers[m] < MaxOffers
  /\ offers' = [offers EXCEPT ![m] = @ + 1]
  /\ \E kind \in {"live", "history"} : Begin(h, kind, m, 0, "find")
  /\ UNCHANGED <<log, own, wire, answer, history>>

(* The status an upsert had, if WhatsApp had given it one.                 *)
mapUpsertStatus(m) == wire[m].acks

(* The row of a message by its session, number and id.                     *)
findMessageByUniqueKey(m) == rows[m]

(* The handler of `message` starts at once; for an own message the handler *)
(* of the update with the status the upsert had starts beside it.          *)
handleMessagesUpsert(h) ==
  LET m == job[h].id IN
  /\ pc[h] = "find"
  /\ \/ findMessageByUniqueKey(m) # NoRow /\ End(h)
     \/ /\ findMessageByUniqueKey(m) = NoRow
        /\ \/ Goto(h, IF m \in own THEN "insert" ELSE "recheck")
           \/ /\ m \in own /\ mapUpsertStatus(m) > 0
              /\ \E g \in Handlers :
                   /\ pc[g] = "idle"
                   /\ pc' = [pc EXCEPT ![h] = "insert", ![g] = "write"]
                   /\ job' = [job EXCEPT ![g] = [kind |-> "ack", id |-> m, arg |-> mapUpsertStatus(m)]]
  /\ UNCHANGED <<log, outside, answer, history>>

handleIncomingWhatsAppMessage(h) ==
  /\ pc[h] = "recheck"
  /\ IF findMessageByUniqueKey(job[h].id) # NoRow THEN End(h) ELSE Goto(h, "insert")
  /\ UNCHANGED <<log, outside, answer, history>>

-----------------------------------------------------------------------------
(* handleMessagesUpdate, handleMessagesDelete and the handlers they start. *)
Acknowledge(h, m) ==
  /\ wire[m].known /\ wire[m].acks < MaxAck
  /\ wire' = [wire EXCEPT ![m].acks = @ + 1]
  /\ Begin(h, "ack", m, wire[m].acks + 1, "write")
  /\ UNCHANGED <<log, own, offers, answer, history>>

Edit(h, m) ==
  /\ wire[m].known /\ wire[m].edits < MaxEdit
  /\ wire' = [wire EXCEPT ![m].edits = @ + 1]
  /\ Begin(h, "edit", m, wire[m].edits + 2, "write")
  /\ UNCHANGED <<log, own, offers, answer, history>>

Wipe(h, m) ==
  /\ wire[m].known /\ ~wire[m].wiped
  /\ wire' = [wire EXCEPT ![m].wiped = TRUE]
  /\ Begin(h, "wipe", m, 0, "write")
  /\ UNCHANGED <<log, own, offers, answer, history>>

(* mutants: an edit keeps the last text as the original; the status of an  *)
(* update is written even when it has none.                                *)
UpdatedLast(row, j) ==
  IF j.kind = "ack" THEN [row EXCEPT !.status = Acks[j.arg]]
  ELSE [row EXCEPT !.text = j.arg, !.first = row.text]

UpdatedBlank(row, j) ==
  IF j.kind = "ack" THEN [row EXCEPT !.status = Acks[j.arg]]
  ELSE [row EXCEPT !.text = j.arg, !.status = "received",
                   !.first = IF row.first = Unedited THEN row.text ELSE row.first]

(* COALESCE keeps the status an update does not have; original_content is  *)
(* the text before the first edit.                                         *)
Updated(row, j) ==
  IF j.kind = "ack" THEN [row EXCEPT !.status = Acks[j.arg]]
  ELSE [row EXCEPT !.text = j.arg, !.first = IF row.first = Unedited THEN row.text ELSE row.first]

(* The attempts (by number, by session, by id alone) come to one UPDATE of *)
(* the message's row, if it is there.                                      *)
updateMessageStatus(h) ==
  LET m == job[h].id
      last == newest[m][job[h].kind]
      overtaken == job[h].arg < last \/ (job[h].kind = "ack" /\ rows[m].gone) IN
  /\ pc[h] = "write" /\ job[h].kind \in {"ack", "edit"} /\ End(h)
  /\ \/ /\ rows[m] = NoRow /\ missed' = missed \cup {m}
        /\ UNCHANGED <<rows, doubtful, newest>>
     \/ /\ rows[m] # NoRow
        /\ Put(m, Updated(rows[m], job[h]))
        /\ doubtful' = IF overtaken THEN doubtful \cup {m} ELSE doubtful
        /\ newest' = [newest EXCEPT ![m][job[h].kind] = IF job[h].arg > last THEN job[h].arg ELSE last]
        /\ UNCHANGED missed
  /\ UNCHANGED <<told, outside, answer, faulty>>

softDeleteMessage(h) ==
  LET m == job[h].id IN
  /\ pc[h] = "write" /\ job[h].kind \in {"wipe", "erase"} /\ End(h)
  /\ \/ /\ rows[m] = NoRow /\ missed' = missed \cup {m} /\ UNCHANGED <<rows, wire>>
     \/ /\ rows[m] # NoRow
        /\ Put(m, [rows[m] EXCEPT !.status = "deleted", !.gone = TRUE])
        /\ wire' = [wire EXCEPT ![m].wiped = @ \/ job[h].kind = "erase"]
        /\ UNCHANGED missed
  /\ UNCHANGED <<told, doubtful, own, offers, answer, newest, faulty>>

(* The row of a message by WhatsApp's id alone.                            *)
findMessageByWhatsappId(m) == rows[m]

(* deleteMessageService: the row is marked, then WhatsApp is asked to      *)
(* delete the message, without waiting for it.                             *)
deleteMessageService(h, m) ==
  /\ findMessageByWhatsappId(m) # NoRow
  /\ Begin(h, "erase", m, 0, "write")
  /\ UNCHANGED <<log, outside, answer, history>>

(* A statement fails, or a file cannot be had or kept; the realtime queue  *)
(* is full and an event is dropped.                                        *)
Fail(h) ==
  /\ pc[h] \in {"save", "insert", "audit", "find", "recheck", "write"}
  /\ End(h) /\ Reply(h, "error")
  /\ faulty' = faulty \cup {job[h].id}
  /\ UNCHANGED <<log, outside, newest, missed>>

Dropped(m) ==
  /\ wire[m].known
  /\ \/ /\ offers[m] < MaxOffers /\ offers' = [offers EXCEPT ![m] = @ + 1] /\ UNCHANGED wire
     \/ /\ wire[m].acks < MaxAck /\ wire' = [wire EXCEPT ![m].acks = @ + 1] /\ UNCHANGED offers
  /\ faulty' = faulty \cup {m}
  /\ UNCHANGED <<log, own, handlers, answer, newest, missed>>

Handle(h) ==
  \/ sendWhatsAppMessage(h) \/ saveMediaBuffer(h) \/ insertMessage(h) \/ emitChatEvents(h)
  \/ logChatMsgAudit(h) \/ handleMessagesUpsert(h) \/ handleIncomingWhatsAppMessage(h)
  \/ updateMessageStatus(h) \/ softDeleteMessage(h) \/ Fail(h)

Arrive(h, m) ==
  \/ Send(h, m) \/ Upsert(h, m) \/ Acknowledge(h, m) \/ Edit(h, m) \/ Wipe(h, m)
  \/ deleteMessageService(h, m)

Next ==
  \/ \E h \in Handlers : Handle(h) \/ \E m \in Ids : Arrive(h, m)
  \/ \E m \in Ids : PhoneSends(m) \/ Dropped(m)

Spec == Init /\ [][Next]_vars

-----------------------------------------------------------------------------
(* Types.                                                                  *)
StoreTypeOK ==
  /\ rows \in [Ids -> MessageRow \cup {NoRow}]
  /\ told \in [Ids -> 0..1] /\ doubtful \cup missed \cup faulty \subseteq Ids
  /\ pc \in [Handlers -> {"idle", "deliver", "save", "insert", "tell", "audit", "find",
                          "recheck", "write"}]
  /\ answer \in [Ids -> {"none", "ok", "error"}]

Quiet(m) == \A h \in Handlers : job[h].id # m

(* Nothing is lost without a failure: once the handlers of a message are   *)
(* done, a message WhatsApp delivered has its row, one that came live has  *)
(* been announced, and one the agent was told of, even with an error       *)
(* although it went out, is in the conversation.                           *)
NothingLost ==
  \A m \in Ids \ faulty : Quiet(m) =>
    /\ offers[m] > 0 => rows[m] # NoRow
    /\ m \notin own /\ rows[m] # NoRow /\ rows[m].by = "live" => told[m] = 1
    /\ m \in own /\ answer[m] = "ok" => told[m] = 1 /\ rows[m].by \in {"send", "media"}
    /\ m \in own /\ answer[m] = "error" => rows[m] # NoRow /\ rows[m].by \in {"live", "history"}

(* The status shown is the last acknowledgement and the text the last      *)
(* edit's, when no event was early for the row, overtaken, or dropped.     *)
StatusIsTrue ==
  \A m \in Ids \ (faulty \cup missed \cup doubtful) :
    Quiet(m) /\ rows[m] # NoRow =>
      /\ rows[m].text = wire[m].edits + 1
      /\ ~rows[m].gone =>
           Rank[rows[m].status] =
             IF wire[m].acks = 0 /\ rows[m].by \in {"send", "media"} THEN 1 ELSE wire[m].acks

=============================================================================
