----------------------------- MODULE MessageLog -----------------------------
(***************************************************************************)
(* What the table chat_messages promises about each WhatsApp message: it   *)
(* is stored once and stays, is announced to the agents at most once and   *)
(* not before, keeps the text it first had through any number of edits,    *)
(* stays deleted, and its status only goes forward, unless an event was    *)
(* overtaken by a younger one (`doubtful`).  MessageStore implements it.   *)
(***************************************************************************)
EXTENDS Naturals

CONSTANTS Ids,   \* WhatsApp's ids of the messages of one conversation
          NoRow

VARIABLES rows,     \* chat_messages, by whatsapp_message_id
          told,     \* how often message:new was emitted for it
          doubtful  \* history: messages with an event overtaken by a younger

Rank == [received |-> 0, sent |-> 0, server |-> 1, delivered |-> 2, read |-> 3, deleted |-> 4]
Unedited == 0

LogInit == /\ rows = [m \in Ids |-> NoRow]
           /\ told = [m \in Ids |-> 0]
           /\ doubtful = {}

Put(m, row) == rows' = [rows EXCEPT ![m] = row]

Store(m) ==
  /\ rows[m] = NoRow /\ rows'[m] # NoRow
  /\ rows'[m].first = Unedited /\ ~rows'[m].gone
  /\ Put(m, rows'[m])
  /\ UNCHANGED <<told, doubtful>>

Tell(m) ==
  /\ rows[m] # NoRow /\ told[m] = 0
  /\ told' = [told EXCEPT ![m] = 1]
  /\ UNCHANGED <<rows, doubtful>>

(* An acknowledgement, an edit or both.                                    *)
Amend(m) ==
  /\ rows[m] # NoRow /\ rows'[m] # NoRow
  /\ Put(m, [rows[m] EXCEPT !.status = rows'[m].status, !.text = rows'[m].text,
                            !.first = rows'[m].first])
  /\ Rank[rows'[m].status] >= Rank[rows[m].status] \/ m \in doubtful'
  /\ rows'[m].first = IF rows'[m].text = rows[m].text \/ rows[m].first # Unedited
                      THEN rows[m].first ELSE rows[m].text
  /\ doubtful' \in {doubtful, doubtful \cup {m}}
  /\ UNCHANGED told

Erase(m) ==
  /\ rows[m] # NoRow
  /\ Put(m, [rows[m] EXCEPT !.status = "deleted", !.gone = TRUE])
  /\ UNCHANGED <<told, doubtful>>

LogNext == \E m \in Ids : Store(m) \/ Tell(m) \/ Amend(m) \/ Erase(m)

LogSpec == LogInit /\ [][LogNext]_<<rows, told, doubtful>>

=============================================================================
