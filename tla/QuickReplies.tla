---------------------------- MODULE QuickReplies ----------------------------
(***************************************************************************)
(* Quick replies: texts with variables that supervisors keep               *)
(* (frontend/src/pages/QuickReplies.jsx,                                   *)
(* backend/src/modules/quickReplies/quickReply.service.js) and that an     *)
(* agent finds by typing a slash, fills in and sends                       *)
(* (frontend/src/components/chatExclusive/ChatWindow.jsx).                 *)
(*                                                                         *)
(* The agent's window shows what a search brought once, since it keeps the *)
(* answers for good, and the server sends the text that the reply has when *)
(* it reads it.  A text is its version, and Variables says which variables *)
(* it has; all replies here have the same title, of which one may be       *)
(* active (uq_quick_replies_tenant_titulo_active).                         *)
(***************************************************************************)
EXTENDS Integers

CONSTANTS
  Replies,     \* ids
  Inbox,       \* the agent's chats
  Variables,   \* per text, the variables in it: text n has those of the n-th
  MaxWrites,   \* bound: requests of supervisors
  MaxMoves,    \* bound: changes of chat, drafts, requests that fail
  MaxTries,    \* bound: clicks on the button that sends a draft
  NoReply, NoDraft, NoList

Texts == DOMAIN Variables

ASSUME RepliesAssumption ==
  /\ 1 \in Texts /\ {MaxWrites, MaxMoves, MaxTries} \subseteq Nat
  /\ NoReply \notin [text : Texts, active : BOOLEAN, version : Nat]

VARIABLES
  replies,   \* quick_replies: the text, whether it is active, and how often it was written
  writers,   \* handlers of supervisors under way
  items,     \* what the supervisors' page lists
  form,      \* the form of the page
  chat,      \* the chat that the agent has open
  slash,     \* the agent has typed a slash
  listed,    \* suggestions
  kept,      \* quickReplyCacheRef: the answer to the search, or NoList
  search,    \* the search under way: not made, asked, or its answer
  draft,     \* the reply that the agent fills in, and whether it is filled
  sending,   \* requests to send, from the click to the answer
  sent,      \* history: messages that went out
  misled,    \* history: drafts of which an answer did not come in time, or was an error
             \* although the message was out
  drafts, writes, moves

page      == <<items, form>>
typing    == <<slash, listed, kept, search>>
agent     == <<chat, typing, draft>>
quickVars == <<replies, writers, page, agent, sending, sent, misled, drafts, writes, moves>>

Stored == {r \in Replies : replies[r] # NoReply}
Active == {r \in Stored : replies[r].active}
Listing(set) ==
  {[id |-> r, text |-> replies[r].text, active |-> replies[r].active, version |-> replies[r].version] :
     r \in set}

EmptyForm == [id |-> NoReply, text |-> 1, active |-> TRUE]

QuickInit ==
  /\ \E r \in Replies :
       replies = [s \in Replies |-> IF s = r THEN [text |-> 1, active |-> TRUE, version |-> 1] ELSE NoReply]
  /\ writers = {} /\ items = Listing(Stored) /\ form = EmptyForm
  /\ chat \in Inbox
  /\ slash = FALSE /\ listed = {} /\ kept = NoList /\ search = "none"
  /\ draft = NoDraft /\ sending = {} /\ sent = {} /\ misled = {}
  /\ drafts = 0 /\ writes = 0 /\ moves = 0

Move == moves < MaxMoves /\ moves' = moves + 1

-----------------------------------------------------------------------------
(* The supervisors' page.                                                  *)
LoadQuickReplies ==
  /\ items # Listing(Stored) /\ items' = Listing(Stored)
  /\ UNCHANGED <<replies, writers, form, agent, sending, sent, misled, drafts, writes, moves>>

EditReply(item) ==
  /\ form = EmptyForm
  /\ form' = [id |-> item.id, text |-> item.text, active |-> item.active]
  /\ UNCHANGED <<replies, writers, items, agent, sending, sent, misled, drafts, writes, moves>>

Request(what, id, fields) ==
  /\ writes < MaxWrites /\ writes' = writes + 1
  /\ writers' = writers \cup {[what |-> what, id |-> id, fields |-> fields, row |-> NoReply]}

(* The form sends the text and the switch, as they are or changed.         *)
HandleSubmit(text, active) ==
  /\ Request(IF form.id = NoReply THEN "create" ELSE "update", form.id,
             [text |-> text, active |-> active])
  /\ form' = EmptyForm
  /\ UNCHANGED <<replies, items, agent, sending, sent, misled, drafts, moves>>

(* The buttons of an item activate or deactivate it.                       *)
HandleToggle(item) ==
  /\ IF item.active THEN Request("remove", item.id, [active |-> FALSE])
                    ELSE Request("update", item.id, [active |-> TRUE])
  /\ UNCHANGED <<replies, page, agent, sending, sent, misled, drafts, moves>>

-----------------------------------------------------------------------------
(* The handlers.  The index refuses a second active reply of the title.    *)
PutReply(r, row) ==
  IF row.active /\ Active \ {r} # {} THEN UNCHANGED replies ELSE replies' = [replies EXCEPT ![r] = row]

CreateQuickReply(h) ==
  /\ h.what = "create"
  /\ \E r \in Replies \ Stored :
       PutReply(r, [text |-> h.fields.text, active |-> h.fields.active, version |-> 1])
  /\ writers' = writers \ {h}
  /\ UNCHANGED <<page, agent, sending, sent, misled, drafts, writes, moves>>

(* An update, and a removal, read the row ...                              *)
ReadExisting(h) ==
  /\ h.what # "create" /\ h.row = NoReply
  /\ writers' = (writers \ {h}) \cup {[h EXCEPT !.row = replies[h.id]]}
  /\ UNCHANGED <<replies, page, agent, sending, sent, misled, drafts, writes, moves>>

(* ... and write: the update all columns, those that were not sent as they *)
(* were read, and the removal one.                                         *)
Merged(h) ==
  LET old == replies[h.id]
  IN IF h.what = "remove" THEN [old EXCEPT !.active = FALSE]
     ELSE [text |-> IF "text" \in DOMAIN h.fields THEN h.fields.text ELSE h.row.text,
           active |-> h.fields.active, version |-> old.version + 1]

WriteReply(h) ==
  /\ h.what # "create" /\ h.row # NoReply
  /\ PutReply(h.id, Merged(h))
  /\ writers' = writers \ {h}
  /\ UNCHANGED <<page, agent, sending, sent, misled, drafts, writes, moves>>

-----------------------------------------------------------------------------
(* Mutant: the draft stays.                                                *)
ClearedTyping == slash' = FALSE /\ listed' = {} /\ UNCHANGED draft

(* The agent's window.  Opening another chat clears what was typed in the  *)
(* last one, but not what is being sent.                                   *)
Cleared == slash' = FALSE /\ listed' = {} /\ draft' = NoDraft

SelectChat(c) ==
  /\ c # chat /\ Move
  /\ chat' = c /\ Cleared
  /\ UNCHANGED <<replies, writers, page, kept, search, sending, sent, misled, drafts, writes>>

(* A slash makes a search, unless one was answered before.                 *)
TypeSlash ==
  /\ ~slash /\ draft = NoDraft /\ slash' = TRUE
  /\ IF kept # NoList THEN listed' = kept /\ UNCHANGED search
     ELSE search' = (IF search = "none" THEN "asked" ELSE search) /\ UNCHANGED listed
  /\ UNCHANGED <<replies, writers, page, chat, kept, draft, sending, sent, misled, drafts, writes, moves>>

EraseSlash ==
  /\ slash /\ slash' = FALSE /\ listed' = {}
  /\ UNCHANGED <<replies, writers, page, chat, kept, search, draft, sending, sent, misled, drafts, writes, moves>>

Suggest(results) ==
  /\ kept' = results
  /\ listed' = IF slash THEN results ELSE listed

(* The server lists the active replies; the answer is kept and shown, even *)
(* when it comes to another chat.  A search that fails counts as one that  *)
(* found nothing.                                                          *)
SearchAnswers ==
  /\ search = "asked" /\ search' = "none"
  /\ \/ Suggest(Listing(Active)) /\ UNCHANGED moves
     \/ Move /\ Suggest({})
  /\ UNCHANGED <<replies, writers, page, chat, slash, draft, sending, sent, misled, drafts, writes>>

HandleSelectQuickReply(item) ==
  /\ slash /\ draft = NoDraft /\ Move
  /\ drafts' = drafts + 1
  /\ draft' = [no |-> drafts, item |-> item, chat |-> chat, tries |-> 0,
              filled |-> Variables[item.text] = {}]
  /\ slash' = FALSE /\ listed' = {}
  /\ UNCHANGED <<replies, writers, page, chat, kept, search, sending, sent, misled, writes>>

FillIn ==
  /\ draft # NoDraft /\ ~draft.filled /\ draft' = [draft EXCEPT !.filled = TRUE]
  /\ UNCHANGED <<replies, writers, page, chat, typing, sending, sent, misled, drafts, writes, moves>>

CancelDraft ==
  /\ draft # NoDraft /\ draft' = NoDraft
  /\ UNCHANGED <<replies, writers, page, chat, typing, sending, sent, misled, drafts, writes, moves>>

(* Sending is a request for the chat that is open, one at a time as far as *)
(* the window knows.                                                       *)
Waiting == {s \in sending : s.heard}

HandleSend ==
  /\ draft # NoDraft /\ draft.filled /\ draft.tries < MaxTries /\ Waiting = {}
  /\ draft' = [draft EXCEPT !.tries = @ + 1]
  /\ sending' = sending \cup
       {[draft |-> draft', chat |-> chat, at |-> "read", row |-> NoReply, heard |-> TRUE]}
  /\ UNCHANGED <<replies, writers, page, chat, typing, sent, misled, drafts, writes, moves>>

(* The server reads the reply, which must be active and have the variables *)
(* that were filled in,                                                    *)
Step(s, t) == sending' = (sending \ {s}) \cup {t}

Refuses(s, row) == ~row.active \/ Variables[row.text] # Variables[s.draft.item.text]

ReadToSend(s) ==
  /\ s.at = "read"
  /\ LET row == replies[s.draft.item.id]
     IN Step(s, IF Refuses(s, row) THEN [s EXCEPT !.at = "error"] ELSE [s EXCEPT !.at = "send", !.row = row])
  /\ UNCHANGED <<replies, writers, page, agent, sent, misled, drafts, writes, moves>>

(* and sends the message, which may be refused or fail before it is out.   *)
SendChatMessage(s) ==
  /\ s.at = "send"
  /\ \/ /\ sent' = sent \cup {[chat |-> s.chat, draft |-> s.draft, text |-> s.row.text, version |-> s.row.version]}
        /\ Step(s, [s EXCEPT !.at = "out"]) /\ UNCHANGED moves
     \/ Move /\ Step(s, [s EXCEPT !.at = "error"]) /\ UNCHANGED sent
  /\ UNCHANGED <<replies, writers, page, agent, misled, drafts, writes>>

(* A message that is out is still to be stored, told to the others and     *)
(* audited; what fails of that fails the request (the insert does when the *)
(* echo of the message came first).                                        *)
RecordUse(s) ==
  /\ s.at = "out"
  /\ \/ Step(s, [s EXCEPT !.at = "ok"]) /\ UNCHANGED <<misled, moves>>
     \/ Move /\ Step(s, [s EXCEPT !.at = "error"]) /\ misled' = misled \cup {s.draft.no}
  /\ UNCHANGED <<replies, writers, page, agent, sent, drafts, writes>>

(* The answer clears the draft, that of another chat too; an error leaves  *)
(* it.                                                                     *)
SendAnswers(s) ==
  /\ s.heard /\ s.at \in {"ok", "error"}
  /\ sending' = sending \ {s}
  /\ draft' = IF s.at = "ok" THEN NoDraft ELSE draft
  /\ UNCHANGED <<replies, writers, page, chat, typing, sent, misled, drafts, writes, moves>>

(* Or it does not come in time, which is an error to the window, while the *)
(* server goes on.                                                         *)
SendTimesOut(s) ==
  /\ s.heard /\ Move
  /\ IF s.at \in {"ok", "error"} THEN sending' = sending \ {s} ELSE Step(s, [s EXCEPT !.heard = FALSE])
  /\ misled' = misled \cup {s.draft.no}
  /\ UNCHANGED <<replies, writers, page, agent, sent, drafts, writes>>

Forgotten(s) ==
  /\ ~s.heard /\ s.at \in {"ok", "error"} /\ sending' = sending \ {s}
  /\ UNCHANGED <<replies, writers, page, agent, sent, misled, drafts, writes, moves>>

QuickNext ==
  \/ LoadQuickReplies
  \/ \E item \in items : EditReply(item) \/ HandleToggle(item)
  \/ \E text \in Texts, active \in BOOLEAN : HandleSubmit(text, active)
  \/ \E h \in writers : CreateQuickReply(h) \/ ReadExisting(h) \/ WriteReply(h)
  \/ \E c \in Inbox : SelectChat(c)
  \/ TypeSlash \/ EraseSlash \/ SearchAnswers
  \/ \E item \in listed : HandleSelectQuickReply(item)
  \/ FillIn \/ CancelDraft \/ HandleSend
  \/ \E s \in sending :
       \/ ReadToSend(s) \/ SendChatMessage(s) \/ RecordUse(s)
       \/ SendAnswers(s) \/ SendTimesOut(s) \/ Forgotten(s)

QuickSpec == QuickInit /\ [][QuickNext]_quickVars

-----------------------------------------------------------------------------
(* A quick reply goes out as it was composed: to the chat in which it was  *)
(* composed, with the text that the window showed unless a supervisor has  *)
(* written another one since, and once unless the window was misled about  *)
(* it: an answer did not come in time, or it was an error although the     *)
(* message was out (chatMessageService.js:257-296 and                      *)
(* quickReply.service.js:256-274 await their inserts and audits after the  *)
(* message went out, and ChatWindow.jsx:343 keeps the draft).              *)
AsComposed ==
  \A m \in sent :
    /\ m.chat = m.draft.chat
    /\ m.version = m.draft.item.version => m.text = m.draft.item.text
    /\ m.version >= m.draft.item.version
    /\ \A n \in sent : n.draft.no = m.draft.no => n = m \/ m.draft.no \in misled

=============================================================================
