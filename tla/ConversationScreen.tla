------------------------- MODULE ConversationScreen -------------------------
(***************************************************************************)
(* One conversation as the chat page of the browser shows it (frontend/src *)
(* /pages/ChatView.jsx): pages of messages fetched over HTTP, and events   *)
(* of the shared socket (lib/eventsSocket.js) that come in their own order *)
(* but in none with the responses.  A step of the browser is one callback  *)
(* with the render and the effects it leads to; a step of the server is    *)
(* one request read or one event emitted (chatMessageService.js,           *)
(* infra/db/chatMessageRepository.js).  A message is its place in the      *)
(* order of time.  Left out: unread counts, scrolling, contacts, notices.  *)
(***************************************************************************)
EXTENDS Naturals, Sequences

CONSTANTS
  PageLen,      \* messages of one page (30)
  OldMsgs,       \* messages there are at the beginning
  MaxMsg, MaxReq, MaxWire, MaxLoads  \* bounds: messages; requests and events
                                     \* under way; pages asked for by the user

ASSUME ScreenAssumption ==
  /\ PageLen \in Nat \ {0} /\ OldMsgs \in Nat /\ MaxMsg \in Nat /\ OldMsgs <= MaxMsg
  /\ MaxReq \in Nat \ {0} /\ MaxWire \in Nat \ {0} /\ MaxLoads \in Nat

Msgs == 1..MaxMsg
Reqs == 1..MaxReq
Inbound == 0
Server == 1
Delivered == 2
Deleted == 3

VARIABLES
  stored,       \* chat_messages: the status of each message
  feed,      \* events on their way to this browser
  echo,      \* its user hears of its own messages too: a supervisor
  req,       \* HTTP requests under way
  active,    \* the conversation is the selected one
  fits,      \* its chat belongs to the tab
  shown,     \* messages[chatId]: the status of those in the list
  keys,      \* messageKeysRef
  cursor,    \* messageCursorRef, 0 without one
  loads,     \* pages the user asked for
  spoilt     \* history: a response or an event was older than the list it went
             \* to, or one was lost, since the last whole reload

server == <<stored, feed, echo>>
screen == <<active, fits, shown, keys, cursor>>
talkVars == <<server, req, screen, loads, spoilt>>

Idle == [kind |-> "none", at |-> "none", msg |-> 0, got |-> <<>>, next |-> 0, fresh |-> TRUE]
Free(r) == req[r].kind = "none"
Without(r) == [req EXCEPT ![r] = Idle]

TalkInit ==
  /\ stored = [m \in 1..OldMsgs |-> Inbound] /\ feed = <<>> /\ echo \in BOOLEAN
  /\ req = [r \in Reqs |-> Idle]
  /\ active = FALSE /\ fits \in BOOLEAN
  /\ shown = <<>> /\ keys = {} /\ cursor = 0 /\ loads = 0
  /\ spoilt = FALSE

-----------------------------------------------------------------------------
(* What happened to the list: everything under way at a spoiling is no     *)
(* cure for it.                                                            *)
Ages(reqs) == [r \in Reqs |-> IF reqs[r].kind = "none" THEN reqs[r] ELSE [reqs[r] EXCEPT !.fresh = FALSE]]
Spoils(yes, reqs) ==
  /\ spoilt' = (spoilt \/ yes)
  /\ req' = IF yes THEN Ages(reqs) ELSE reqs

Ask(r, kind, m) == [req EXCEPT ![r] = [Idle EXCEPT !.kind = kind, !.at = "asked", !.msg = m]]

(* Requests are sent one after the other: the first free slot.             *)
FirstFree(r) == Free(r) /\ \A q \in Reqs : q < r => ~Free(q)

-----------------------------------------------------------------------------
(* The server.                                                             *)
Emit(kind, m, s) == feed' = Append(feed, [kind |-> kind, msg |-> m, status |-> s])

(* A client writes.                                                        *)
ClientWrites ==
  /\ Len(stored) < MaxMsg /\ Len(feed) < MaxWire
  /\ stored' = Append(stored, Inbound) /\ Emit("new", Len(stored) + 1, Inbound)
  /\ UNCHANGED <<echo, req, screen, loads, spoilt>>

(* WhatsApp acknowledges one of ours (message_update of attachEvents).     *)
Acknowledged(m) ==
  /\ m \in DOMAIN stored /\ stored[m] = Server /\ Len(feed) < MaxWire
  /\ stored' = [stored EXCEPT ![m] = Delivered] /\ Emit("update", m, Delivered)
  /\ UNCHANGED <<echo, req, screen, loads, spoilt>>

(* listMessagesByChat: the last Page messages before the cursor, and the   *)
(* cursor of the next page when this one is full.                          *)
listMessagesByChat(before) ==
  LET last == IF before = 0 THEN Len(stored) ELSE before - 1
      first == IF last > PageLen THEN last - PageLen + 1 ELSE 1 IN
  [list |-> [m \in first..last |-> stored[m]],
   next |-> IF last >= PageLen THEN first ELSE 0]

ServePage(r) ==
  /\ req[r].at = "asked" /\ req[r].kind \in {"reset", "older"}
  /\ LET page == listMessagesByChat(req[r].msg) IN
     req' = [req EXCEPT ![r].at = "read", ![r].got = page.list, ![r].next = page.next]
  /\ UNCHANGED <<server, screen, loads, spoilt>>

(* sendMessage: the row, the event to everybody but an agent who sent it,  *)
(* and later the response.                                                 *)
ServeSend(r) ==
  /\ req[r].at = "asked" /\ req[r].kind = "send"
  /\ Len(stored) < MaxMsg /\ Len(feed) < MaxWire
  /\ stored' = Append(stored, Server)
  /\ IF echo THEN Emit("new", Len(stored) + 1, Server) ELSE UNCHANGED feed
  /\ req' = [req EXCEPT ![r].at = "read", ![r].msg = Len(stored) + 1]
  /\ UNCHANGED <<echo, screen, loads, spoilt>>

ServeDelete(r) ==
  /\ req[r].at = "asked" /\ req[r].kind = "delete" /\ Len(feed) < MaxWire
  /\ stored' = [stored EXCEPT ![req[r].msg] = Deleted] /\ Emit("update", req[r].msg, Deleted)
  /\ req' = [req EXCEPT ![r].at = "read"]
  /\ UNCHANGED <<echo, screen, loads, spoilt>>

-----------------------------------------------------------------------------
(* The user.  Selecting the conversation reloads it from its end.          *)
Select(r) ==
  /\ ~active /\ fits /\ loads < MaxLoads /\ FirstFree(r)
  /\ active' = TRUE /\ cursor' = 0 /\ loads' = loads + 1
  /\ req' = Ask(r, "reset", 0)
  /\ UNCHANGED <<server, fits, shown, keys, spoilt>>

SwitchTab ==
  /\ loads < MaxLoads
  /\ active' = FALSE /\ fits' = ~fits
  /\ UNCHANGED <<server, req, shown, keys, cursor, loads, spoilt>>

handleLoadMoreMessages(r) ==
  /\ active /\ cursor # 0 /\ loads < MaxLoads /\ FirstFree(r)
  /\ loads' = loads + 1
  /\ req' = Ask(r, "older", cursor)
  /\ UNCHANGED <<server, screen, spoilt>>

SendClicked(r) ==
  /\ active /\ Len(stored) < MaxMsg /\ FirstFree(r)
  /\ \A q \in Reqs : req[q].kind # "send"
  /\ req' = Ask(r, "send", 0)
  /\ UNCHANGED <<server, screen, loads, spoilt>>

confirmDeleteMessage(r, m) ==
  /\ active /\ m \in DOMAIN shown /\ shown[m] \in {Server, Delivered} /\ FirstFree(r)
  /\ \A q \in Reqs : req[q].kind # "delete"
  /\ req' = Ask(r, "delete", m)
  /\ UNCHANGED <<server, screen, loads, spoilt>>

-----------------------------------------------------------------------------
(* Responses.                                                              *)

(* dedupeMessages gives each message once; of two entries of one message   *)
(* the later in the list has its status kept.                              *)
dedupeMessages(later, list) ==
  [m \in DOMAIN later \cup DOMAIN list |-> IF m \in DOMAIN later THEN later[m] ELSE list[m]]

(* mutants: an older page replaces the list; the newest page is added to   *)
(* what is there.                                                          *)
OlderReplaces(got) == got
ReloadAdds(got) == dedupeMessages(shown, got)

Prepended(got) == dedupeMessages(shown, got)
Reloaded(got) == got
Appended(m, s) == dedupeMessages([n \in {m} |-> s], shown)

(* The new list lacks a message the old one had after its own, or takes a  *)
(* status back.                                                            *)
Overwrites(new) ==
  \E m \in DOMAIN shown :
    IF m \in DOMAIN new THEN new[m] < shown[m] ELSE \A n \in DOMAIN new : m > n

(* A message from before the list, and not the one before it: those between*)
(* may never come.                                                         *)
Earlier(m) == DOMAIN shown # {} /\ \A n \in DOMAIN shown : m + 1 < n

(* loadMessagesWithCursor, for the end of the conversation ...             *)
loadMessages(r) ==
  /\ req[r].at = "read" /\ req[r].kind = "reset"
  /\ shown' = Reloaded(req[r].got) /\ cursor' = req[r].next
  /\ LET over == Overwrites(shown') IN
     /\ spoilt' = (over \/ (spoilt /\ ~req[r].fresh))
     /\ req' = [q \in Reqs |-> IF q = r THEN Idle
                               ELSE IF over \/ req[q].kind = "older" THEN Ages(req)[q] ELSE req[q]]
  /\ UNCHANGED <<server, active, fits, keys, loads>>

(* ... and for an older page, whether or not the list was reloaded since   *)
(* and begins elsewhere.                                                   *)
loadOlder(r) ==
  /\ req[r].at = "read" /\ req[r].kind = "older"
  /\ shown' = Prepended(req[r].got) /\ cursor' = req[r].next
  /\ Spoils(~req[r].fresh, Without(r))
  /\ UNCHANGED <<server, active, fits, keys, loads>>

Sent(r) ==
  /\ req[r].at = "read" /\ req[r].kind = "send"
  /\ shown' = Appended(req[r].msg, Server)
  /\ Spoils(stored[req[r].msg] # Server \/ Earlier(req[r].msg) \/ Overwrites(shown'), Without(r))
  /\ UNCHANGED <<server, active, fits, keys, cursor, loads>>

(* The deletion is shown and the conversation reloaded.                    *)
DeleteDone(r) ==
  /\ req[r].at = "read" /\ req[r].kind = "delete"
  /\ shown' = IF req[r].msg \in DOMAIN shown THEN [shown EXCEPT ![req[r].msg] = Deleted] ELSE shown
  /\ cursor' = 0
  /\ req' = Ask(r, "reset", 0)
  /\ UNCHANGED <<server, active, fits, keys, loads, spoilt>>

(* handleError, before or after the server did its work: the chat may not  *)
(* be the user's any more.                                                 *)
handleError(r) ==
  /\ ~Free(r)
  /\ \/ UNCHANGED <<active, cursor>>
     \/ active' = FALSE /\ cursor' = IF active THEN 0 ELSE cursor
  /\ Spoils(TRUE, Without(r))
  /\ UNCHANGED <<server, fits, shown, keys, loads>>

-----------------------------------------------------------------------------
(* Events.                                                                 *)
Read == feed' = Tail(feed) /\ UNCHANGED <<stored, echo, loads>>
Event(kind) == feed # <<>> /\ Head(feed).kind = kind

(* A message whose chat is not of the tab takes the chat off the list.  A  *)
(* user who hears of all messages still hears of those after an earlier one.*)
handleIncomingMessage ==
  LET m == Head(feed).msg IN
  /\ Event("new") /\ Read
  /\ keys' = keys \cup {m}
  /\ IF m \in keys THEN UNCHANGED <<shown, active>>
     ELSE IF fits THEN shown' = Appended(m, Head(feed).status) /\ UNCHANGED active
     ELSE active' = FALSE /\ UNCHANGED shown
  /\ Spoils(m \notin keys /\ fits /\ (Overwrites(shown') \/ (~echo /\ Earlier(m))), req)
  /\ UNCHANGED <<fits, cursor>>

UpdateForgets == shown  \* mutant

StatusSet == [shown EXCEPT ![Head(feed).msg] = Head(feed).status]

(* An update of a message that is not in the list reloads the active       *)
(* conversation, if the list's updater ran at once; React may run it later,*)
(* and then nobody asks.                                                   *)
handleStatusUpdate ==
  LET m == Head(feed).msg IN
  /\ Event("update") /\ Read
  /\ IF m \in DOMAIN shown /\ (fits \/ active)
     THEN shown' = StatusSet /\ UNCHANGED <<cursor, spoilt, req>>
     ELSE /\ UNCHANGED shown
          /\ \/ Spoils(TRUE, req) /\ UNCHANGED cursor
             \/ /\ active /\ cursor' = 0
                /\ \E r \in Reqs : FirstFree(r) /\ req' = [Ages(req) EXCEPT ![r] = Ask(r, "reset", 0)[r]]
                /\ UNCHANGED spoilt
  /\ UNCHANGED <<active, fits, keys>>

(* The socket is down for a while: nothing asks for what it missed.        *)
Lose ==
  /\ feed # <<>> /\ Read
  /\ Spoils(TRUE, req)
  /\ UNCHANGED screen

TalkNext ==
  \/ ClientWrites \/ SwitchTab \/ handleIncomingMessage \/ handleStatusUpdate \/ Lose
  \/ \E m \in Msgs : Acknowledged(m)
  \/ \E r \in Reqs :
       \/ ServePage(r) \/ ServeSend(r) \/ ServeDelete(r)
       \/ Select(r) \/ handleLoadMoreMessages(r) \/ SendClicked(r)
       \/ loadMessages(r) \/ loadOlder(r) \/ Sent(r) \/ DeleteDone(r) \/ handleError(r)
       \/ \E m \in Msgs : confirmDeleteMessage(r, m)

TalkSpec == TalkInit /\ [][TalkNext]_talkVars

-----------------------------------------------------------------------------
(* Types.                                                                  *)
ScreenTypeOK ==
  /\ stored \in Seq(0..3) /\ Len(stored) <= MaxMsg /\ Len(feed) <= MaxWire
  /\ DOMAIN shown \subseteq DOMAIN stored /\ \A m \in DOMAIN shown : shown[m] \in 0..3
  /\ keys \subseteq DOMAIN stored /\ cursor \in 0..MaxMsg
  /\ active \in BOOLEAN /\ (active => fits) /\ spoilt \in BOOLEAN

(* What the user reads is the conversation: with nothing under way, the    *)
(* list is the end of it without a hole, each message with its status,     *)
(* whatever order responses and events came in, unless since the last      *)
(* whole reload a response or an event was older than the list it went to, *)
(* or something was lost.                                                  *)
ConversationIsTrue ==
  active /\ feed = <<>> /\ (\A r \in Reqs : Free(r)) /\ ~spoilt =>
    \E first \in {1} \cup 1..Len(stored) : shown = [m \in first..Len(stored) |-> stored[m]]

=============================================================================
