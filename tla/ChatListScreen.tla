--------------------------- MODULE ChatListScreen ---------------------------
(***************************************************************************)
(* The list of chats on the chat page of one browser (frontend/src/pages/  *)
(* ChatView.jsx): pages of one tab fetched over HTTP, what its user does   *)
(* to a chat, and events of the shared socket.  A step of the browser is   *)
(* one callback with the render and the effects it leads to; what a load   *)
(* keeps is the tab and the selection of the render that asked for it.  A  *)
(* step of the server is one handler: their insides are ChatLifecycle's.   *)
(* Every chat is of a queue of the user, and no two are updated in one     *)
(* millisecond, which is all a cursor keeps of a time.  Left out: search   *)
(* and filters, the counts on the tabs, contacts, the state of             *)
(* connections, notices.                                                   *)
(***************************************************************************)
EXTENDS ChatRows, SequencesExt, FiniteSets, Naturals

CONSTANTS
  NoChat,
  PageSize,                        \* chats of one page (100)
  MaxActs, MaxEvents               \* bounds: what the user and others do,
                                   \* events on their way

ASSUME ListAssumption ==
  /\ NoChat \notin Chats
  /\ PageSize \in Nat \ {0} /\ MaxActs \in Nat /\ MaxEvents \in Nat \ {0}

Tabs == Status
NoCursor == Chats   \* a cursor is the set of the chats after it

VARIABLES
  table,        \* table chats
  older,        \* of each chat, those last updated before it
  me,           \* the user of this browser
  events,       \* events on their way to it
  reqs,         \* HTTP requests under way, in the order they were made
  chats, activeChatId, activeTab, chatCursor, loading, loadingMore,
  acts,
  outdated      \* history: since the last whole load of the present tab the
                \* user was not told of something, or a late answer came

backend == <<table, older, events>>
page == <<chats, activeChatId, activeTab, chatCursor, loading, loadingMore>>
bounds == <<me, acts>>
listVars == <<backend, page, bounds, reqs, outdated>>

Leads == me \in Supervisors
Nobody == [c \in {} |-> Absent]

Blank == [kind |-> "list", at |-> "asked", tab |-> "OPEN", sel |-> NoChat, cursor |-> NoCursor,
          to |-> NoAgent, got |-> Nobody, next |-> NoCursor, missed |-> {}, late |-> FALSE]
Load(tab, sel) == [Blank EXCEPT !.tab = tab, !.sel = sel]
RequestOf(kind) == [Blank EXCEPT !.kind = kind, !.tab = activeTab, !.sel = activeChatId]

(* The chats in the order of their updates.                                *)
Orders ==
  {o \in [Chats -> SUBSET Chats] : \A c, d \in Chats :
     /\ c \notin o[c] /\ (c # d => (c \in o[d] <=> d \notin o[c]))
     /\ c \in o[d] => o[c] \subseteq o[d]}

(* loadChats() as the effect of the first render calls it.                 *)
ListInit ==
  /\ me \in Users
  /\ table \in [Chats -> {unassignChatDb, closedRow} \cup {assignChatDb(u) : u \in Agents}]
  /\ older \in Orders /\ events = <<>>
  /\ reqs = <<Load("OPEN", NoChat)>>
  /\ chats = Nobody /\ activeChatId = NoChat /\ activeTab = "OPEN"
  /\ chatCursor = NoCursor /\ loading = TRUE /\ loadingMore = FALSE
  /\ acts = 0 /\ outdated = FALSE

-----------------------------------------------------------------------------
(* The server.  An agent is shown the chats assigned to him.               *)
Listed(r) == Leads \/ r.agent = me
InTab(r, tab) == r.status = tab /\ (tab = "UNASSIGNED" => r.agent = NoAgent)

After(some) == {c \in Chats : \A d \in some : c \in older[d]}

(* What is found, the last updated first; one page of it is read.          *)
listChatsByVisibilityCursor(tab, cursor) ==
  {c \in cursor : InTab(table[c], tab) /\ Listed(table[c])}

FirstPage(some, found) ==
  /\ \A c \in some, d \in found \ some : d \in older[c]
  /\ Cardinality(some) <= PageSize /\ (some # found => Cardinality(some) = PageSize)

ServeList(i) ==
  LET found == listChatsByVisibilityCursor(reqs[i].tab, reqs[i].cursor) IN
  /\ reqs[i].at = "asked" /\ reqs[i].kind \in {"list", "more"}
  /\ \E some \in SUBSET found :
       /\ FirstPage(some, found)
       /\ reqs' = [reqs EXCEPT ![i].at = "read", ![i].got = [c \in some |-> table[c]],
                               ![i].next = IF Cardinality(some) = PageSize THEN After(some) ELSE NoCursor]
  /\ UNCHANGED <<backend, page, bounds, outdated>>

(* A chat that is written is the last updated: it leaves every cursor, and *)
(* the answers already read do not have it.                                *)
Past(cursor, c) == IF cursor = NoCursor THEN NoCursor ELSE cursor \ {c}
Aged(rs, c) ==
  [i \in DOMAIN rs |-> [rs[i] EXCEPT !.cursor = Past(@, c), !.next = Past(@, c),
                                     !.missed = IF rs[i].at = "read" THEN @ \cup {c} ELSE @]]
WrittenLast(c, new) ==
  /\ table' = [table EXCEPT ![c] = new]
  /\ older' = [d \in Chats |-> IF d = c THEN Chats \ {c} ELSE older[d] \ {c}]
  /\ chatCursor' = Past(chatCursor, c)

EventOf(name, c, r) == [name |-> name, chat |-> c, row |-> r, hidden |-> FALSE, old |-> FALSE]
Hidden(e) == [e EXCEPT !.hidden = TRUE]
Superseded(c) == [i \in DOMAIN events |-> [events[i] EXCEPT !.old = @ \/ events[i].chat = c]]

(* emitToUsers and emitToRoles: what of a write reaches this user.         *)
emitToUsers(list) == events' = events \o list

Updates(c, old, new) ==  \* those of reassignChat and closeChats
  IF Leads \/ new.agent = me THEN <<EventOf("chat:update", c, new)>>
  ELSE IF old.agent = me THEN <<Hidden(EventOf("chat:update", c, new))>> ELSE <<>>

Others(c, new, told) ==
  /\ acts < MaxActs /\ Len(events) + Len(told) <= MaxEvents
  /\ acts' = acts + 1
  /\ WrittenLast(c, new)
  /\ reqs' = Aged(reqs, c)
  /\ UNCHANGED <<me, chats, activeChatId, activeTab, loading, loadingMore>>

(* A client writes (handleIncomingWhatsAppMessage).                        *)
ClientComes(c) ==
  LET new == IF table[c].status = "CLOSED" THEN touchChatOnInbound(table[c], "UNASSIGNED") ELSE table[c]
      told == IF Leads \/ new.agent = me THEN <<EventOf("message:new", c, new)>> ELSE <<>>
  IN /\ Others(c, new, told) /\ emitToUsers(told)
     /\ UNCHANGED outdated

(* Another supervisor hands the chat over (reassignChat).                  *)
Reassign(c, u) ==
  LET told == Updates(c, table[c], assignChatDb(u)) IN
  /\ table[c].agent # u
  /\ Others(c, assignChatDb(u), told) /\ emitToUsers(told)
  /\ UNCHANGED outdated

(* closeChats of the inactivity monitor: the agent it had and supervisors. *)
AutoClose(c) ==
  LET told == IF Leads \/ table[c].agent = me
              THEN <<EventOf("chat:auto-closed", c, closedRow), EventOf("chat:update", c, closedRow)>>
              ELSE <<>>
  IN /\ table[c].status = "OPEN"
     /\ Others(c, closedRow, told) /\ emitToUsers(told)
     /\ UNCHANGED outdated

(* Others take, release, close or reopen a chat, or the cycle assigns it:  *)
(* no event of it goes to this page.                                       *)
Silently(c, new) ==
  /\ new # table[c]
  /\ Others(c, new, <<>>)
  /\ events' = Superseded(c)
  /\ outdated' = (outdated \/ Listed(table[c]) \/ Listed(new))

(* What the user asked for, with the guard of each handler.                *)
Declined(r, c) ==
  CASE r.kind = "assign"   -> ~Leads /\ table[c].agent \notin {NoAgent, me}
    [] r.kind = "close"    -> ~Leads /\ table[c].agent # me
    [] r.kind = "transfer" -> table[c].agent = r.to \/ (~Leads /\ table[c].agent # me)
    [] r.kind = "create"   -> table[c].status # "CLOSED"

RowMade(r) ==
  CASE r.kind = "close"    -> closedRow
    [] r.kind = "transfer" -> assignChatDb(r.to)
    [] OTHER                     -> assignChatDb(me)

ServeWrite(i) ==
  LET c == reqs[i].sel
      told == IF reqs[i].kind = "transfer" THEN Updates(c, table[c], RowMade(reqs[i])) ELSE <<>>
  IN
  /\ reqs[i].at = "asked" /\ reqs[i].kind \notin {"list", "more"}
  /\ IF Declined(reqs[i], c)
     THEN reqs' = [reqs EXCEPT ![i].at = "refused"] /\ UNCHANGED <<table, older, events, chatCursor>>
     ELSE /\ WrittenLast(c, RowMade(reqs[i]))
          /\ reqs' = [Aged(reqs, c) EXCEPT ![i].at = "read", ![i].got = [d \in {c} |-> RowMade(reqs[i])]]
          /\ IF told = <<>> THEN events' = Superseded(c) ELSE emitToUsers(told)
  /\ UNCHANGED <<chats, activeChatId, activeTab, loading, loadingMore, bounds, outdated>>

-----------------------------------------------------------------------------
(* What the browser does after each change: a selected chat that is not in *)
(* the list is no longer selected, one that is takes the page to its tab,  *)
(* and a new tab is loaded.                                                *)
isChatVisible(r) == Leads \/ r.agent \in {me, NoAgent}
matchesTab(r, tab) == r.status = tab

Settled(list, act, tab) ==
  IF act \notin DOMAIN list THEN <<NoChat, tab>>
  ELSE IF ~Leads /\ list[act].status = "CLOSED" THEN <<NoChat, "OPEN">>
  ELSE <<act, list[act].status>>

(* `own` are the loads the handler itself asks for, `others` the requests  *)
(* that go on.                                                             *)
Shows(list, act, tab, own, others, cursor, busy) ==
  LET at == Settled(list, act, tab)
      new == own \o (IF at[2] # activeTab THEN <<Load(at[2], at[1])>> ELSE <<>>)
  IN
  /\ chats' = list /\ activeChatId' = at[1] /\ activeTab' = at[2]
  /\ reqs' = others \o new
  /\ chatCursor' = IF new = <<>> THEN cursor ELSE NoCursor
  /\ loading' = (busy \/ new # <<>>)

Only(list, S) == [c \in DOMAIN list \cap S |-> list[c]]
Over(new, list) == [c \in DOMAIN new \cup DOMAIN list |-> IF c \in DOMAIN new THEN new[c] ELSE list[c]]
Visible(r) == Only(r.got, {c \in DOMAIN r.got : isChatVisible(r.got[c]) /\ (matchesTab(r.got[c], r.tab) \/ c = r.sel)})
WithoutChat(c) == Only(chats, DOMAIN chats \ {c})
Deselected(c) == IF activeChatId = c THEN NoChat ELSE activeChatId

-----------------------------------------------------------------------------
(* The user.                                                               *)
Click == acts < MaxActs /\ acts' = acts + 1 /\ UNCHANGED <<me, table, older, events>>
Sends(r) == reqs' = Append(reqs, r)

ChangeTab(tab) ==
  /\ Leads /\ Click /\ tab # activeTab
  /\ Shows(chats, NoChat, tab, <<>>, reqs, chatCursor, loading)
  /\ UNCHANGED <<loadingMore, outdated>>

ChooseChat(c) ==
  /\ Click /\ ~loading /\ c \in DOMAIN chats /\ c # activeChatId
  /\ Shows(chats, c, activeTab, <<>>, reqs, chatCursor, loading)
  /\ UNCHANGED <<loadingMore, outdated>>

(* Scrolling down; the button that says refresh asks for more as well,     *)
(* since the event of the click is taken for the argument `append`.        *)
LoadMore(refresh) ==
  /\ ~loading /\ (refresh \/ (chatCursor # NoCursor /\ ~loadingMore)) /\ Click
  /\ Sends([RequestOf("more") EXCEPT !.cursor = chatCursor]) /\ loadingMore' = TRUE
  /\ UNCHANGED <<chats, activeChatId, activeTab, chatCursor, loading, outdated>>

Active == activeChatId # NoChat
Writes(kind) == Click /\ Sends(RequestOf(kind)) /\ UNCHANGED <<page, outdated>>

handleAssignToMe == Active /\ (Leads \/ chats[activeChatId].agent = NoAgent) /\ Writes("assign")
handleCloseChat == Active /\ Writes("close")

(* ReassignModal, for whom canOpenReassign lets in.                        *)
ConfirmReassign(u) ==
  /\ Active /\ ~loading
  /\ Leads \/ (chats[activeChatId] = assignChatDb(me) /\ u # me)
  /\ u # chats[activeChatId].agent
  /\ Click /\ Sends([RequestOf("transfer") EXCEPT !.to = u]) /\ UNCHANGED <<page, outdated>>

handleCreateChat(c) ==
  /\ ~(c \in DOMAIN chats /\ chats[c].status = "OPEN")
  /\ \A i \in DOMAIN reqs : reqs[i].kind # "create"   \* newChatLoading
  /\ Click /\ Sends([RequestOf("create") EXCEPT !.sel = c]) /\ UNCHANGED <<page, outdated>>

-----------------------------------------------------------------------------
(* Answers.  One is late for a chat written since it was read, unless word *)
(* of that is still to come.                                               *)
Coming(c, others) ==
  \/ \E i \in DOMAIN events : events[i].chat = c /\ ~events[i].old
  \/ \E i \in DOMAIN others : others[i].at = "read" /\ others[i].kind \notin {"list", "more"}
                              /\ others[i].sel = c /\ c \notin others[i].missed
TooLate(r, others) == r.late \/ \E c \in r.missed : ~Coming(c, others)

Answer(i) == reqs[i].at = "read" /\ UNCHANGED <<table, older, events, bounds>>
FirstOf(list, act) == IF act # NoChat \/ list = Nobody THEN {activeChatId} ELSE DOMAIN list

(* loadChats: what was selected when it was asked for decides whether the  *)
(* first chat is selected.                                                 *)
loadChats(i) ==
  LET r == reqs[i]
      visible == Visible(r)
      rest == RemoveAt(reqs, i)
      others == [j \in DOMAIN rest |-> [rest[j] EXCEPT !.late = @ \/ rest[j].kind = "more"]]
  IN
  /\ Answer(i) /\ r.kind = "list"
  /\ \E c \in FirstOf(visible, r.sel) : Shows(visible, c, activeTab, <<>>, others, r.next, FALSE)
  /\ outdated' = (TooLate(r, rest) \/ r.tab # activeTab)
  /\ UNCHANGED loadingMore

loadMoreChats(i) ==
  LET r == reqs[i]
      visible == Visible(r)
      rest == RemoveAt(reqs, i)
  IN
  /\ Answer(i) /\ r.kind = "more"
  /\ \E c \in FirstOf(visible, r.sel) : Shows(Over(visible, chats), c, activeTab, <<>>, rest, r.next, loading)
  /\ loadingMore' = FALSE
  /\ outdated' = (outdated \/ TooLate(r, rest) \/ r.tab # activeTab)

(* The responses to what the user did change the list, then load it again  *)
(* for the tab of the time of the click.                                   *)
OfTab(list, r) == Only(list, {c \in DOMAIN list : matchesTab(list[c], r.tab) \/ c = r.sel})
Patched(r, new) == IF r.sel \in DOMAIN chats THEN [chats EXCEPT ![r.sel] = new] ELSE chats

Assigned(i) ==
  LET r == reqs[i]
      list == Patched(r, assignChatDb(me)) IN
  /\ Answer(i) /\ r.kind = "assign"
  /\ Shows(OfTab(list, r), activeChatId, "OPEN",
           <<Load(r.tab, r.sel)>>, RemoveAt(reqs, i), chatCursor, loading)
  /\ UNCHANGED <<loadingMore, outdated>>

Closed(i) ==
  LET r == reqs[i]
      was == IF r.sel \in DOMAIN chats THEN chats[r.sel].agent ELSE NoAgent
      list == Patched(r, [closedRow EXCEPT !.agent = was])
      others == RemoveAt(reqs, i)
      again == <<Load(r.tab, r.sel)>>
  IN
  /\ Answer(i) /\ r.kind = "close"
  /\ IF Leads
     THEN Shows(OfTab(list, r), activeChatId, "CLOSED",
                again, others, chatCursor, loading)
     ELSE Shows(Only(list, {c \in DOMAIN list : list[c].status # "CLOSED"}), NoChat, "OPEN",
                again, others, chatCursor, loading)
  /\ UNCHANGED <<loadingMore, outdated>>

handleReassignSuccess(i) ==
  LET r == reqs[i]
      others == RemoveAt(reqs, i) IN
  /\ Answer(i) /\ r.kind = "transfer"
  /\ IF Leads \/ r.to = me
     THEN Shows(Over(r.got, chats), r.sel, "OPEN", <<>>, others, chatCursor, loading)
     ELSE Shows(WithoutChat(r.sel), Deselected(r.sel), activeTab, <<>>, others, chatCursor, loading)
  /\ outdated' = (outdated \/ TooLate(r, others))
  /\ UNCHANGED loadingMore

Created(i) ==
  LET r == reqs[i]
      others == RemoveAt(reqs, i) IN
  /\ Answer(i) /\ r.kind = "create"
  /\ Shows(Over(r.got, chats), r.sel, activeTab, <<>>, others, chatCursor, loading)
  /\ outdated' = (outdated \/ TooLate(r, others))
  /\ UNCHANGED loadingMore

(* handleError.  A refusal for want of rights also takes the selected chat *)
(* away and loads the list again; a load that fails, or a write of which   *)
(* only the response is lost, leaves the list as it was.                   *)
RequestFails(i) ==
  LET r == reqs[i]
      others == RemoveAt(reqs, i) IN
  /\ \/ Shows(chats, activeChatId, activeTab, <<>>, others, chatCursor, loading /\ r.kind # "list")
     \/ /\ r.at = "refused" /\ Active
        /\ Shows(chats, NoChat, activeTab, <<Load(r.tab, r.sel)>>, others, chatCursor, loading)
  /\ loadingMore' = (loadingMore /\ r.kind # "more")
  /\ outdated' = (outdated \/ r.kind = "list" \/ (r.at = "read" /\ r.kind # "more"))
  /\ UNCHANGED <<table, older, events, bounds>>

-----------------------------------------------------------------------------
(* Events.                                                                 *)
Hear(name) ==
  /\ events # <<>> /\ Head(events).name = name /\ events' = Tail(events)
  /\ outdated' = (outdated \/ Head(events).old)
  /\ UNCHANGED <<table, older, bounds, loadingMore>>

PlacedAnyway(c, r) == Over([d \in {c} |-> r], chats)  \* mutant

Placed(c, r) ==
  IF isChatVisible(r) /\ matchesTab(r, activeTab) THEN Over([d \in {c} |-> r], chats) ELSE WithoutChat(c)

(* handleIncomingMessage of message:new.                                   *)
messageNew ==
  LET c == Head(events).chat
      list == Placed(c, Head(events).row) IN
  /\ Hear("message:new")
  /\ Shows(list, activeChatId, activeTab, <<>>, reqs, chatCursor, loading)

chatAutoClosed ==
  LET c == Head(events).chat IN
  /\ Hear("chat:auto-closed")
  /\ IF Leads THEN Shows(chats, activeChatId, activeTab, <<>>, reqs, chatCursor, loading)
     ELSE Shows(WithoutChat(c), Deselected(c), IF activeChatId = c THEN "OPEN" ELSE activeTab, <<>>,
                reqs, chatCursor, loading)

chatUpdate ==
  LET e == Head(events)
      c == e.chat
      tab == IF Leads THEN e.row.status ELSE "OPEN" IN
  /\ Hear("chat:update")
  /\ IF e.hidden
     THEN Shows(WithoutChat(c), Deselected(c), activeTab, <<>>, reqs, chatCursor, loading)
     ELSE Shows(Placed(c, e.row), activeChatId,
                IF activeChatId = c THEN tab ELSE activeTab, <<>>, reqs, chatCursor, loading)

(* The socket is down for a while, and nothing asks for what it missed.    *)
MissEvent ==
  /\ events # <<>> /\ events' = Tail(events)
  /\ outdated' = TRUE
  /\ UNCHANGED <<table, older, bounds, page, reqs>>

User ==
  \/ \E t \in Tabs : ChangeTab(t)
  \/ \E c \in Chats : ChooseChat(c) \/ handleCreateChat(c)
  \/ \E b \in BOOLEAN : LoadMore(b)
  \/ \E u \in Users : ConfirmReassign(u)
  \/ handleAssignToMe \/ handleCloseChat

World ==
  \E c \in Chats :
    \/ ClientComes(c) \/ AutoClose(c)
    \/ \E u \in Users : Reassign(c, u) \/ Silently(c, assignChatDb(u))
    \/ Silently(c, unassignChatDb) \/ Silently(c, closedRow)

ListNext ==
  \/ User \/ World \/ messageNew \/ chatAutoClosed \/ chatUpdate \/ MissEvent
  \/ \E i \in DOMAIN reqs :
       \/ ServeList(i) \/ ServeWrite(i) \/ loadChats(i) \/ loadMoreChats(i)
       \/ Assigned(i) \/ Closed(i) \/ handleReassignSuccess(i) \/ Created(i) \/ RequestFails(i)

ListSpec == ListInit /\ [][ListNext]_listVars

-----------------------------------------------------------------------------
(* The list is true: with nothing under way, every chat in it is as the    *)
(* table says, is of the tab and is one the user may see, and a list whose *)
(* last page is loaded lacks none, in whatever order answers of several    *)
(* loads, responses and events came; unless since the last whole load of   *)
(* the tab nobody told the page of a write, or an answer was overtaken.    *)
ListIsTrue ==
  reqs = <<>> /\ events = <<>> /\ ~outdated =>
    /\ \A c \in DOMAIN chats : chats[c] = table[c] /\ InTab(table[c], activeTab) /\ Listed(table[c])
    /\ chatCursor = NoCursor =>
         \A c \in Chats : InTab(table[c], activeTab) /\ Listed(table[c]) => c \in DOMAIN chats

=============================================================================
