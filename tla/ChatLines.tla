----------------------------- MODULE ChatLines -----------------------------
(***************************************************************************)
(* Who may talk to one remote number on which line (WhatsApp session):     *)
(* the chats that createOrReopenChat, assignChat, reassignChat and the     *)
(* inbound messages open, give and move (services/chatService.js,          *)
(* chatReassignmentService.js, whatsappInboundService.js), while the       *)
(* administrators change which queue serves a line and which user works    *)
(* in a queue (queueMembershipService.js, queueService.js).                *)
(*                                                                         *)
(* The rights are read in statements of their own, before the one that     *)
(* writes, and assignChat and reassignChat decide on a copy of the chat    *)
(* that Redis may have kept from before a change.  How one chat goes from status to status under the locks of the *)
(* write is ChatLifecycle's; here a transaction is one step, and the       *)
(* number has at most one chat on a line, by the unique key.               *)
(***************************************************************************)
EXTENDS Integers, FiniteSets

CONSTANTS
  Queues, Lines, Agents, Supervisors,
  NoQueue, NoLine, NoAgent,
  FirstLinks,    \* links of the initial state, subset of Queues \X Lines
  FirstMembers,  \* and its members, subset of Queues \X Agents
  FirstRows,     \* and what its first chat may be
  Procs,         \* requests in flight together
  MaxAsked,      \* bound: requests
  MaxChanges     \* bound: changes of links, members, queues, lines, releases

Staff == Agents \cup Supervisors
Ids   == 1..Cardinality(Lines)
Rows  == [line : Lines \cup {NoLine}, status : {"NONE", "UNASSIGNED", "OPEN", "CLOSED"},
          agent : Staff \cup {NoAgent}, queue : Queues \cup {NoQueue}]

NoChat == [line |-> NoLine, status |-> "NONE", agent |-> NoAgent, queue |-> NoQueue]

ASSUME LinesAssumption ==
  /\ IsFiniteSet(Lines) /\ NoQueue \notin Queues /\ NoLine \notin Lines
  /\ Agents \cap Supervisors = {} /\ NoAgent \notin Staff
  /\ FirstLinks \subseteq Queues \X Lines /\ FirstMembers \subseteq Queues \X Agents
  /\ FirstRows \subseteq Rows
  /\ \A row \in FirstRows \ {NoChat} :
       row.line # NoLine /\ (row.queue = NoQueue => \A q \in Queues : <<q, row.line>> \notin FirstLinks)
  /\ {MaxAsked, MaxChanges} \subseteq Nat

VARIABLES
  linked, member,  \* queue_connections, queue_users
  active,          \* queues not deactivated
  live,            \* lines with an effective connection
  chats,           \* the chats of the number
  past,            \* the rows each of them has had before, which copies may hold
  at, ask, found,  \* of each request: where it is, what it asks, what it has read
  had,             \* history: the links and members of the time since it began
  turned,          \* history: requests under way when a chat changed its queue, or that
                   \* read its chat in a copy from before
  stray,           \* history: chats left without a queue where no code sets one
  asked, changes

rights == <<linked, member, active, live>>
procs  == <<at, ask, found>>
linesVars == <<linked, member, active, live, chats, past, at, ask, found, had, turned, stray,
               asked, changes>>

NoRequest == [op |-> "none", user |-> NoAgent, chat |-> 1, to |-> NoAgent, line |-> NoLine,
              queue |-> NoQueue]
NothingRead == [chat |-> NoChat, lines |-> {}, line |-> NoLine, queue |-> NoQueue]
NoHistory   == [linked |-> {}, member |-> {}]

Unused    == {k \in Ids : chats[k] = NoChat}
ChatsOn(l) == {k \in Ids : chats[k].line = l}
InFlight  == {p \in Procs : at[p] # "idle"}

(* queue_connections joined with the active queues.                        *)
Serving(l) == {q \in active : <<q, l>> \in linked}

(* isUserInQueue; a chat without a queue is everybody's.                   *)
InQueue(u, q) == q = NoQueue \/ <<q, u>> \in member

LinesInit ==
  /\ linked = FirstLinks /\ member = FirstMembers
  /\ active = Queues /\ live = Lines
  /\ \E first \in FirstRows : chats = [k \in Ids |-> IF k = 1 THEN first ELSE NoChat]
  /\ past = [k \in Ids |-> {}]
  /\ at = [p \in Procs |-> "idle"]
  /\ ask = [p \in Procs |-> NoRequest]
  /\ found = [p \in Procs |-> NothingRead]
  /\ had = [p \in Procs |-> NoHistory]
  /\ turned = {} /\ stray = {}
  /\ asked = 0 /\ changes = 0

-----------------------------------------------------------------------------
(* A request goes from one await to the next, or ends.                     *)
Goto(p, l) == at' = [at EXCEPT ![p] = l] /\ UNCHANGED <<ask, had, turned>>

End(p) ==
  /\ at' = [at EXCEPT ![p] = "idle"]
  /\ ask' = [ask EXCEPT ![p] = NoRequest]
  /\ found' = [found EXCEPT ![p] = NothingRead]
  /\ had' = [had EXCEPT ![p] = NoHistory]

Finish(p) == End(p) /\ turned' = turned \ {p}

(* ... having given a chat another queue, which the others see turn.       *)
FinishTurning(p) == End(p) /\ turned' = (turned \cup InFlight) \ {p}

Refuse(p) == Finish(p) /\ UNCHANGED <<chats, stray>>

Reads == UNCHANGED <<rights, chats, stray, asked, changes>>

Start(p, r, first) ==
  /\ at[p] = "idle" /\ asked < MaxAsked
  /\ asked' = asked + 1
  /\ ask' = [ask EXCEPT ![p] = r]
  /\ at' = [at EXCEPT ![p] = first]
  /\ had' = [had EXCEPT ![p] = [linked |-> linked, member |-> member]]
  /\ UNCHANGED <<rights, chats, found, turned, stray, changes>>

-----------------------------------------------------------------------------
(* createOrReopenChat, for a line or for the best one, for a queue or for  *)
(* the only one.                                                           *)
StartCreate(p) ==
  \E u \in Staff, l \in Lines \cup {NoLine}, q \in Queues \cup {NoQueue} :
    Start(p, [NoRequest EXCEPT !.op = "create", !.user = u, !.line = l, !.queue = q],
          IF l = NoLine THEN "list" ELSE "allowed")

(* The active queues of a line that a user sees: a supervisor all of them. *)
QueuesFor(u, l) == {q \in Serving(l) : u \in Supervisors \/ <<q, u>> \in member}

(* selectAutoConnectionForChat: listConnectionsForUser and the filter by   *)
(* queue ...                                                               *)
ListConnections(p) ==
  /\ at[p] = "list" /\ ask[p].op = "create"
  /\ LET r == ask[p]
         lines == {l \in Lines : IF r.queue = NoQueue THEN QueuesFor(r.user, l) # {}
                                 ELSE r.queue \in QueuesFor(r.user, l)} IN
       IF lines = {} THEN Finish(p)
       ELSE /\ found' = [found EXCEPT ![p].lines = lines]
            /\ Goto(p, "score")
  /\ Reads

(* scoreSession, over the statuses and the metrics: loads, traffic and     *)
(* errors may make any line with an effective connection the best.         *)
scoreSession(lines) == lines \cap live

(* ... then the line with the best score.                                  *)
ScoreConnections(p) ==
  /\ at[p] = "score"
  /\ LET lines == scoreSession(found[p].lines) IN
       IF lines = {} THEN Finish(p)
       ELSE \E l \in lines :
              /\ found' = [found EXCEPT ![p].lines = {}, ![p].line = l]
              /\ Goto(p, "allowed")
  /\ Reads

LineOf(p) == IF ask[p].line = NoLine THEN found[p].line ELSE ask[p].line

(* connectionExists, userHasConnection.                                    *)
ConnectionAllowed(p) ==
  /\ at[p] = "allowed"
  /\ IF QueuesFor(ask[p].user, LineOf(p)) = {} THEN Finish(p)
     ELSE Goto(p, "queue") /\ UNCHANGED found
  /\ Reads

(* listQueuesForSession, listQueuesForSessionAndUser: the queue asked for, *)
(* or the only one.                                                        *)
ChooseQueue(p) ==
  /\ at[p] = "queue"
  /\ LET qs == QueuesFor(ask[p].user, LineOf(p))
         fit == IF ask[p].queue # NoQueue THEN qs \cap {ask[p].queue}
                ELSE IF Cardinality(qs) = 1 THEN qs ELSE {} IN
       IF fit = {} THEN Finish(p)
       ELSE \E q \in fit : found' = [found EXCEPT ![p].queue = q] /\ Goto(p, "write")
  /\ Reads

(* The chat that is closed is opened again in the queue; a new one is      *)
(* opened in it.                                                           *)
reopenChatRecord(chat, q) == [chat EXCEPT !.status = "OPEN", !.queue = q]

createChatForConnection(l, q) == [NoChat EXCEPT !.line = l, !.status = "OPEN", !.queue = q]

(* The transaction: 409 over an OPEN chat, the closed one again, or a new  *)
(* one, which the unique key refuses beside an UNASSIGNED one.             *)
createOrReopenChat(p) ==
  /\ at[p] = "write" /\ ask[p].op = "create"
  /\ LET l == LineOf(p)  q == found[p].queue  new == ChatsOn(l) = {} IN
       IF \E k \in ChatsOn(l) : chats[k].status # "CLOSED" THEN Refuse(p)
       ELSE LET k == CHOOSE k \in Ids : k \in IF new THEN Unused ELSE ChatsOn(l)
                row == IF new THEN createChatForConnection(l, q) ELSE reopenChatRecord(chats[k], q) IN
              /\ chats' = [chats EXCEPT ![k] = [row EXCEPT !.agent = ask[p].user]]
              /\ stray' = stray \ {k}
              /\ IF new \/ q = chats[k].queue THEN Finish(p) ELSE FinishTurning(p)
  /\ UNCHANGED <<rights, asked, changes>>

-----------------------------------------------------------------------------
(* assignChat and reassignChat read the chat, then the queue of each user  *)
(* it is a matter of; a supervisor takes any chat and may move it to       *)
(* another line.                                                           *)
StartTake(p) ==
  \E u \in Staff, k \in Ids \ Unused :
    Start(p, [NoRequest EXCEPT !.op = "take", !.user = u, !.chat = k, !.to = u], "read")

StartTransfer(p) ==
  \E u \in Staff, k \in Ids \ Unused, a \in Agents, l \in Lines \cup {NoLine} :
    /\ u \in Agents => l = NoLine
    /\ Start(p, [NoRequest EXCEPT !.op = "transfer", !.user = u, !.chat = k, !.to = a, !.line = l],
             "read")

MayAsk(r, read) ==
  IF r.op = "take" THEN r.user \in Supervisors \/ read.agent \in {NoAgent, r.user}
  ELSE /\ read.agent # r.to
       /\ r.user \in Agents => read.agent = r.user /\ read.queue # NoQueue

(* getChatById: the row, or the copy in Redis.  Whoever reads the row or   *)
(* changes it puts his copy there in a step of its own, late if need be    *)
(* and after what deletes the copy; it stays for the 30 seconds of         *)
(* CHAT_CACHE_TTL.  So it may be any row that the chat has had.            *)
getChatById(k) == {chats[k]} \cup past[k]

Outdate == past' = [k \in Ids |-> IF chats[k] \in {NoChat, chats'[k]} THEN past[k]
                                  ELSE past[k] \cup {chats[k]}]

ReadChat(p) ==
  /\ at[p] = "read"
  /\ \E read \in getChatById(ask[p].chat) :
       IF ~MayAsk(ask[p], read) THEN Finish(p)
       ELSE /\ found' = [found EXCEPT ![p].chat = read]
            /\ at' = [at EXCEPT ![p] = IF ask[p].user \in Agents THEN "actor"
                                       ELSE IF ask[p].op = "take" THEN "write" ELSE "target"]
            /\ turned' = IF read.queue = chats[ask[p].chat].queue THEN turned ELSE turned \cup {p}
            /\ UNCHANGED <<ask, had>>
  /\ Reads

(* isUserInQueue of the user at this step, in the queue that was read.     *)
Checked(p) ==
  CASE at[p] = "actor"  -> ask[p].user
    [] at[p] = "target" -> ask[p].to
    [] at[p] = "origin" -> found[p].chat.agent

AfterCheckUntargeted(p) ==  \* mutant
  CASE at[p] = "actor"  -> IF ask[p].op = "take" THEN "write" ELSE "conflict"
    [] at[p] = "target" -> IF found[p].chat.agent = NoAgent THEN "conflict" ELSE "origin"
    [] at[p] = "origin" -> "conflict"

AfterCheck(p) ==
  CASE at[p] = "actor"  -> IF ask[p].op = "take" THEN "write" ELSE "target"
    [] at[p] = "target" -> IF found[p].chat.agent = NoAgent THEN "conflict" ELSE "origin"
    [] at[p] = "origin" -> "conflict"

CheckQueue(p) ==
  /\ at[p] \in {"actor", "target", "origin"}
  /\ IF InQueue(Checked(p), found[p].chat.queue) THEN Goto(p, AfterCheck(p)) /\ UNCHANGED found
     ELSE Finish(p)
  /\ Reads

TargetLine(p) == IF ask[p].line = NoLine THEN found[p].chat.line ELSE ask[p].line

(* hasOpenChatConflict.                                                    *)
CheckConflict(p) ==
  /\ at[p] = "conflict"
  /\ IF \E k \in ChatsOn(TargetLine(p)) \ {ask[p].chat} :
          chats[k].status = "OPEN" /\ chats[k].agent # ask[p].to
     THEN Finish(p)
     ELSE Goto(p, "write") /\ UNCHANGED found
  /\ Reads

(* assignChatDb, or reassignChatWithConnectionDb: the line is written too, *)
(* the queue is not, and another chat of the number there is an error of   *)
(* the unique key.                                                         *)
reassignChat(p) ==
  /\ at[p] = "write" /\ ask[p].op \in {"take", "transfer"}
  /\ LET k == ask[p].chat
         moves == ask[p].op = "transfer" /\ TargetLine(p) # found[p].chat.line
         l == IF moves THEN TargetLine(p) ELSE chats[k].line IN
       IF ChatsOn(l) \ {k} # {} THEN Refuse(p)
       ELSE /\ chats' = [chats EXCEPT ![k].line = l, ![k].status = "OPEN", ![k].agent = ask[p].to]
            /\ stray' = IF moves /\ chats[k].queue = NoQueue /\ Serving(l) # {}
                        THEN stray \cup {k} ELSE stray
            /\ Finish(p)
  /\ UNCHANGED <<rights, asked, changes>>

-----------------------------------------------------------------------------
(* A message arrives on a line.  resolveQueueForSession takes one of the   *)
(* active queues of the line, in no order.                                 *)
StartInbound(p) ==
  \E l \in Lines : Start(p, [NoRequest EXCEPT !.op = "inbound", !.line = l], "resolve")

ResolveQueue(p) ==
  /\ at[p] = "resolve"
  /\ \E q \in IF Serving(ask[p].line) = {} THEN {NoQueue} ELSE Serving(ask[p].line) :
       found' = [found EXCEPT ![p].queue = q]
  /\ Goto(p, "record")
  /\ Reads

(* The chat of the number: an OPEN or CLOSED one is touched, and gets the  *)
(* queue afterwards when it has none; no chat, or an UNASSIGNED one, goes  *)
(* through the upsert, which puts the queue over the one that is there.    *)
RecordInbound(p) ==
  LET l == ask[p].line  q == found[p].queue  there == ChatsOn(l) IN
  /\ at[p] = "record"
  /\ \E k \in IF there = {} THEN {CHOOSE k \in Unused : TRUE} ELSE there :
       LET new == there = {}
           upsert == new \/ chats[k].status = "UNASSIGNED"
           queue == IF upsert /\ q # NoQueue THEN q ELSE chats[k].queue IN
       /\ chats' = [chats EXCEPT ![k] =
                      [line |-> l, queue |-> queue,
                       status |-> IF ~new /\ @.status = "OPEN" THEN "OPEN" ELSE "UNASSIGNED",
                       agent |-> IF ~new /\ @.status = "OPEN" THEN @.agent ELSE NoAgent]]
       /\ IF ~upsert /\ queue = NoQueue /\ q # NoQueue
          THEN /\ at' = [at EXCEPT ![p] = "setQueue"]
               /\ ask' = [ask EXCEPT ![p].chat = k]
               /\ UNCHANGED <<found, had, turned, stray>>
          ELSE /\ IF new \/ queue = chats[k].queue THEN Finish(p) ELSE FinishTurning(p)
               /\ stray' = IF queue = NoQueue /\ Serving(l) # {} THEN stray \cup {k} ELSE stray
  /\ UNCHANGED <<rights, asked, changes>>

(* setChatQueue, by the id of the chat.                                    *)
SetChatQueue(p) ==
  /\ at[p] = "setQueue"
  /\ chats' = [chats EXCEPT ![ask[p].chat].queue = found[p].queue]
  /\ stray' = stray \ {ask[p].chat}
  /\ FinishTurning(p)
  /\ UNCHANGED <<rights, asked, changes>>

-----------------------------------------------------------------------------
(* addConnectionToQueue: the link, and in a second statement the chats of  *)
(* the line that have no queue; its error is swallowed.                    *)
StartLink(p) ==
  \E q \in Queues, l \in Lines :
    /\ <<q, l>> \notin linked
    /\ Start(p, [NoRequest EXCEPT !.op = "link", !.line = l, !.queue = q], "link")

Remember(more) ==
  had' = [p \in Procs |-> IF p \in InFlight
                          THEN [had[p] EXCEPT !.linked = @ \cup more.linked,
                                              !.member = @ \cup more.member]
                          ELSE had[p]]

AddLink(p) ==
  /\ at[p] = "link"
  /\ LET link == <<ask[p].queue, ask[p].line>> IN
       /\ linked' = linked \cup {link}
       /\ Remember([NoHistory EXCEPT !.linked = {link}])
  /\ at' = [at EXCEPT ![p] = "adopt"]
  /\ UNCHANGED <<member, active, live, chats, ask, found, turned, stray, asked, changes>>

OrphanOpen(k, l) ==  \* mutant
  chats[k].line = l /\ chats[k].queue = NoQueue /\ chats[k].status = "OPEN"

Orphan(k, l) == chats[k].line = l /\ chats[k].queue = NoQueue

setQueueForSessionMissingQueue(p) ==
  /\ at[p] = "adopt"
  /\ LET q == ask[p].queue  l == ask[p].line  none == {k \in Ids : Orphan(k, l)} IN
       \/ /\ chats' = [k \in Ids |-> IF k \in none THEN [chats[k] EXCEPT !.queue = q] ELSE chats[k]]
          /\ stray' = stray \ none
          /\ IF none = {} THEN Finish(p) ELSE FinishTurning(p)
       \/ /\ stray' = stray \cup none
          /\ UNCHANGED chats /\ Finish(p)
  /\ UNCHANGED <<rights, asked, changes>>

-----------------------------------------------------------------------------
(* The other changes are single statements.                                *)
Changes ==
  /\ changes < MaxChanges /\ changes' = changes + 1
  /\ UNCHANGED <<at, ask, found, turned, asked>>

removeConnectionFromQueue(q, l) ==
  /\ Changes /\ <<q, l>> \in linked
  /\ linked' = linked \ {<<q, l>>}
  /\ UNCHANGED <<member, active, live, chats, had, stray>>

addUserToQueue(q, a) ==
  /\ Changes /\ <<q, a>> \notin member
  /\ member' = member \cup {<<q, a>>}
  /\ Remember([NoHistory EXCEPT !.member = {<<q, a>>}])
  /\ UNCHANGED <<linked, active, live, chats, stray>>

removeUserFromQueue(q, a) ==
  /\ Changes /\ <<q, a>> \in member
  /\ member' = member \ {<<q, a>>}
  /\ UNCHANGED <<linked, active, live, chats, had, stray>>

(* updateQueueService, deleteQueueService: nothing but the column.  With a *)
(* queue that is active again the chats without one stay without.          *)
ToggleQueue(q) ==
  /\ Changes
  /\ active' = IF q \in active THEN active \ {q} ELSE active \cup {q}
  /\ stray' = IF q \in active THEN stray
              ELSE stray \cup {k \in Ids : chats[k].queue = NoQueue /\ <<q, chats[k].line>> \in linked}
  /\ UNCHANGED <<linked, member, live, chats, had>>

LineChanges(l) ==
  /\ Changes
  /\ live' = IF l \in live THEN live \ {l} ELSE live \cup {l}
  /\ UNCHANGED <<linked, member, active, chats, had, stray>>

(* closeChat.                                                              *)
Close(k) ==
  /\ Changes /\ chats[k].status = "OPEN"
  /\ chats' = [chats EXCEPT ![k].status = "CLOSED", ![k].agent = NoAgent]
  /\ UNCHANGED <<rights, had, stray>>

RequestStep(p) ==
  \/ StartCreate(p) \/ ListConnections(p) \/ ScoreConnections(p) \/ ConnectionAllowed(p)
  \/ ChooseQueue(p) \/ createOrReopenChat(p)
  \/ StartTake(p) \/ StartTransfer(p) \/ ReadChat(p) \/ CheckQueue(p) \/ CheckConflict(p)
  \/ reassignChat(p)
  \/ StartInbound(p) \/ ResolveQueue(p) \/ RecordInbound(p) \/ SetChatQueue(p)
  \/ StartLink(p) \/ AddLink(p) \/ setQueueForSessionMissingQueue(p)

LinesStep ==
  \/ \E p \in Procs : RequestStep(p)
  \/ \E q \in Queues : \/ ToggleQueue(q)
                       \/ \E l \in Lines : removeConnectionFromQueue(q, l)
                       \/ \E a \in Agents : addUserToQueue(q, a) \/ removeUserFromQueue(q, a)
  \/ \E l \in Lines : LineChanges(l)
  \/ \E k \in Ids : Close(k)

LinesNext == LinesStep /\ Outdate

LinesSpec == LinesInit /\ [][LinesNext]_linesVars

-----------------------------------------------------------------------------
(* What request p gave with chat k it had the right to give: at some       *)
(* moment of the request the agent was in the queue that the chat has, and *)
(* a chat was opened on a line of its queue.  Two ways around the check    *)
(* are the code's: the chat turned to another queue between the check and  *)
(* the write, which looks at nothing (chatReassignmentService.js:193,      *)
(* chatService.js:100); and the request decided on a copy from before the  *)
(* chat turned, even if it began long after (chatRepository.js:98-103).    *)
Rightful(p, k) ==
  LET chat == chats'[k] IN
  /\ chat.agent \in Agents /\ p \notin turned =>
       chat.queue = NoQueue \/ <<chat.queue, chat.agent>> \in had[p].member
  /\ ask[p].op = "create" => <<chat.queue, chat.line>> \in had[p].linked

(* Nobody gets a chat but by a request that had the right to give it.      *)
RightsHeld ==
  [][\A k \in Ids : chats'[k].agent \notin {NoAgent, chats[k].agent} =>
       \E p \in Procs : at[p] = "write" /\ at'[p] = "idle" /\ Rightful(p, k)]_linesVars

(* A chat on a line that has a queue has one ("Migrar chats huérfanos de   *)
(* esta sesión a la cola recién configurada", queueMembershipService:86),  *)
(* once no request is under way.  The exceptions: a message that looked    *)
(* for the queue before the link and made its chat after the migration; a  *)
(* migration that failed; a queue activated again; a chat without queue    *)
(* moved to the line.                                                      *)
OrphansAdopted ==
  InFlight = {} =>
    \A k \in Ids \ (stray \cup Unused) : chats[k].queue = NoQueue => Serving(chats[k].line) = {}

=============================================================================
