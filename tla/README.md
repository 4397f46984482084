# WhatSuite in TLA+

WhatSuite is a customer-care desk over WhatsApp: agents answer, hand over and
close chats that arrive on several WhatsApp connections; a job distributes
waiting chats; campaigns send messages in bulk. The backend
(`src/backend/src`) is one Node.js program (several copies may run) on
PostgreSQL and Redis; the frontend (`src/frontend/src`) is a React page that
talks to it over HTTP and a shared socket. Each process runs one callback at a
time, so what goes wrong goes wrong *between awaits*, between processes, and
between what a handler, or a page, has read and what it writes. That is what
these modules are about.

- [Inventory](#inventory)
- [Modules](#modules)
- [Runs](#runs)
- [Proofs](#proofs)
- [What was seen and is no finding](#what-was-seen-and-is-no-finding)
- [Not modelled, and why](#not-modelled-and-why)
- [Plan](#plan)

## Inventory

| Component | State it keeps | Operations | Interacts with | What is hard |
|---|---|---|---|---|
| Chat life cycle (`services/chatService.js`, `chatReassignmentService.js`, `infra/db/chatRepository.js`) | table `chats`: status, agent, queue, line | assign, unassign, close, reopen, createOrReopen, reassign | cache, users, queue membership | guards on rows read earlier, UPDATEs without conditions, one transaction with locks among handlers without |
| Chat cache (`infra/cache/chatCache.js`) | Redis keys with a TTL | fill, read, invalidate | every chat handler | a fill after an invalidation |
| Inbound messages (`services/whatsappInboundService.js`) | `chats`, `chat_messages` | live, history and own messages, updates, deletions | chats, sockets | two look-ups, then a write of the derived status; duplicates |
| Inactivity monitor (`services/chatInactivityService.js`) | `running` flag | tick | chats | closes what it saw inactive some awaits ago |
| Assignment cycle (`services/chatAutoAssignmentService.js`) | advisory lock | run | presence, chats | three reads, then updates; overlapping triggers |
| Presence (`services/userConnectionService.js`) | `user_connections`, session keys | register, disconnect, list, purge | Socket.IO, cycle | connect and disconnect race |
| Users, sessions (`services/userService.js`, `authService.js`, `pages/Users.jsx`) | `users`, one session key per user | update, deactivate, delete, log in and out, force out | chats (foreign keys) | last administrator, a session that was ended |
| Job queue (`infra/queues/workerQueue.js`) | `active`, `queue` | enqueue, runNext, finally | broadcast, sockets, warm-up | wake-ups through microtasks, limits |
| Broadcast (`modules/broadcast`, `infra/db/broadcastRepository.js`, `BroadcastForm.jsx`) | `broadcast_campaigns`, `broadcast_messages`, the form | compose, create, claim, send, record, retry, count | job queue, sockets | leases, crashes, uncertain sends, counters of several writers, late files |
| WhatsApp socket (`whatsapp/whatsappSocket.js`) | one live socket per controller, attempts, realtime and history queues | connect, restart, resync, events | inbound, registry | handlers of one socket's events side by side, a close that is not answered |
| Session registry (`services/whatsappService.js`) | maps of records and locks, `whatsapp_sessions` | create, reset, reconnect, disconnect, delete, status | socket | requests that overlap on one session, two kinds of locks, a controller that is replaced |
| Credentials (`whatsapp/whatsappAuthState.js`) | keys of a session in memory and in its row | load, set, save, reset | socket, the pool | saves out of order, a connection held while another is asked for |
| Message store (`infra/db/chatMessageRepository.js`, `services/chatMessageService.js`) | `chat_messages` | insert, status, edit, delete, send | inbound, socket | statuses out of order, echo of one's own message |
| Queues and lines (`services/queueService.js`, `queueMembershipService.js`, `connectionSelectionService.js`) | who works where, which queue serves a line | link, unlink, add, remove, select | chats, inbound | rights read before the write |
| Warm-up (`services/warmup*.js`) | quotas, locks, recency in Redis | cycle, plan, run | sockets | overlapping cycles, quotas checked before they are counted |
| Quick replies (`modules/quickReplies`, `ChatWindow.jsx`) | texts, caches of the page | create, update, remove, search, send | chats | answers kept for good, chosen in one chat and sent in another |
| Pages of the browser (`ChatView.jsx`, `WhatsappSessionsContext.jsx`, `AuthContext.jsx`, `Queues.jsx`) | what is shown | load, poll, events, clicks | all of the above | answers and events in any order |
| Middlewares (`interfaces/http/middlewares`) | counters in memory | limit, release | HTTP | a request refused |
| Legacy conversations, mass messaging | own tables | assign, reply | | replaced by chats |
| CRUD modules, dashboards, settings, migrations, HTTP | own tables | | | single statements; nothing interleaves |

Correctness of each, in one line: an OPEN chat has an agent and keeps it until
somebody entitled releases it; a lock never outlives its transaction; a deleted
user owns nothing; nobody gets a chat without a right to it; a cycle disturbs
nobody; a job runs once and a free slot is used; a recipient gets a campaign's
message once and the campaign says so; a message is stored once, announced once
and shows its last status; a session has one controller that is listened to, and
never falls silent; a session that was ended stays so; what a page shows once
nothing happens is what the server has, and what it sends is what it showed.

## Modules

    ChatRows ──────── ChatDesk ◄──implements── ChatLifecycle ── MCChatLifecycle
                         │                          │
                   ChatDeskProofs            ChatLifecycleProofs
    JobQueue ◄──implements── WorkerQueue, AuthState ─┬─ MCJobs ──INSTANCE── Broadcast
        │                                            └─ JobsProofs
        └──INSTANCE── Broadcast, Warmup ─┬─ MCBroadcast
                          CampaignForm ──┴─ BroadcastProofs
    AutoAssign ── MCAutoAssign
        └── AutoAssignProofs
    SocketLine ◄──implements── WhatsAppSocket ─┬─ MCSessions
        │                                      ├─ SessionsProofs
        └──EXTENDS── WhatsAppService ──────────┤
                      SessionsScreen ──────────┘
    MessageLog ◄──implements── MessageStore, ConversationScreen ─┬─ MCMessages ── ChatListScreen
                                                                 │                    └── ChatLifecycleProofs
                                                                 └─ MessageStoreProofs
    ChatLines, Composer, CampaignForm, SessionsScreen ── MCConnections
        │          └── MessageStoreProofs
        └── OfficeProofs
    HistorySync ─┬─ MCOffice
                 └─ MessageStoreProofs
    Accounts, AuthScreen, QuickReplies, QueueDesk ─┬─ MCOffice
                                                   └─ OfficeProofs

An MC module that has several parts moves one of them at a time: a variable
(`part`, `layer`, `place`, `mover`), chosen at the start, names it, and the
others stay in one initial state. They share nothing, so what is shown is shown
of each part by itself.

### Chats

**ChatRows** says what each SQL statement does to a chat row (status and
agent). **ChatDesk** is the abstract specification: a desk on which a person or
a job performs one legal operation on the *present* row, or an *overtaken* one
(`suspect` marks the chat) writes what it had decided on an earlier row.
**ChatLifecycle** is the code: any number of requests in flight, each a process
whose steps are the pieces between two awaits — read the cache, SELECT, fill
the cache, UPDATE, put or drop the cache key — and the two transactions
(`createOrReopenChat`, `deleteUser`) with their row locks, the session's
advisory lock and the foreign-key waits. `row`, `users`, `cache`, `lock`,
`session` are the database and Redis; `pc`, `req`, `seen`, `todo` are the local
variables of a request; `by` is `executed_by_user_id` of the last audit row;
`suspect` is a history variable.

**ChatLines** is the other half of a chat, its line and its queue: who has the
right to one, read in statements of their own, while administrators change which
queue serves a line and who works in it. `had` keeps the links and members of
the time of a request, `turned` the requests whose chat was in another queue than they went by,
`stray` the chats left without one, `past` the rows
each chat has had, any of which `assignChat` and `reassignChat` may get from the
cache in place of the row (`getChatById`). **ChatListScreen** is the list of chats
of one browser: tabs and pages loaded over HTTP, actions of the user, events.

**AutoAssign** is the locked cycle with the presence it reads. The manual
handlers that ChatLifecycle has in detail appear as one action, `Manual`.
The history variable `meddled` tells whether one of them came in the middle of
the present cycle.

### Messages

**MessageLog** says what `chat_messages` promises about each message;
**MessageStore** is the handlers: a process each (`pc`, `job`), over what
WhatsApp has done to a message (`wire`) and its row (`rows`). History: `newest`
(the youngest acknowledgement and edit written), `doubtful` (an event was
overtaken), `missed` (one came before the row), `faulty` (a statement failed or
an event was dropped). **HistorySync** is how a session catches up with what it
missed. **ConversationScreen** is one conversation in the browser: `stored` is
its half of `chat_messages`, `feed` the events on their way, `req` the HTTP
requests, `shown` the list; the history variable `spoilt` says that a response or
an event was older than the list it went to, or was lost. **Composer**
is the foot of a chat, where texts, files and voice notes are made; **QuickReplies**
the texts kept for them; its history variable `misled` has the drafts whose
answer did not come in time, or was an error although the message was out.

### Campaigns and other jobs

**JobQueue** is what a queue promises its callers; **WorkerQueue** is
`createWorkerQueue` callback by callback (`enqueue`, the microtask, the
settling of the job, the `finally`). **Broadcast** uses JobQueue for the
queue of the worker, so what is shown of WorkerQueue carries over.
An action of Broadcast is one statement, one call to WhatsApp, or one
synchronous piece of the pump; a crash empties the process and leaves the
tables. **CampaignForm** is how a campaign comes to be: the page, the form and
`createCampaign`. **Warmup** is the cycles of the warm-up, which overlap.

### WhatsApp sessions

**SocketLine** is what `createWhatsAppSocket` promises the registry: each
controller's line is up, down for good, or down with its close being answered.
**WhatsAppSocket** is one call of it in detail: `stage` is where the call is,
`sock`, `restarting` and `reconnectAttempts` are its local variables, `life` the
sockets it makes one after the other, `task[s][e]` the place of
`handleConnectionUpdate` for event `e` of socket `s` (the realtime queue runs
these handlers side by side), `row` the status in `whatsapp_sessions`. The row
has a second writer, `persistState` of the key store, which every save of keys
or credentials calls and which writes the default status, pending, with them.
**WhatsAppService** is the registry, for one session name: the maps
`sessions`, `creationLocks` (`creating`), `reconnectLocks` (`reconnecting`), the
set `deletedSessions`, requests in flight (`pc`, `op`, `held`, `waits`) and the
calls of `createWhatsAppSocket` under way (`calls`); the sockets are
SocketLine's, so what is shown of WhatsAppSocket carries over. `heard` are the
controllers whose events reach the inbound handlers. The history variables are
`newest` and `late` (a handler wrote the row after that of a younger event),
`saved` (`persistState` wrote it since) and
`astray` (a deletion crossed another use of the session). **AuthState** is the
key store of a session, **SessionsScreen** the page of the connections; its
history variable `calm` counts, for each card, the ticks since anything put it
off, an answer to the poller of another session included.

### Accounts and the office

**Accounts** is `users` and the session keys under handlers that overlap,
**AuthScreen** the session in a browser tab, **QueueDesk** the page of the
queues with its dialogs.

### Decisions

- A chat is a remote number of one WhatsApp session: `(session, number)` is
  unique (migration 022), so ChatLifecycle has the numbers of one session. For
  the same reason `hasOpenChatConflict`, which excludes the chat itself, never
  finds another; it is left out there.
- In ChatLifecycle queue membership is constant, in ChatLines statuses are
  reached in one step: each module has what the other leaves out.
- Names, times, contact data, wording and audit rows are not data of the models.
  An audit insert that fails is `Fail`: it ends the handler and skips the cache
  invalidation after it.
- PostgreSQL is external: an UPDATE is atomic and waits for a locked row, a
  transaction's writes appear at COMMIT (READ COMMITTED), an abort (deadlock
  victim included) is `Fail`. Redis keys may expire at any moment.
- Broadcast has one campaign, whose messages become due after any delay; the
  branch "before start" needs a clock that runs backwards and is left out; the
  choice of a connection is a nondeterministic answer, one or none.
- Baileys is external: a socket connects, opens, and closes once, for a reason;
  `end()` closes it and may report that. The reason is one of three kinds, as
  the handler treats them.
- The registry is that of one process: its maps are in memory, and nothing in
  the code keeps two processes from opening the same session.
- A step of a page is one callback with the render and the effects it leads to;
  answers and events reach it in any order, since nothing orders HTTP responses
  among themselves or with the socket.
- Operators marked `mutant` are plausible bugs of the operator after them. No
  specification uses them; they serve to check that each property can fail.

## Runs

| Run | Bounds | Checked | Shows |
|---|---|---|---|
| `chat_handover` | 2 requests, 2 agents, one of them outside the queue, 1 chat, cache; live message, assign, unassign, transfer | `DeskSpec`, `OpenChatKeepsItsAgent` | the handlers implement the desk; agents lose open chats only through overtaken writes |
| `chat_inbound` | the same, agents of one queue; messages of every kind, cycle, monitor, close, reopen | `RowsSound` | rows are spoiled only through overtaken writes |
| `chat_wait` | 2 requests, 1 agent, a supervisor, 2 chats, locks; the creating transaction, deleteUser, close; fair | `RequestsSound`, `LocksInTransactions`, `CreateNeverSteals`, `RequestsEnd` | what a transaction read stays so, its locks stay inside it, it takes over no chat in progress, every request ends |
| `chat_orphan` | a deletion, a transfer, a message | `DeletedUsersChatsReturn` (violated) | a deleted user's chat may stay OPEN, refuting a comment |
| `pages` | 2 sessions and 2 polls of the page of connections; 2 queues, 2 lines, one of them in both queues, 2 agents, one in both, 2 requests and 1 change about one number; 2 chats, 2 recordings and 6 clicks at the foot of a chat; 2 templates, a file, a sheet, 3 edits and 2 orders of the campaign form | `CardsAreTrue`, `RightsHeld`, `OrphansAdopted`, `SentWhereComposed`, `CampaignIsAsShown` | a card left alone for a period of the refresh is as the server is, chats go only to those with a right to them, what is sent is what was shown, but for the ways each property names |
| `jobs` | 4 jobs, concurrency 2, limit 1; 2 messages and a crash; 3 calls to a key store over a pool of 2; fair | `SlotsCounted`, `NoLostWakeup`, `QueueFairSpec`, `MessagesEnd`, `KeysPersisted`, `SavesEnd` | no wake-up or job is lost, the queue keeps JobQueue with its liveness, every message of a campaign ends, and so does every save |
| `broadcast` | 2 messages, 2 attempts, 3 claims, one trouble of any kind; 2 lines and 2 cycles of the warm-up | `OneWorker`, `DeliveredOnce`, `VerdictIsTrue`, `OutcomeIsFinal`, `QuotaKept` | one worker, one delivery, true verdict, final outcome; the daily limit of a line, but for the ways named |
| `pairs` | 4 lines, 2 cycles one after the other | `PairsAvoided` (violated) | a pair is put together again although another line could take its place |
| `auto_assign` | 2 agents, 2 sockets, 2 chats of different queues, 2 runs, 1 manual operation; fair | `CyclesDoNotClash`, `CyclesGoOn` | an undisturbed cycle takes no chat and overloads nobody; every cycle ends and lets the next one in |
| `sessions` | 2 requests, 2 controllers, 2 records, 1 failed call; 3 sockets, 2 attempts, 1 failure or dropped event | `OneController`, `NoSilentDeath`, `RowIsTrue`, `SocketIsLine` | one controller is made at a time and only the session's is heard, unless a deletion crossed; a restart is never the last word, the row is true unless handlers overtook each other or a save of keys put it back to pending, the controller is a SocketLine |
| `messages` | 1 message, 3 handlers, 2 acknowledgements, 2 edits; 3 messages and 2 loads of a conversation; 2 chats and 2 actions beside a list of them | `NothingLost`, `StatusIsTrue`, `LogSpec`, `ConversationIsTrue`, `ListIsTrue` | a message is stored and announced once and ends with its last status; the pages show it |
| `office` | 2 turns of a resync over 3 moments; 2 administrators, 3 tokens, 2 requests; 3 logins, 3 calls and 4 clicks in a tab; 2 quick replies, 2 chats; 2 queues, a dialog and 5 calls of it | `NothingPassedOver`, `AnAdministratorRemains`, `RevocationHolds`, `LogoutSticks`, `AsComposed`, `ListedIsOfTheQueue` | the same of the resync, the accounts, the tab, quick replies and queues, but for the ways each property names |

Why these bounds are enough. Two requests on one chat: a request is overtaken by
*one* other, and locks are per chat, per session and per user. Each chat
configuration picks the operations that interfere in one scenario; together they
exercise all of them, though not every pair (reopen against unassign, or an own
message against the transactions, for instance, are left to the proofs, which
have no such limit). `DeskSpec` in particular is checked by TLC only for the
operations of `chat_handover`, and proved for all.
`MaxClaims` and `MaxTrouble` of Broadcast: a message is claimed once more than
its attempts, so that one too many can be seen; one trouble, since each property
names its exceptions per trouble. `MaxManual` of AutoAssign: one operation is
enough to meddle. Of WhatsAppSocket, `Limit` is 2 instead of 5 and `MaxSock` 3:
attempts run out, are forgiven by an open in between, and run out by the double
count of an unnamed reason; a fourth socket would begin as the third did. Of
WhatsAppService, two controllers and two records: one in use and one that
replaces it or is being made beside it; a request that would need a third waits
for ever. Of MessageStore three handlers: the insert of a send, its echo, and an
event about it. Of the pages two of everything that may be confused (chats,
queues, templates, sessions, lists in flight) and as many clicks as it takes to
begin something in one, go to another and be answered there. The conversation
begins with two messages, so that it has an older page, and has room for one
more; what takes three new ones (an event that is two before the page that it
meets) takes a run of its own of several million states, and is left to the
proof of `ConversationStaysTrue`. Every bound is a
CONSTANT named `Max...` in its module, with its meaning beside it.

Deadlock is checked except where the instance really stops: all jobs of the
queue offered and over; a campaign with all its messages ended; a session given
up, or at the bounds of sockets and controllers; a page whose clicks are spent.
Requests, agents of one queue, handlers, messages and sessions are symmetric
where a cfg says so; no fair run uses symmetry.

### Fairness

- `chat_wait`: strong fairness of each request's steps. A request waiting for a
  lock is enabled only between two holders; PostgreSQL queues the waiters of a
  lock, so it does get it. `Fail` and `Start` are not fair.
- `jobs`, queue: the event loop runs every callback it holds, and the promises of
  jobs settle (weak fairness).
- `jobs`, campaign: the poller ticks, statements and calls are answered, retries
  fall due and leases run out (weak fairness); no trouble is obliged to happen.
- `jobs`, key store: every call under way is carried on (weak fairness of its
  steps); a wait for a connection of the pool ends by its timeout.
- `auto_assign`: the statements of a run are answered (weak fairness of its
  steps); nothing obliges a run to start.

### What the violated runs say

Each states a comment of the code, quoted with its place in `PROJECT.json`, and
TLC finds the interleaving that refutes it: a chat transferred to an agent while
it is being deleted stays OPEN with nobody; the pairs that the warm-up means to
avoid are never seen, because the replies of a Redis transaction are read in the
shape of another client library.

The same unguarded reads explain more disagreements, which have no run of
their own: two agents who press "take" on one waiting chat both succeed and the
second replaces the first, against the guard commented at
`services/chatService.js:81` (in the model an overtaken `assignChat`); a chat
taken by hand between the listing and the update of a cycle is assigned again,
against `services/chatAutoAssignmentService.js:40`; an agent with two tabs has
two rows in `user_connections` and may get two chats in a cycle, against `:39`;
two administrators who delete each other at once leave none, against the refusal
at `services/userService.js:146` (in the model `excused`). And one more: while
any session waits for its code, its poller keeps starting the timer of the page
of connections anew, and no other card is refreshed, against the comment at
`frontend/src/context/WhatsappSessionsContext.jsx:166`, which speaks of a
periodic refresh of all visible sessions; `CardsAreTrue` promises nothing for
those cards.

## Proofs

TLC shows a property on the small instances above; the theorems below hold for
every value of the constants. Each is checked by TLAPS to the last leaf. The
argument is the same in all modules: an invariant `Inv`, made of named parts,
holds at first and is kept by each action (one lemma per part, one step per
action), and the property follows from it. Before it was proved, each part was
checked by TLC on the instance of its module.

| Module | About | Theorems | Assumes |
|---|---|---|---|
| ChatDeskProofs | ChatDesk | `DeskTypes`, `DeskIsSound`, `DeskKeepsAgents` | `RolesAssumption` |
| ChatLifecycleProofs | ChatLifecycle, ChatListScreen | `Invariant`, `TypesCorrect`, `LocksReleased`, `RequestsStaySound`, `Implements`, `RowsStaySound`, `AgentsKeepChats`, `CreateIsExclusive`; `ListInvariant`, `ListStaysTrue` | `RolesAssumption`, `ProcsAssumption`, `ListAssumption` |
| JobsProofs | WorkerQueue, AuthState | `Invariant`, `JobsAreKept`, `SlotsAreCounted`, `WakeupsAreKept`, `Implements`; `StoreInvariant`, `StoreTyped`, `KeysStay` | `QueueAssumption`, `AuthAssumption` |
| BroadcastProofs | Broadcast, Warmup, CampaignForm | `Invariant`, `TypesCorrect`, `MessageHasOneWorker`, `MessageComesOnce`, `VerdictNeverEarly`, `RetriesAreCounted`, `OutcomeStaysFinal`; `WarmupInvariant`, `WarmupTyped`, `QuotaStays`; `FormInvariant`, `CampaignsAreAsShown` | `BroadcastAssumption`, `WarmupAssumption`, `FormAssumption` |
| AutoAssignProofs | AutoAssign | `Invariant`, `Typed`, `OneCycle`, `CyclesNeverClash` | `AutoAssumption` |
| MessageStoreProofs | MessageStore, HistorySync, Composer, ConversationScreen | `Invariant`, `NothingIsLost`, `StatusStaysTrue`, `Implements`; `SyncInvariant`, `SyncTyped`, `NothingIsPassedOver`; `FootInvariant`, `SentWhereItWasComposed`; `TalkInvariant`, `ConversationStaysTrue` | `StoreAssumption`, `HistoryAssumption`, `ComposerAssumption`, `ScreenAssumption` |
| SessionsProofs | WhatsAppService, WhatsAppSocket, SessionsScreen | `Invariant`, `Typed`, `OnlyOneController`; `SocketInvariant`, `SocketTyped`, `NeverSilent`, `RestartsAlone`, `RowTellsTruth`, `Implements`; `CardsInvariant`, `CardsStayTrue` | `ServiceAssumption`, `SocketAssumption`, `SessionsAssumption` |
| OfficeProofs | Accounts, AuthScreen, ChatLines, QuickReplies, QueueDesk | `Invariant`, `Typed`, `RevocationsHold`, `AdministratorsRemain`; `TabInvariant`, `LogoutsStick`; `LinesInvariant`, `LinesTyped`, `RightsStay`, `OrphansStayAdopted`; `QuickInvariant`, `SentAsComposed`; `QueuesInvariant`, `ListsAreOfTheQueue` | `AccountsAssumption`, `TabAssumption`, `LinesAssumption`, `RepliesAssumption`, `QueuesAssumption` |

The assumptions say that constants have their kind (limits are numbers, a
page, a period and a second positive ones, the
sets that are counted are finite, the value for "nobody" is nobody), that the
roles of users are disjoint, for the accounts that there is a user and a token
for each, for the lines that a first chat has a line, and a queue if its
line has one, and for the quick replies and queues that there is a text and a
name to give them. Each is evaluated by TLC in the run of its module.

### Why the invariants are what they are

**Chats.** Types alone do not carry the refinement. `Inv` of ChatLifecycle says
where a request may hold a row lock or the lock of the session (only inside its
transaction, and no two hold the same), and what it relies on while it waits:
that the row it has read still exists, and, under its locks, is still as it
read it (`RequestsSound`). With that an UPDATE that comes after another write of
the row is an `Overtaken` step of the desk and any other is the operation it
decided on (`UpdateIsLegal`, `UpdateIsOvertaken`); the commits of the two
transactions are never overtaken (`CreateIsLegal`, `DeleteIsLegal`). The
properties of rows and agents are then properties of the desk (ChatDeskProofs),
carried over through `Implements`.

**Job queue.** The counter `active` counts the jobs that run or have settled
without their `finally`; the queue holds exactly the waiting jobs, each once; and
a waiting job beside a free slot has a microtask or a `finally` to wake it.
`RunNextKeeps` is stated for a caller that has already changed the counter,
since `runNext` is called from two places. `Implements` is the safety half of
JobQueue; its liveness is `QueueFairSpec` of run `jobs`.

**Campaigns.** Four parts, each resting on the one before. `Structure`: a claim
is in the batch, waiting, running or over, in one place only, and was made of an
inserted row. `LatestInPlay`: a claim in play is the latest of its message and
its row is leased, unless a lease lapsed under a job (`lapsed`); this is why a
claim by `SKIP LOCKED` needs no other guard. `Deliveries` ties what was delivered
to what the row knows, with the job between the two named (`Recording`).
`Verdicts`: counts are stale when they are written, yet outcomes are final, so a
count of all messages stays true: that is what `VerdictIsTrue` rests on, and it
is proved beside `OutcomeStays`. `RetriesAreCounted` is a result without a run.

**Warm-up.** `OnePerProcess`: a cycle under way has its process to itself, so
whoever else has a line is another process, which the property names. The
engine counts a conversation only after it, so the counter alone is not
inductive: `LineSound` says that the counter with what the cycle has noted
covers what a line sent, and that until its conversation the line is below its
limit. `SpeechBound` bounds what is noted: nobody speaks twice in a row, so of
the turns so far a line has half, and half a one more if it spoke last.

**Key store.** Calls begin in the order in which they are numbered, and what a
save writes is an object nobody else has until it has it
saved. The youngest call to a key has the key's last value in hand, is saving it
or has saved it, unless it failed; once no save is under way only the last
remains. The proof showed that the module forgot a failed reset when a later
call failed as well; its history variable `unsaved` was corrected.

**Assignment.** `Exclusive` (a run is under way exactly when the lock is its own)
makes the reads of a run nobody else's to spoil but for the manual handlers.
`ReadsAreTrue`: until one meddles, the chats left in the queue wait, each once,
and `load` is the true load, what the cycle gave included; `Rotated` is the lemma
that the rotation of the list keeps it a list of the same agents.

**Messages.** `HandlersSound` is where each kind of handler may be and what it
carries; `StoredFirst`, that a row is announced only after it is there;
`Answered`, what the answer of a send implies; `Carried`, that a message
delivered and not stored is in somebody's hands or marked; `Followed` and
`Shown`, the same of acknowledgements and edits, up to the youngest written.
`Implements` maps rows and announcements to MessageLog.

**Catching up.** The date in the row is written by whoever handles a message, so
it says nothing while a resync is under way. `StillAsked` says what does: a message
that is missing without a reason is younger than what the resync began from and
is below its cursor, in the page in hand, or younger than all that was asked for,
so that the date written at the end stays before it. Two lemmas about the code's
arithmetic carry it: a page is a block (`PagesAreBlocks`: nothing between the
cursor and its oldest message is left out), and seconds are monotone
(`StampMonotone`: the page that reaches back to the second where it began leaves
nothing behind). `ResyncIsFirst` and `BatchesWait` tie the queue of jobs to what they
work on.

**Sessions.** In the registry, unless a deletion crossed (`astray`), a creation
under way has its lock and an empty map, a reconnection has the lock of its own
and is of the record in the map, and nobody is heard while either is
(`CreationLocked`, `ReconnectionLocked`, `Silence`). `HeardIsStored` alone, which
is nearly the property, is not inductive: a finished call would store a
controller beside another. The first attempt failed for a reason in the code,
the lock dropped by the `finally` of an older reconnection; see
[below](#what-was-seen-and-is-no-finding).
In the socket, `Structure` says that sockets follow each other, tasks follow the
life of their socket and only the present socket's close is being answered;
`Words`, that the row is what its youngest writer said, or pending if keys were
saved since (`saved`), unless an older one wrote later (`late`). From `Structure` also follows that the early return of
`restartSocket` is never reached (`RestartsAlone`). `Implements` maps the socket
to one controller of SocketLine, which is the one the registry uses.

**Accounts.** A token is later than those signed before it, but what decides
is the key, which holds the number of the last login: `Numbered` says that
numbers rise in the order in which logins begin and that a login under way has a
number no signed token has, so a key, written late as it may be, is not that of a
session that was ended (`Voided`). `OthersRemain` says what a removal that passed
the check of the last administrator still relies on until it writes, unless it
is `late`. In the tab, `LoggedOut` says the server has no key for a token
that was logged out of, and `StoredIsAsked` that a session that is stored or
shown all the same is about to be asked for or has been and not approved: a
logout sticks because of the question, not of the storage.

**Rights.** The rights to a chat are read before the statement that writes it
and by then may be gone, so no invariant of rows gives `RightsHeld`.
`RequestSound` says what a request goes by at each step instead: the queue it
is about to give was on the line, and its user in the queue, at a moment of its
own time, and the chat it read has the queue it read unless it saw a chat turn. What
it read may be a copy from before the chat turned (`past`; `Outdate` keeps the
rows a copy may hold), which counts as seeing it turn from then on: the checks
are of the old queue, the write is by id, and no later check notices.
`PastTyped` is all the proof needs to know of the copies.
`OnePerLine` is the unique key, and leaves a number an id for each line it has
no chat on (`RoomLeft`, by the pigeonhole principle). `OrphansAwaited`: a chat
that lacks a queue its line has is about to be given one by a request under
way. The first attempt failed: `createOrReopenChat` may open a closed chat in
another queue, which turns it for the others as well, and `turned` missed it. The
bounds of `pages` were too small to show it, since a line had one queue; the
module was corrected and the run given a line with two and a closed chat.

**Quick replies.** Of a reply each version has one text, since a removal leaves
both and every other write makes a new version: `RowsKept` carries whatever an
item has shown (`Seen`) over all writes, so the row that a send reads is the one
composed or newer. That a draft goes out once needs `OneAtATime`, since nothing
in the request says which draft it is of: the window waits for one request, and
once a message is out (`WellSent`) the request for it has only to be answered,
which clears the draft, or was answered and the draft is gone. That leaves out the
drafts whose window was `misled`. The module used to answer every message that
was out with success; in the code the insert of its row, the events and the
audits are awaited after it (`RecordUse`) and their errors reach the window,
which keeps the draft for a second click. The chat needs
`WindowSound`: a draft is of the chat that is open, because opening another
clears it.

**Page of the queues.** `OneCall`: unless the page rendered during a call
(`crossed`), an open dialog has at most one call, about its own queue, and a
closed one none, so the list that comes is the one asked for. The first attempt
failed: a change that is answered late loads the list of the queue that it was
about, by which time the dialog may be another's or have other calls under way,
and there the module forgot `crossed`. It takes five calls to see, and the run
allowed four; the module was corrected and the run given the fifth.

**Foot of a chat.** Files and text are emptied when another chat is opened, but
recordings and their chunks are not: `TakesSound` says that a recording that is
not over began in the open chat or was crossed, that of two that hold the
microphone both were, and that chunks of a recording that is over lie there
beside a running one only if it was crossed. The last two are why the voice
note made of all the chunks is the open chat's. What is sent is a copy, so a
request keeps what it was made of (`PostingSound`), since a recording that is
over does not change (`OverStay`).

**Form of a campaign.** An order carries two things from click to insertion: what
the form showed, and the values that the request took of it. `OrdersSound` says
that they agree (`Ordered`: text and file are those shown, the recipients are
those of the sheet if there was one, a template the form took or none), and that
the campaign is of the order from its insertion on, or was not made (`OfOrder`).
No part speaks of the form *after* the click, which is what lets the form be
emptied, the sheet be read again and the template be removed meanwhile.

**Page of the connections.** The timer of six seconds begins anew whenever a card
is set, so that it goes off is no matter of course, and while a poller sets one
every four seconds it never does. The promise is therefore made for each card
(`calm`): an answer to the poller of one session puts the cards of all the others
off. Since something last put a card off either the timer has not gone off yet,
and then falls due within the period (`Due`: `calm[s] + timer <= RefreshEvery`),
or the card is true or its answer is on the way (`Seen`), with a poll that read
what the server still has (`YoungPollsRead`). An answer to the refresh also
starts the timer anew; it puts nothing off, because the refresh asked for all
cards at once (`AskedForAll`). The proof needs nothing of the call of the user,
so a call under way is no exception of `CardsAreTrue`.

**Conversation.** Two orders meet in the list: that of the feed, in which the
last word on a message is the last (`FeedSound`), and that of the responses,
which is none. `ListTrue` says what holds in between: what the list lacks after
its beginning, or shows with an old status, is *owed*, by an event or the
response of the send, or is *coming*, with a reload; and so from the cursor of
a page that was asked for on, so that the older page closes up with the list.
`PagesTrue` says it of a page that was read and is not yet the list: what
it lacks is owed or coming too, unless the list has something newer than all of
it or a later status (`Newer`, `Overtaken`), which is when the reload spoils
the list. The first attempt failed for a good reason: a response, or an event,
of a message that is *two* before the page leaves a list with a hole, since the
message between has been announced to a list that was replaced. The module
did not count that as `spoilt`; three new messages are needed, and the run has
room for one. The module was corrected (`Earlier`), and the corrected one checked
with room for three as well.

**List of chats.** Loads are answered in any order, the events come in theirs,
and the user's own writes are told by their answers alone. `ListSound` says of
each chat the list has wrong, or lacks before its cursor, that an event about it
is on its way (`Told`) or the answer of a write (`Answered`); `MoreSound` says it
from the cursor of a page that was asked for, so that the page closes up with
the list. That an event on its way is enough needs `WordsSound`: the *last* word
on a chat leaves it right, whether that shows it, patches it or takes it away; it
need not be true of the words before. `PageSound` says that a page that was read
is the table's but for the chats written since (`missed`), and `AgentSound` that
an agent has only chats of his own, in the only tab he has. `ListSound` and
`MoreSound` are silent while the whole list is being loaded (`Steady`), for what
comes replaces it. The order of the chats used to be a sequence in the module,
which `SelectSeq` took apart, a recursion that no prover opens; it is now, of each
chat, the set of those updated before it, and a page is the first of those found.

### What stays with TLC

- Liveness and everything under fairness: `RequestsEnd`, `MessagesEnd`,
  `SavesEnd`, `CyclesGoOn` and the fair half of `QueueFairSpec`. `ENABLED` is
  beyond the provers.
- What a recursive definition computes for every input: induction over data.

Every invariant that a run checks has a theorem.

## What was seen and is no finding

No text of the repository promises otherwise, so these are not stated as
findings. Where a property has to except one of them, its comment says so.

Chats
- An own message closes an UNASSIGNED chat and a history message an OPEN one
  (`whatsappInboundService.js:194`).
- The advisory lock of a connection selection is taken by a query of the pool
  and released at once (`chatService.js:311`): it reserves nothing.
- The transfer to another connection keeps `queue_id` and answers 500 on the
  unique key; chats of a queue that was deleted are not adopted, and making it
  active again adopts nothing.
- The limit per cycle of `gradualAssignmentEnabled` never bites before the loop
  ends.
- A Socket.IO socket that closes while its token is verified is inserted as
  connected afterwards (`userConnectionService.js:30`).
- `assignChat` and `reassignChat` decide on the copy in Redis
  (`chatRepository.js:98`), up to 30 seconds old: after a chat was opened in
  another queue an agent of the old one may still take it, or be given it
  (`RightsHeld` has the exception).
- In the list of chats, tabs answer out of order; an action of somebody else is
  not announced to it, and `chat:new` is never emitted.

Messages
- `last_synced_at` is overwritten by every handler with the date of its own; the
  messages of the same second as the last are not asked for again.
- The history marks its session SYNCED and may put it back to SYNCING.
- An echo that beats the insert of a send makes the API answer an error although
  the message is out.
- A conversation whose reload is answered late may keep a hole: a message
  announced before the answer is dropped with the list it went to
  (`ConversationIsTrue` has the exceptions).
- At the foot of a chat: "Cancelar" keeps the voice note, an answer empties the
  text of a chat opened meanwhile, a recording begun in one chat may go to
  another (`SentWhereComposed` has the exceptions); a quick reply is chosen from
  answers kept for good, and one that is out may be answered with an error
  (`chatMessageService.js:257`, `:279`, `quickReply.service.js:256`), after which
  the window keeps the draft (`ChatWindow.jsx:343`) and a click sends it again.

Campaigns and warm-up
- A job queue accepts a burst beyond its limit while slots are free.
- The counts of a campaign are read in one statement and written in another
  (`broadcastRepository.js:261`): of two jobs that finish together the one with
  the older counts may write last, and a finished campaign stays `running`
  (`VerdictIsTrue` is what holds all the same).
- A campaign may send after its window closed if the delay crosses it.
- The form sends `startAt: null`, which the validator does not take for absent:
  a campaign without both hours is answered 422 and the form emptied.
- A send that throws loses the counts of the whole cycle of the warm-up; two
  cycles at once use a quota twice; the release of a lock is a GET and a DEL.

WhatsApp sessions
- `disconnectSession` ends a socket with its listeners on, so the close is
  answered by a restart: a disconnected session has a live socket that nobody
  listens to, and after `deleteSession` its handlers insert the row again.
- `deleteSession` forgets locks whose work is under way
  (`whatsappService.js:845`), a status poll between `createSession` and the
  insertion of the row marks the new session deleted (`:383`), and a
  disconnect of a deleted session stores its fake record (`:557`).
- The `finally` of a reconnection drops the lock of its name, whosever it is
  (`:463`): after a deletion it may be that of a later one, which a third
  request then passes. The attempt to prove `OneController` showed this; the
  model counts it with the deletions that cross (`astray`).
- `reconnectAttempts` rises twice for a close without a named reason, which
  halves the five attempts, and never bounds the restarts of a logged out
  session.
- A full realtime queue, or a statement that fails in the handler of a close,
  leaves the session closed with nothing to restart it.
- `restartSocket` returns early when a restart is under way, but no handler ever
  finds one: a socket closes once, and no other is made meanwhile (theorem
  `RestartsAlone`).
- `reconnectSession` makes its socket without options: the history of a session
  is not asked for after it.
- Every save of keys or credentials writes the status of the session too, with
  its default (`whatsappAuthState.js:132`; called at `:186`, `:198`, `:205` and
  from `whatsappSocket.js:973`): the row of an open session says pending until the
  next event of its socket (`RowIsTrue` allows that and no other untruth).
- Of the key store: a deletion that is merged with an older read brings the key
  back, a key set during the read of a save is lost from memory
  (`whatsappAuthState.js:188`), and as many saves at once as the pool has
  connections fail the first of them after five seconds.

Accounts and pages
- The check of the last administrator is made for a deactivation and a deletion,
  not for a change of role, and under no lock; a login in flight survives a new
  password and a forced logout; a forced logout that fails is passed over.
- Any 401, of a wrong current password too, ends the session that is shown; the
  answer of a late `/auth/me` brings a session back after its logout.
- The page of queues hands its dialog a new `onError` at each render, so the
  dialog loads at each render, and an error that persists loads for ever.
- On the page of connections any poll that finds a session connected closes any
  window with a QR code, and each answer starts the timer of six seconds anew, so
  that while a poller runs no other card is asked for.

## Not modelled, and why

`PROJECT.json` lists each component with its status and the reason. Not at all:
legacy conversations and mass messaging (replaced by chats and campaigns),
settings (one row, here the constants of the modules that read it), contacts,
feedback, follow-up, retention, appointments, analytics and the dashboard
(single statements on tables of their own), the counters of the middlewares
(which only refuse), migrations. Of what is modelled in part, the main gaps:
pairing, QR codes and the shutdown of sessions; of the history of a
session, its limit of days and of chats (`whatsappSocket.js:465`) and the branch for
a client without `fetchMessagesFromWA` (`:784`); other tabs of the same browser,
which write the same storage as the one in AuthScreen; in ChatLines the queue
that `sendMessage` gives to a chat without one (`chatMessageService.js:200`); the reset that keeps the
credentials of a logged out session; spintax and variables of messages; times
of day other than "before" and "after"; search, filters, exports and unread
counts; chats updated in one millisecond, which is all a cursor of their list
keeps of a time; the inactivity warning, which no code sends; contents of audit rows.

## Plan

1. Done: the modules above, the runs and the proofs listed.
2. Next proof: the composition of the registry with the controllers as one theorem
   (a WhatsAppService over WhatsAppSocket keeps `OneController`), and the
   resync with the row of its session.
