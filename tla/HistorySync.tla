---------------------------- MODULE HistorySync ----------------------------
(***************************************************************************)
(* What a WhatsApp session does to have the messages it missed:            *)
(* performIncrementalResync after a reconnection, handleMessagingHistory   *)
(* when a phone sends its history (backend/src/whatsapp/whatsappSocket.js),*)
(* and the handlers of messages, which write how far the session has come, *)
(* last_synced_at, each by itself (whatsappInboundService.js,              *)
(* chatMessageService.js).  The next resync asks WhatsApp for what is      *)
(* younger than that.                                                      *)
(*                                                                         *)
(* A message is the moment it was written, and moments count the messages; *)
(* WhatsApp stamps it with the second, of Second moments.  One chat stands *)
(* for all: its pages, from the youngest message to the oldest, take the   *)
(* part of the chats that are asked for one after the other.               *)
(***************************************************************************)
EXTENDS Integers, Sequences, FiniteSets

CONSTANTS
  Second,      \* messages that may be written within one second
  Page,        \* RESYNC_BATCH, and the batch of a history
  MaxNow,      \* bound: messages
  MaxTurns,    \* bound: openings, closings, settings
  MaxMishaps   \* bound: statements that fail, dropped events, restarts

ASSUME HistoryAssumption ==
  /\ {Second, Page, MaxNow} \subseteq Nat \ {0}
  /\ {MaxTurns, MaxMishaps} \subseteq Nat

Never   == -1
Stamp(m) == m - (m % Second)

VARIABLES
  now,       \* the last message written
  received,  \* rows of chat_messages
  arrivals,  \* messages that handleIncomingWhatsAppMessage or sendMessage has in hand
  row,       \* of whatsapp_sessions: last_synced_at; since, the moment to ask from
             \* while there is none, of last_disconnect_at or else last_connect_at;
             \* sync_history
  up,        \* the line
  notices,   \* handlers of `open` and `close` under way
  asks,      \* sessionContext.syncHistory of the controller
  jobs,      \* historyQueue
  resync,    \* performIncrementalResync
  past,      \* the rest of a history that handleMessagingHistory goes through
  skipped,   \* history: messages passed over, for the reasons NothingPassedOver names
  turns, mishaps

line == <<up, notices, asks>>
work == <<jobs, resync, past>>
syncVars == <<now, received, arrivals, row, line, work, skipped, turns, mishaps>>

NoHistory == <<>>
AtRest == [at |-> "rest", from |-> Never, below |-> 0, todo |-> {}, newest |-> Never, alive |-> TRUE]

SyncInit ==  \* a new session, or one that has come so far and is connected
  /\ now = 0 /\ received = {} /\ arrivals = {}
  /\ up \in BOOLEAN
  /\ row = [synced |-> IF up THEN 0 ELSE Never, since |-> Never, closed |-> FALSE, wanted |-> TRUE]
  /\ notices = {} /\ asks = TRUE
  /\ jobs = <<>> /\ resync = AtRest /\ past = NoHistory
  /\ skipped = {} /\ turns = 0 /\ mishaps = 0

Messages == 1..now
Arriving == {h.msg : h \in arrivals}
Missing  == Messages \ (received \cup Arriving)
Passed(synced) == {m \in Missing : Stamp(m) <= synced}

Happens == mishaps < MaxMishaps /\ mishaps' = mishaps + 1
Turn    == turns < MaxTurns /\ turns' = turns + 1

(* The queue has each of its two jobs once at most.                        *)
Queued(j) == \E i \in DOMAIN jobs : jobs[i] = j

Hand(msgs, sent) == arrivals' = arrivals \cup {[msg |-> m, sent |-> sent] : m \in msgs}

-----------------------------------------------------------------------------
(* A message is written.  While the line is up it comes as an event that   *)
(* the realtime queue may drop; while it is down, in a second in which     *)
(* something happened before, the comparisons by seconds pass it over.     *)
Receive ==
  /\ now < MaxNow /\ now' = now + 1
  /\ \/ /\ up /\ Hand({now'}, FALSE) /\ UNCHANGED <<skipped, mishaps>>
     \/ /\ up /\ Happens /\ skipped' = skipped \cup {now'} /\ UNCHANGED arrivals
     \/ /\ ~up /\ UNCHANGED <<arrivals, mishaps>>
        /\ skipped' = IF Stamp(now') <= now THEN skipped \cup {now'} ELSE skipped
  /\ UNCHANGED <<received, row, line, work, turns>>

(* An agent sends one.                                                     *)
SendOne ==
  /\ up /\ now < MaxNow /\ now' = now + 1
  /\ Hand({now'}, TRUE)
  /\ UNCHANGED <<received, row, line, work, skipped, turns, mishaps>>

(* A handler finds the message or inserts it, and then writes how far the  *)
(* session has come: to this message, whatever was there, even when older  *)
(* ones are still to be asked for.  They are passed over unless a resync   *)
(* is asking for them already.  Either of the two writes may fail, the     *)
(* second one behind a catch.                                              *)
Reached(h) == IF h.sent THEN h.msg ELSE Stamp(h.msg)

Asking == resync.at \in {"fetch", "feed"}

HandleMessage(h) ==
  /\ arrivals' = arrivals \ {h}
  /\ \/ h.msg \in received /\ UNCHANGED <<received, row, skipped, mishaps>>
     \/ /\ h.msg \notin received /\ received' = received \cup {h.msg}
        /\ row' = [row EXCEPT !.synced = Reached(h)]
        /\ skipped' = IF Asking THEN skipped ELSE skipped \cup Passed(Reached(h))
        /\ UNCHANGED mishaps
     \/ /\ h.msg \notin received /\ Happens /\ received' = received \cup {h.msg}
        /\ UNCHANGED <<row, skipped>>
     \/ /\ h.msg \notin received /\ Happens /\ skipped' = skipped \cup {h.msg}
        /\ UNCHANGED <<received, row>>
  /\ UNCHANGED <<now, line, work, turns>>

-----------------------------------------------------------------------------
(* The line opens and closes; the handlers of the two run side by side.    *)
Open  == ~up /\ Turn /\ up' = TRUE /\ notices' = notices \cup {"open"}
         /\ UNCHANGED <<now, received, arrivals, row, asks, work, skipped, mishaps>>

Close == up /\ Turn /\ up' = FALSE /\ notices' = notices \cup {"close"}
         /\ UNCHANGED <<now, received, arrivals, row, asks, work, skipped, mishaps>>

OnOpen ==
  /\ "open" \in notices /\ notices' = notices \ {"open"}
  /\ row' = IF row.closed \/ row.synced # Never THEN row ELSE [row EXCEPT !.since = now]
  /\ jobs' = IF Queued("resync") THEN jobs ELSE Append(jobs, "resync")
  /\ UNCHANGED <<now, received, arrivals, up, asks, resync, past, skipped, turns, mishaps>>

OnClose ==
  /\ "close" \in notices /\ notices' = notices \ {"close"}
  /\ row' = IF row.synced # Never THEN row ELSE [row EXCEPT !.since = now, !.closed = TRUE]
  /\ UNCHANGED <<now, received, arrivals, up, asks, work, skipped, turns, mishaps>>

(* updateSessionSettings writes the flag.  Switched on, with the line up,  *)
(* reconnectSession ends the socket without its listeners and makes a      *)
(* controller that is not told of the flag.                                *)
upsertSessionSyncHistory(wanted) == [row EXCEPT !.wanted = wanted]

updateSessionSettings(wanted) ==
  /\ Turn
  /\ row' = upsertSessionSyncHistory(wanted)
  /\ IF wanted /\ up
     THEN /\ up' = FALSE /\ notices' = {} /\ asks' = FALSE
          /\ resync' = [resync EXCEPT !.alive = FALSE]
     ELSE UNCHANGED <<line, resync>>
  /\ UNCHANGED <<now, received, arrivals, jobs, past, skipped, mishaps>>

-----------------------------------------------------------------------------
(* performIncrementalResync, a job of the history queue, reads from where  *)
(* to ask.  A session that has handled no message asks from the moment at  *)
(* which its last close, or its open, was handled: what came before that   *)
(* moment is passed over.                                                  *)
From == IF row.synced # Never THEN row.synced ELSE row.since

ResyncBegins ==
  /\ jobs # <<>> /\ Head(jobs) = "resync" /\ resync.at = "rest"
  /\ resync' = [AtRest EXCEPT !.at = "fetch", !.from = From, !.newest = From, !.below = now + 1]
  /\ skipped' = IF row.synced = Never THEN skipped \cup Passed(From) ELSE skipped
  /\ UNCHANGED <<now, received, arrivals, line, jobs, past, turns, mishaps, row>>

(* The next page: the youngest messages below the cursor.                  *)
PageBelow(below) ==
  {m \in 1..(below - 1) : Cardinality({n \in 1..(below - 1) : n > m}) < Page}

Oldest(msgs) == CHOOSE m \in msgs : \A n \in msgs : m <= n

Fetch ==
  /\ resync.at = "fetch" /\ up /\ resync.alive
  /\ LET page == PageBelow(resync.below)
     IN resync' = IF page = {} THEN [resync EXCEPT !.at = "end"]
                  ELSE [resync EXCEPT !.at = "feed",
                                      !.todo = {m \in page : Stamp(m) > resync.from},
                                      !.below = Oldest(page)]
  /\ UNCHANGED <<now, received, arrivals, row, line, jobs, past, skipped, turns, mishaps>>

(* Its messages, the oldest first.  What happens to one is not waited for, *)
(* and handleMessagesUpsert catches what fails.                            *)
Feed ==
  /\ resync.at = "feed" /\ resync.todo # {}
  /\ LET m == Oldest(resync.todo)
     IN /\ resync' = [resync EXCEPT !.todo = @ \ {m},
                                    !.newest = IF Stamp(m) > @ THEN Stamp(m) ELSE @]
        /\ \/ Hand({m}, FALSE) /\ UNCHANGED <<skipped, mishaps>>
           \/ m \notin received /\ Happens /\ skipped' = skipped \cup {m} /\ UNCHANGED arrivals
  /\ UNCHANGED <<now, received, row, line, jobs, past, turns>>

(* It goes on until a page reaches back to where it began.                 *)
Turned ==
  /\ resync.at = "feed" /\ resync.todo = {}
  /\ resync' = [resync EXCEPT !.at = IF Stamp(resync.below) <= resync.from THEN "end" ELSE "fetch"]
  /\ UNCHANGED <<now, received, arrivals, row, line, jobs, past, skipped, turns, mishaps>>

ResyncEnds ==
  /\ resync.at = "end"
  /\ row' = [row EXCEPT !.synced = resync.newest]
  /\ resync' = AtRest /\ jobs' = Tail(jobs)
  /\ UNCHANGED <<now, received, arrivals, line, past, skipped, turns, mishaps>>

(* Mutant: a resync that fails writes how far it has come.                 *)
ResyncFailsCounted ==
  /\ resync.at = "fetch"
  /\ \/ ~(up /\ resync.alive) /\ UNCHANGED mishaps
     \/ Happens
  /\ resync' = AtRest /\ jobs' = Tail(jobs)
  /\ row' = [row EXCEPT !.synced = resync.newest]
  /\ skipped' = skipped \cup Passed(row.synced)
  /\ UNCHANGED <<now, received, arrivals, line, past, turns>>

(* The line is down again, or WhatsApp does not answer.  The messages that *)
(* were handed over may have written the row already, and those before     *)
(* them are passed over.                                                   *)
ResyncFails ==
  /\ resync.at = "fetch"
  /\ \/ ~(up /\ resync.alive) /\ UNCHANGED mishaps
     \/ Happens
  /\ resync' = AtRest /\ jobs' = Tail(jobs)
  /\ skipped' = skipped \cup Passed(row.synced)
  /\ UNCHANGED <<now, received, arrivals, row, line, past, turns>>

-----------------------------------------------------------------------------
(* The phone sends its history: what it has by now, in batches that wait   *)
(* for their turns in the history queue.                                   *)
Batches(n) == [i \in 1..((n + Page - 1) \div Page) |-> {m \in 1..n : (m - 1) \div Page = i - 1}]

handleMessagingHistory ==
  /\ up /\ asks /\ now > 0 /\ past = NoHistory /\ Turn
  /\ past' = Batches(now) /\ jobs' = Append(jobs, "batch")
  /\ UNCHANGED <<now, received, arrivals, row, line, resync, skipped, mishaps>>

HandBatch ==
  /\ jobs # <<>> /\ Head(jobs) = "batch"
  /\ Hand(Head(past) \ received, FALSE)
  /\ LET rest == Tail(past)
     IN /\ past' = IF rest = <<>> THEN NoHistory ELSE rest
        /\ jobs' = IF rest = <<>> THEN Tail(jobs) ELSE Append(Tail(jobs), "batch")
  /\ UNCHANGED <<now, received, row, line, resync, skipped, turns, mishaps>>

(* A full queue refuses the batch.                                         *)
HistoryFails ==
  /\ past # NoHistory /\ Happens
  /\ past' = NoHistory
  /\ jobs' = IF Queued("resync") THEN <<"resync">> ELSE <<>>
  /\ UNCHANGED <<now, received, arrivals, row, line, resync, skipped, turns>>

(* The process restarts: what was handed over is lost, and the session     *)
(* made anew has the flag of its row.                                      *)
Restart ==
  /\ Happens
  /\ skipped' = skipped \cup (Arriving \ received) \cup Passed(row.synced)
  /\ arrivals' = {} /\ up' = FALSE /\ notices' = {} /\ asks' = row.wanted
  /\ jobs' = <<>> /\ resync' = AtRest /\ past' = NoHistory
  /\ UNCHANGED <<now, received, row, turns>>

SyncNext ==
  \/ Receive \/ SendOne
  \/ \E h \in arrivals : HandleMessage(h)
  \/ Open \/ Close \/ OnOpen \/ OnClose
  \/ \E wanted \in BOOLEAN : updateSessionSettings(wanted)
  \/ ResyncBegins \/ Fetch \/ Feed \/ Turned \/ ResyncEnds \/ ResyncFails
  \/ handleMessagingHistory \/ HandBatch \/ HistoryFails \/ Restart

SyncSpec == SyncInit /\ [][SyncNext]_syncVars

-----------------------------------------------------------------------------
(* Nothing is passed over in silence: while no resync is asking, a message *)
(* that the database lacks and no handler has in hand is younger than      *)
(* last_synced_at, so that the next resync asks for it.  The code breaks   *)
(* this in the ways that fill `skipped`: a handler writes last_synced_at   *)
(* while older messages are missing and nobody asks for them, which is     *)
(* every message that comes or goes between a reconnection and the start   *)
(* of its resync; a resync that fails after its first page; a handler, an  *)
(* event or a process lost after the message was counted; a message of the *)
(* second in which the line went down.  Apart from these the pages, the    *)
(* order in which they are handed over and the date written at the end     *)
(* must leave no gap.                                                      *)
NothingPassedOver == ~Asking /\ resync.at # "end" => Passed(row.synced) \subseteq skipped

=============================================================================
