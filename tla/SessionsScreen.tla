--------------------------- MODULE SessionsScreen ---------------------------
(***************************************************************************)
(* The page of the WhatsApp connections in a browser (frontend/src/context *)
(* /WhatsappSessionsContext.jsx): a card for each session, the window with *)
(* the QR code, a poller for a session that waits for its code and one     *)
(* timer that asks for the state of every card.  That timer is started     *)
(* anew whenever the list of cards changes, and every answer changes it:   *)
(* while a poller runs, every four seconds, the timer of six seconds never *)
(* goes off, and no card but the poller's own is asked for.                *)
(* A step of the browser is what runs between two awaits, with the effects *)
(* of its render; the server (services/whatsappService.js) is a status per *)
(* session.  Left out: texts of errors, the loading marks, the history     *)
(* switch, logging out.                                                    *)
(***************************************************************************)
EXTENDS Naturals, FiniteSets

CONSTANTS
  Sessions, NoSession,
  PollEvery,     \* ticks between the polls of a session (4 seconds of 2)
  RefreshEvery,  \* ticks of the timer (6 seconds)
  MaxPolls,      \* bound: polls under way, but those of one tick
  MaxTurns     \* bound: changes of the server and calls of the user

ASSUME SessionsAssumption ==
  /\ NoSession \notin Sessions
  /\ {PollEvery, RefreshEvery, MaxPolls} \subseteq Nat \ {0} /\ MaxTurns \in Nat

VARIABLES
  server,   \* the status of each session
  cards,    \* state.sessions: the status on each card
  qr,       \* activeQrSessionId
  poller,   \* pollers: ticks to the next poll, 0 without a poller
  timer,    \* ticks to the next refresh
  gone,     \* deletedSessions
  polls,    \* polls under way
  call,       \* the call of the user under way
  calm,     \* history: for each session, ticks since anything put its card off
  turns   \* changes and calls so far

pageVars == <<server, cards, qr, poller, timer, gone, polls, call, calm, turns>>

Statuses == {"pending", "connected", "disconnected", "deleted"}  \* connecting is as pending;
                                                                  \* deleted: no such session
Carded == DOMAIN cards
NoCall == [kind |-> "none", id |-> NoSession, at |-> "none", got |-> "none", list |-> <<>>, qr |-> NoSession]
With(s, status) == [i \in Carded \cup {s} |-> IF i = s THEN status ELSE cards[i]]
Without(S) == [i \in Carded \ S |-> cards[i]]

PageInit ==
  /\ server \in [Sessions -> {"connected", "pending", "deleted"}]
  /\ cards = [s \in {} |-> "none"] /\ qr = NoSession
  /\ poller = [s \in Sessions |-> 0] /\ timer = RefreshEvery /\ gone = {}
  /\ polls = {} /\ call = [NoCall EXCEPT !.kind = "list", !.at = "asked"]
  /\ calm = [s \in Sessions |-> 0] /\ turns = 0

-----------------------------------------------------------------------------
(* Something happened: every card is put off, and what is under way may    *)
(* not have seen it and is old.                                            *)
Aged(S) == {[p EXCEPT !.old = TRUE] : p \in S}
PutOff(S) == calm' = [s \in Sessions |-> IF s \in S THEN 0 ELSE calm[s]]
Stir(S) == polls' = Aged(S) /\ PutOff(Sessions)
Happening == turns < MaxTurns /\ turns' = turns + 1 /\ Stir(polls)

(* The cards change: the effect with the timer runs again.                 *)
SetCards(next) == cards' = next /\ timer' = RefreshEvery

StartPolling(s) == [poller EXCEPT ![s] = IF @ = 0 THEN PollEvery ELSE @]
StopPolling(s) == [poller EXCEPT ![s] = 0]

(* by: the refresh asks for every card at once, the others for one.        *)
Poll(S, by) == {[id |-> s, at |-> "asked", got |-> "none", by |-> by, old |-> FALSE] : s \in S \ gone}

-----------------------------------------------------------------------------
(* The server.                                                             *)
ServerChanges(s) ==
  /\ server[s] # "deleted" /\ Happening
  /\ \E status \in Statuses \ {server[s], "deleted"} : server' = [server EXCEPT ![s] = status]
  /\ UNCHANGED <<cards, qr, poller, timer, gone, call>>

ServePoll(p) ==
  /\ p \in polls /\ p.at = "asked"
  /\ polls' = (polls \ {p}) \cup {[p EXCEPT !.at = "read", !.got = server[p.id]]}
  /\ UNCHANGED <<server, cards, qr, poller, timer, gone, call, calm, turns>>

(* What a call does to its session.                                        *)
Done(kind, status) ==
  CASE kind = "create" /\ status = "deleted" -> {"pending"}
    [] kind \in {"reconnect", "renewQr", "resetAuth"} /\ status # "deleted" -> {"pending"}
    [] kind = "disconnect" /\ status # "deleted" -> {"disconnected"}
    [] kind = "delete" -> {"deleted"}
    [] OTHER -> {status}

ServeCall ==
  /\ call.at = "asked"
  /\ IF call.kind = "list"
     THEN /\ call' = [call EXCEPT !.at = "read", !.list = [s \in {i \in Sessions : server[i] # "deleted"} |-> server[s]]]
          /\ UNCHANGED <<server, polls, calm>>
     ELSE \E status \in Done(call.kind, server[call.id]) :
            /\ server' = [server EXCEPT ![call.id] = status]
            /\ call' = [call EXCEPT !.at = "read", !.got = status]
            /\ IF status # server[call.id] THEN Stir(polls)
               ELSE UNCHANGED <<polls, calm>>
  /\ UNCHANGED <<cards, qr, poller, timer, gone, turns>>

-----------------------------------------------------------------------------
(* Time: the intervals of the pollers and of the refresh.  Bound: a poll   *)
(* has reached the server before the next tick.                            *)
RefreshedWaiting == {s \in Carded : cards[s] = "pending"}  \* mutant

Refreshed == Carded

Tick ==
  LET due == {s \in Sessions : poller[s] = 1}
      asked == Poll(due, "poller") \cup IF timer = 1 THEN Poll(Refreshed, "refresh") ELSE {} IN
  /\ \A p \in polls : p.at = "read"
  /\ polls = {} \/ Cardinality(polls \cup asked) <= MaxPolls
  /\ polls' = polls \cup asked
  /\ poller' = [s \in Sessions |-> IF s \in due THEN PollEvery ELSE IF poller[s] = 0 THEN 0 ELSE poller[s] - 1]
  /\ timer' = IF timer = 1 THEN RefreshEvery ELSE timer - 1
  /\ calm' = [s \in Sessions |-> IF calm[s] < RefreshEvery THEN calm[s] + 1 ELSE calm[s]]
  /\ UNCHANGED <<server, cards, qr, gone, call, turns>>

(* pollStatus, after its awaits: the card is set even if it is gone by     *)
(* then, and a connected session closes the window, whoever's it is.  An   *)
(* answer the refresh did not ask for puts the other cards off: the timer  *)
(* starts anew, and none of them was asked for.                            *)
pollStatus(p) ==
  /\ p \in polls /\ p.at = "read"
  /\ SetCards(With(p.id, p.got))
  /\ IF p.got = "connected" THEN qr' = NoSession /\ poller' = StopPolling(p.id)
     ELSE UNCHANGED <<qr, poller>>
  /\ IF p.old THEN Stir(polls \ {p})
     ELSE polls' = polls \ {p} /\ PutOff(IF p.by = "refresh" THEN {} ELSE Sessions \ {p.id})
  /\ UNCHANGED <<server, gone, call, turns>>

PollFails(p) ==
  /\ p \in polls /\ Stir(polls \ {p})
  /\ UNCHANGED <<server, cards, qr, poller, timer, gone, call, turns>>

-----------------------------------------------------------------------------
(* The user.  A call marks the card, which makes one if there is none.     *)
(* Bound: one call at a time.                                              *)
UserCalls(kind, s) ==
  /\ call = NoCall /\ Happening
  /\ call' = [NoCall EXCEPT !.kind = kind, !.id = s, !.at = "asked", !.qr = qr]
  /\ UNCHANGED <<server, gone>>

(* syncSession, of a card or of a name typed in (allowCreate).             *)
syncSession(s) ==
  /\ \/ s \in Carded /\ UserCalls("sync", s) /\ SetCards(cards)
     \/ UserCalls("create", s) /\ SetCards(With(s, IF s \in Carded THEN cards[s] ELSE "none"))
  /\ UNCHANGED <<qr, poller>>

(* showQr, requestPairing, reconnect and disconnect, as the card offers    *)
(* them.                                                                   *)
callOfCard(s) ==
  /\ s \in Carded
  /\ \E kind \in IF cards[s] = "connected" THEN {"disconnect"} ELSE {"showQr", "pairing", "reconnect"} :
       UserCalls(kind, s)
  /\ SetCards(cards) /\ UNCHANGED <<qr, poller>>

(* renewQr and resetAuth open the window before they ask.                  *)
renewQr(s) ==
  /\ s \in Carded
  /\ \E kind \in {"renewQr", "resetAuth"} : UserCalls(kind, s)
  /\ SetCards(With(s, "pending")) /\ qr' = s /\ UNCHANGED poller

deleteSession(s) ==
  /\ s \in Carded /\ UserCalls("delete", s)
  /\ SetCards(cards) /\ poller' = StopPolling(s) /\ UNCHANGED qr

(* setPhone, for each digit; a card is set, and the timer starts anew.     *)
setPhone(s) ==
  /\ s \in Carded /\ Happening /\ SetCards(cards)
  /\ UNCHANGED <<server, qr, poller, gone, call>>

(* clearQr, which the window calls by itself once its session is connected. *)
clearQr ==
  /\ qr \in Carded /\ cards[qr] = "connected" /\ qr' = NoSession
  /\ UNCHANGED <<server, cards, poller, timer, gone, polls, call, calm, turns>>

-----------------------------------------------------------------------------
(* The answers to the calls.                                               *)
CallAnswered(kinds) == call.at = "read" /\ call.kind \in kinds

(* syncSession again; the window is closed if it was its own when the user *)
(* clicked.                                                                *)
Synced ==
  /\ CallAnswered({"sync", "create", "resync"}) /\ Stir(polls)
  /\ SetCards(With(call.id, call.got))
  /\ poller' = IF call.got = "pending" \/ call.kind = "resync" THEN StartPolling(call.id) ELSE StopPolling(call.id)
  /\ qr' = IF call.got = "connected" /\ call.qr = call.id THEN NoSession ELSE qr
  /\ call' = NoCall
  /\ UNCHANGED <<server, gone, turns>>

QrShown ==
  /\ CallAnswered({"showQr"}) /\ Stir(polls) /\ SetCards(With(call.id, call.got))
  /\ qr' = call.id /\ poller' = StartPolling(call.id) /\ call' = NoCall
  /\ UNCHANGED <<server, gone, turns>>

PairingShown ==
  /\ CallAnswered({"pairing"}) /\ Stir(polls) /\ SetCards(With(call.id, "pairing_code")) /\ call' = NoCall
  /\ UNCHANGED <<server, qr, poller, gone, turns>>

(* reconnect, renewQr and resetAuth ask for the status and then poll.      *)
Restarted ==
  /\ CallAnswered({"reconnect", "renewQr", "resetAuth"}) /\ Stir(polls)
  /\ call' = [call EXCEPT !.kind = "resync", !.at = "asked"] /\ SetCards(cards)
  /\ UNCHANGED <<server, qr, poller, gone, turns>>

Disconnected ==
  /\ CallAnswered({"disconnect"}) /\ Stir(polls) /\ SetCards(With(call.id, "disconnected"))
  /\ poller' = StopPolling(call.id) /\ call' = NoCall
  /\ UNCHANGED <<server, qr, gone, turns>>

Deleted ==
  /\ CallAnswered({"delete"}) /\ Stir(polls) /\ SetCards(Without({call.id})) /\ gone' = gone \cup {call.id}
  /\ qr' = IF call.qr = call.id THEN NoSession ELSE qr
  /\ call' = [NoCall EXCEPT !.kind = "list", !.at = "asked"]
  /\ UNCHANGED <<server, poller, turns>>

(* loadExistingSessions: a card that is not in the list goes, for good:    *)
(* its session is never shown by a list nor polled again.                  *)
loadExistingSessions ==
  LET listed == DOMAIN call.list \ gone
      missing == Carded \ DOMAIN call.list IN
  /\ CallAnswered({"list"})
  /\ SetCards([i \in listed \cup (Carded \ missing) |-> IF i \in listed THEN call.list[i] ELSE cards[i]])
  /\ gone' = gone \cup missing
  /\ polls' = Aged(polls) \cup Poll(listed, "load") /\ PutOff(Sessions)
  /\ call' = NoCall
  /\ UNCHANGED <<server, qr, poller, turns>>

(* handleApiError: the card loses its mark, and a restart polls even if    *)
(* the status could not be had.                                            *)
handleApiError ==
  /\ call.at \in {"asked", "read"} /\ call' = NoCall /\ Stir(polls)
  /\ IF call.kind = "list" THEN UNCHANGED <<cards, timer>>
     ELSE SetCards(With(call.id, IF call.id \in Carded THEN cards[call.id] ELSE "none"))
  /\ poller' = IF call.kind = "resync" THEN StartPolling(call.id) ELSE poller
  /\ UNCHANGED <<server, qr, gone, turns>>

PageNext ==
  \/ ServeCall \/ Tick \/ clearQr
  \/ Synced \/ QrShown \/ PairingShown \/ Restarted \/ Disconnected \/ Deleted \/ loadExistingSessions \/ handleApiError
  \/ \E p \in polls : ServePoll(p) \/ pollStatus(p) \/ PollFails(p)
  \/ \E s \in Sessions :
       \/ ServerChanges(s) \/ syncSession(s) \/ callOfCard(s) \/ renewQr(s) \/ deleteSession(s) \/ setPhone(s)

PageSpec == PageInit /\ [][PageNext]_pageVars

-----------------------------------------------------------------------------
(* Types.                                                                  *)
SessionsTypeOK ==
  /\ server \in [Sessions -> Statuses] /\ Carded \subseteq Sessions
  /\ \A s \in Carded : cards[s] \in Statuses \cup {"none", "pairing_code"}
  /\ qr \in Sessions \cup {NoSession} /\ poller \in [Sessions -> 0..PollEvery]
  /\ timer \in 1..RefreshEvery /\ gone \subseteq Sessions /\ calm \in [Sessions -> 0..RefreshEvery]

(* The cards tell the truth: when for one period of the refresh nothing    *)
(* has put a card off, and no answer about it is under way, it shows the   *)
(* status of its session, whatever late answers, failures and calls came   *)
(* before and whatever call or poller is still there; but those the page   *)
(* took for deleted.  What puts a card off: a change of the server, a call *)
(* or its answer, an answer from before such, a poll that fails, and every *)
(* answer to the poller of another session.  So a poller keeps the promise *)
(* for its own card, and none is made for the others while it runs.        *)
CardsAreTrue ==
  \A s \in Carded \ gone :
    calm[s] = RefreshEvery /\ (\A p \in polls : p.id # s) => cards[s] = server[s]

=============================================================================
