----------------------------- MODULE QueueDesk -----------------------------
(***************************************************************************)
(* The page of queues (frontend/src/pages/Queues.jsx) with its form and    *)
(* the dialog that lists who is in a queue, and the server behind them     *)
(* (services/queueService.js, queueMembershipService.js).                  *)
(*                                                                         *)
(* There are two such dialogs, of users and of WhatsApp connections, and   *)
(* they are the same program (QueueUsersModal.jsx, QueueWhatsAppsModal.jsx *)
(* in components/queues): the members here are those of either.  A dialog  *)
(* keeps its list when it closes, does not cancel what it asked, and asks  *)
(* again whenever the page renders, since the page hands it a new onError  *)
(* each time.                                                              *)
(***************************************************************************)
EXTENDS Integers

CONSTANTS
  QueueIds, Names,
  Listable,      \* whom a dialog may list: the users, or the connections
  MaxSaves,      \* bound: saves and deletions
  MaxCallsMade,  \* bound: calls of the dialog
  MaxFailures,   \* bound: calls that fail, renders of the page for other reasons
  NoId, NoAnswer, Failed

ASSUME QueuesAssumption ==
  /\ Names # {} /\ {MaxSaves, MaxCallsMade, MaxFailures} \subseteq Nat
  /\ NoId \notin QueueIds

VARIABLES
  queues,     \* queues: a row, or NoId
  inQueue,    \* queue_users, or queue_whatsapp_connections
  offered,    \* the queues that the page lists
  queueForm,  \* its form is open
  editing,    \* the queue that the form saves to; NoId: a new one
  write,      \* the save or the deletion under way, or NoId
  dialog,     \* the dialog: open, and the queue that it is about
  list,       \* its list of members, and the queue that they are of
  loading,    \* its buttons are disabled
  pending,    \* calls of the dialog that it has no answer to
  crossed,    \* history: the page rendered while one of them was under way
  callsMade, saves, failures

tables     == <<queues, inQueue>>
queuePage  == <<offered, queueForm, editing, write>>
lister     == <<dialog, list, loading, pending, crossed, callsMade>>
queuesVars == <<tables, queuePage, lister, saves, failures>>

Live == {q \in QueueIds : queues[q] # NoId /\ ~queues[q].deleted}

QueuesInit ==
  /\ \E old \in SUBSET QueueIds, name \in Names :
       queues = [q \in QueueIds |-> IF q \in old THEN [name |-> name, active |-> TRUE, deleted |-> FALSE]
                                ELSE NoId]
  /\ inQueue \in {f \in [QueueIds -> SUBSET Listable] : \A q \in QueueIds \ Live : f[q] = {}}
  /\ offered = Live /\ queueForm = FALSE
  /\ editing = NoId /\ write = NoId
  /\ dialog = [open |-> FALSE, queue |-> NoId]
  /\ list = [of |-> NoId, who |-> {}] /\ loading = FALSE
  /\ pending = {} /\ crossed = FALSE
  /\ callsMade = 0 /\ saves = 0 /\ failures = 0

Failure == failures < MaxFailures /\ failures' = failures + 1

-----------------------------------------------------------------------------
(* The dialog calls.  rest: the calls that stay under way beside this one; *)
(* alone: there are none, and this one is about the queue of the dialog.   *)
AskServer(what, q, who, rest) ==
  /\ callsMade < MaxCallsMade /\ callsMade' = callsMade + 1
  /\ pending' = rest \cup {[n |-> callsMade, what |-> what, queue |-> q, who |-> who, answer |-> NoAnswer]}
  /\ loading' = TRUE

LoadMembers(q, rest, alone) ==
  /\ AskServer("load", q, {}, rest)
  /\ crossed' = (~alone /\ (crossed \/ dialog.open))

(* The page renders: an open dialog loads its list again.                  *)
Renders(rest) ==
  IF dialog.open
  THEN LoadMembers(dialog.queue, rest, rest = {}) /\ UNCHANGED <<dialog, list>>
  ELSE pending' = rest /\ loading' = FALSE /\ UNCHANGED <<dialog, list, crossed, callsMade>>

(* ... with nothing of the dialog settled: the notice goes.                *)
PageRenders ==
  /\ dialog.open /\ Failure /\ Renders(pending)
  /\ UNCHANGED <<tables, queuePage, saves>>

OpenDialog(q) ==
  /\ ~dialog.open /\ ~queueForm
  /\ dialog' = [open |-> TRUE, queue |-> q]
  /\ LoadMembers(q, pending, pending = {})
  /\ UNCHANGED <<tables, queuePage, list, saves, failures>>

CloseDialog ==
  /\ dialog.open /\ ~loading
  /\ dialog' = [open |-> FALSE, queue |-> NoId]
  /\ UNCHANGED <<tables, queuePage, list, loading, pending, crossed, callsMade, saves, failures>>

HandleAdd(u) ==
  /\ dialog.open /\ ~loading
  /\ AskServer("add", dialog.queue, {u}, pending)
  /\ UNCHANGED <<tables, queuePage, dialog, list, crossed, saves, failures>>

HandleRemove(u) ==
  /\ dialog.open /\ ~loading /\ u \in list.who
  /\ AskServer("remove", dialog.queue, {u}, pending)
  /\ UNCHANGED <<tables, queuePage, dialog, list, crossed, saves, failures>>

GetsAnswer(c, answer) == pending' = (pending \ {c}) \cup {[c EXCEPT !.answer = answer]}

(* The server reads the queue, and refuses one that is deleted.            *)
ServeDialog(c) ==
  /\ c.answer = NoAnswer
  /\ GetsAnswer(c, IF c.queue \in Live THEN inQueue[c.queue] ELSE Failed)
  /\ inQueue' = IF c.queue \notin Live THEN inQueue
                ELSE [inQueue EXCEPT ![c.queue] = CASE c.what = "add" -> @ \cup c.who
                                                    [] c.what = "remove" -> @ \ c.who
                                                    [] OTHER -> @]
  /\ UNCHANGED <<queues, queuePage, dialog, list, loading, crossed, callsMade, saves, failures>>

(* The connection fails before the call is served, or after.               *)
CallFails(c) ==
  /\ c.answer # Failed /\ Failure /\ GetsAnswer(c, Failed)
  /\ UNCHANGED <<tables, queuePage, dialog, list, loading, crossed, callsMade, saves>>

ShowMembers(c) ==
  /\ c.what = "load" /\ c.answer \notin {NoAnswer, Failed}
  /\ list' = [of |-> c.queue, who |-> c.answer]
  /\ loading' = FALSE /\ pending' = pending \ {c}
  /\ UNCHANGED <<tables, queuePage, dialog, crossed, callsMade, saves, failures>>

(* After a change the dialog loads the list of the queue it changed.       *)
ShowChange(c) ==
  /\ c.what # "load" /\ c.answer \notin {NoAnswer, Failed}
  /\ LoadMembers(c.queue, pending \ {c}, pending = {c} /\ c.queue = dialog.queue)
  /\ UNCHANGED <<tables, queuePage, dialog, list, saves, failures>>

(* Mutant: the page hands the dialog the same onError each time.           *)
KeepsOnError(c) ==
  /\ c.answer = Failed /\ pending' = pending \ {c} /\ loading' = FALSE
  /\ UNCHANGED <<tables, queuePage, dialog, list, crossed, callsMade, saves, failures>>

(* The page shows the error, and so renders.                               *)
ShowFailure(c) ==
  /\ c.answer = Failed /\ Renders(pending \ {c})
  /\ UNCHANGED <<tables, queuePage, saves, failures>>

-----------------------------------------------------------------------------
(* The page.  Closing the form does not forget which queue was edited: a   *)
(* new queue asked for next is a change of that one.                       *)
OpenForm(q) ==
  /\ ~queueForm /\ ~dialog.open
  /\ queueForm' = TRUE /\ editing' = q
  /\ UNCHANGED <<tables, offered, write, lister, saves, failures>>

NewQueue == OpenForm(editing)

Edit(q) == OpenForm(q)

CloseForm ==
  /\ queueForm /\ write = NoId /\ queueForm' = FALSE
  /\ UNCHANGED <<tables, offered, editing, write, lister, saves, failures>>

(* One write of the page at a time; only a deletion may in fact be asked   *)
(* while another is under way.                                             *)
Ask(what, q, fields) ==
  /\ write = NoId /\ saves < MaxSaves /\ saves' = saves + 1
  /\ write' = [what |-> what, id |-> q, fields |-> fields, pc |-> "asked"]
  /\ UNCHANGED <<tables, offered, queueForm, editing, lister, failures>>

SubmitQueue(name, active) ==
  /\ queueForm
  /\ Ask(IF editing = NoId THEN "create" ELSE "update", editing, [name |-> name, active |-> active])

DeleteQueue(q) ==
  ~queueForm /\ ~dialog.open /\ Ask("delete", q, [name |-> NoId, active |-> FALSE])

(* A queue is created in two steps: whether its name is taken, the row.    *)
CheckName ==
  /\ write # NoId /\ write.what = "create" /\ write.pc = "asked"
  /\ write' = [write EXCEPT !.pc = IF \E q \in Live : queues[q].name = write.fields.name
                                   THEN "refused" ELSE "free"]
  /\ UNCHANGED <<tables, offered, queueForm, editing, lister, saves, failures>>

createQueue ==
  /\ write # NoId /\ write.pc = "free"
  /\ \E q \in QueueIds :
       /\ queues[q] = NoId
       /\ queues' = [queues EXCEPT ![q] = [name |-> write.fields.name, active |-> TRUE, deleted |-> FALSE]]
  /\ write' = [write EXCEPT !.pc = "done"]
  /\ UNCHANGED <<inQueue, offered, queueForm, editing, lister, saves, failures>>

ChangeQueue ==
  /\ write # NoId /\ write.what \in {"update", "delete"} /\ write.pc = "asked"
  /\ queues' = IF write.id \notin Live THEN queues
             ELSE [queues EXCEPT ![write.id] =
                    IF write.what = "update"
                    THEN [name |-> write.fields.name, active |-> write.fields.active, deleted |-> FALSE]
                    ELSE [@ EXCEPT !.active = FALSE, !.deleted = TRUE]]
  /\ write' = [write EXCEPT !.pc = IF write.id \in Live THEN "done" ELSE "refused"]
  /\ UNCHANGED <<inQueue, offered, queueForm, editing, lister, saves, failures>>

(* The answer shows itself, and a change the queues as they are now: the   *)
(* page renders.                                                           *)
WriteAnswered ==
  /\ write # NoId /\ write.pc \in {"done", "refused"} /\ write' = NoId
  /\ IF write.pc = "refused" THEN UNCHANGED <<offered, queueForm, editing>>
     ELSE /\ offered' = Live
          /\ IF write.what = "delete" THEN UNCHANGED <<queueForm, editing>>
             ELSE queueForm' = FALSE /\ editing' = NoId
  /\ Renders(pending)
  /\ UNCHANGED <<tables, saves, failures>>

(* Another supervisor deletes a queue.                                     *)
softDeleteQueue(q) ==
  /\ q \in Live /\ saves < MaxSaves /\ saves' = saves + 1
  /\ queues' = [queues EXCEPT ![q].active = FALSE, ![q].deleted = TRUE]
  /\ UNCHANGED <<inQueue, queuePage, lister, failures>>

QueuesNext ==
  \/ \E q \in offered : OpenDialog(q) \/ Edit(q) \/ DeleteQueue(q)
  \/ \E u \in Listable : HandleAdd(u) \/ HandleRemove(u)
  \/ \E c \in pending : ServeDialog(c) \/ CallFails(c) \/ ShowMembers(c) \/ ShowChange(c) \/ ShowFailure(c)
  \/ CloseDialog \/ PageRenders \/ NewQueue \/ CloseForm
  \/ \E name \in Names, active \in BOOLEAN : SubmitQueue(name, active)
  \/ CheckName \/ createQueue \/ ChangeQueue \/ WriteAnswered
  \/ \E q \in QueueIds : softDeleteQueue(q)

QueuesSpec == QueuesInit /\ [][QueuesNext]_queuesVars

-----------------------------------------------------------------------------
(* Nobody is taken out of a queue, or left out of it, by a list that is    *)
(* another queue's: whenever the buttons of an open dialog can be clicked, *)
(* the members listed are those that the server gave for this very queue,  *)
(* although the list of the queue before stays in the dialog and calls     *)
(* fail.  Where the page rendered during a call the code does not keep     *)
(* this: two lists are then under way, the first to come enables the       *)
(* buttons, and the other may arrive under the next queue.                 *)
ListedIsOfTheQueue ==
  dialog.open /\ ~loading /\ ~crossed => list.of = dialog.queue

=============================================================================
