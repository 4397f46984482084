----------------------------- MODULE Broadcast -----------------------------
(***************************************************************************)
(* One broadcast campaign from its creation (createCampaign of             *)
(* modules/broadcast/broadcast.service.js) to its end, under the worker of *)
(* modules/broadcast/broadcast.worker.js: a pump claims pending messages   *)
(* in a transaction (infra/db/broadcastRepository.js) and gives each claim *)
(* to an in-process JobQueue; a job sends the message and writes the       *)
(* outcome to its row.  A claim is a lease of two minutes: a row still     *)
(* `sending` after that is claimed again.  An action is one statement or   *)
(* transaction of the database, one call to WhatsApp, or one synchronous   *)
(* piece of the pump.  A job is named by its claim: message and attempt.   *)
(***************************************************************************)
EXTENDS Naturals, Sequences, FiniteSets

CONSTANTS
  Messages,      \* the recipients of the campaign
  MaxAttempts,   \* max_attempts of every message
  Batch,         \* claims of one pump at most
  Concurrency,   \* jobs in progress at most
  MaxQueue,      \* limit of the job queue
  Creator,       \* the request that creates the campaign
  Troubles,      \* which of "crash", "db", "unsure", "slow" may happen
  MaxClaims,     \* bound on the attempts of a message
  MaxTrouble     \* bound on the number of troubles

ASSUME BroadcastAssumption ==
  /\ IsFiniteSet(Messages)
  /\ MaxAttempts \in Nat \ {0}
  /\ Concurrency \in Nat \ {0}
  /\ Batch \in Nat \ {0}
  /\ MaxQueue \in Nat
  /\ MaxClaims \in Nat
  /\ Creator \notin Messages \X (1..MaxClaims)
  /\ Troubles \subseteq {"crash", "db", "unsure", "slow"}

Claims == Messages \X (1..MaxClaims)

VARIABLES
  row,        \* broadcast_messages: status, attempts, next_attempt_at <= NOW()
              \* (due), updated_at older than two minutes (old)
  campaign,   \* status of the broadcast_campaigns row
  open,       \* stop_at has not passed
  batch,      \* claims the pump has yet to enqueue
  looping,    \* the pump is inside its synchronous enqueue loop
  waiting, running, over,    \* the worker queue, see JobQueue
  step,       \* where each job and the creator are
  seen,       \* the counts each of them read for the campaign
  delivered,  \* how often WhatsApp has sent the message (the outside world)
  lapsed,     \* messages whose lease ran out at least once
  slow,       \* ... while a job still worked on them
  doubtful,   \* messages whose delivery the row never learnt
  trouble     \* troubles so far

queueVars   == <<waiting, running, over>>
worldVars   == <<delivered, lapsed, slow, doubtful, trouble>>
vars == <<row, campaign, open, batch, looping, queueVars, step, seen, worldVars>>

Queue == INSTANCE JobQueue WITH Jobs <- Claims

Final    == {"sent", "error"}
Statuses == {"none", "pending", "sending"} \cup Final

(* Steps of a job before it has written the outcome to its row, and after. *)
Working  == {"window", "expired", "runtime", "nolink", "send", "record", "fail"}
Steps    == Working \cup {"idle", "insert", "bump", "tally", "done"}

Rows   == [status : Statuses, attempts : 0..MaxClaims, due : BOOLEAN, old : BOOLEAN]
Counts == [total : Nat, sent : Nat, failed : Nat]

NoCounts == [total |-> 0, sent |-> 0, failed |-> 0]

Works(m) == {j \in Claims : j[1] = m /\ step[j] \in Working}

Init ==
  /\ row = [m \in Messages |-> [status |-> "none", attempts |-> 0, due |-> FALSE, old |-> FALSE]]
  /\ campaign = "pending"
  /\ open = TRUE
  /\ batch = {}
  /\ looping = FALSE
  /\ waiting = <<>> /\ running = {} /\ over = {}
  /\ step = [j \in Claims \cup {Creator} |-> IF j = Creator THEN "insert" ELSE "idle"]
  /\ seen = [j \in Claims \cup {Creator} |-> NoCounts]
  /\ delivered = [m \in Messages |-> 0]
  /\ lapsed = {} /\ slow = {} /\ doubtful = {} /\ trouble = 0

Happens(kind) == kind \in Troubles /\ trouble < MaxTrouble /\ trouble' = trouble + 1

Goto(j, s) == step' = [step EXCEPT ![j] = s]

-----------------------------------------------------------------------------
(* The creator inserts the messages in one transaction, due at start_at,   *)
(* and then counts them like a job does.                                   *)
Insert ==
  /\ step[Creator] = "insert"
  /\ row' = [m \in Messages |-> [status |-> "pending", attempts |-> 0, due |-> FALSE, old |-> FALSE]]
  /\ Goto(Creator, "bump")
  /\ UNCHANGED <<campaign, open, batch, looping, queueVars, seen, worldVars>>

-----------------------------------------------------------------------------
(* fetchPendingBroadcastBatch: which rows the pump may claim ...           *)
ClaimableAnySending(m) ==  \* mutant
  row[m].status = "sending" \/ (row[m].status = "pending" /\ row[m].due)

Claimable(m) ==
  \/ row[m].status = "pending" /\ row[m].due
  \/ row[m].status = "sending" /\ row[m].old

(* ... and the claim itself.  All rows have the created_at of their one    *)
(* transaction, so a LIMIT takes any of them.  `polling` keeps a second    *)
(* pump out until the claims of this one are enqueued.                     *)
Claim ==
  /\ batch = {} /\ ~looping
  /\ LET able == {m \in Messages : Claimable(m) /\ row[m].attempts < MaxClaims} IN
     /\ able # {}
     /\ \E S \in SUBSET able :
          /\ Cardinality(S) = Batch \/ (S = able /\ Cardinality(able) < Batch)
          /\ row' = [m \in Messages |->
                       IF m \in S THEN [status |-> "sending", attempts |-> row[m].attempts + 1,
                                        due |-> row[m].due, old |-> FALSE]
                       ELSE row[m]]
          /\ batch' = {<<m, row[m].attempts + 1>> : m \in S}
  /\ campaign' = "running"
  /\ UNCHANGED <<open, looping, queueVars, step, seen, worldVars>>

(* The pump enqueues its claims in one synchronous loop (looping excludes  *)
(* every other step of the process meanwhile).  A refused claim is only    *)
(* logged: its row stays `sending`.                                        *)
Enqueue(j) ==
  /\ j \in batch
  /\ Queue!Accept(j) \/ Queue!Refuse(j)
  /\ batch' = batch \ {j}
  /\ looping' = (batch # {j})
  /\ UNCHANGED <<row, campaign, open, step, seen, worldVars>>

-----------------------------------------------------------------------------
(* processMessage.                                                         *)
Begin ==
  /\ ~looping
  /\ Queue!Start
  /\ Goto(Head(waiting), "window")
  /\ UNCHANGED <<row, campaign, open, batch, looping, seen, worldVars>>

At(j, s) == j \in running /\ step[j] = s /\ ~looping

(* The window is checked once, before the delay and the send.              *)
CheckWindow(j) ==
  /\ At(j, "window")
  /\ Goto(j, IF open THEN "runtime" ELSE "expired")
  /\ UNCHANGED <<row, campaign, open, batch, looping, queueVars, seen, worldVars>>

(* lockAndUpdateCampaignRuntime: a connection for the message, or none,    *)
(* whichever are connected by now.                                         *)
pickConnection == {"send", "nolink"}

Runtime(j) ==
  /\ At(j, "runtime")
  /\ \E s \in pickConnection : Goto(j, s)
  /\ UNCHANGED <<row, campaign, open, batch, looping, queueVars, seen, worldVars>>

(* sendWhatsAppMessage answers or throws; a throw may follow a delivery.   *)
Send(j) ==
  /\ At(j, "send")
  /\ \/ /\ delivered' = [delivered EXCEPT ![j[1]] = @ + 1]
        /\ Goto(j, "record")
        /\ UNCHANGED <<lapsed, slow, doubtful, trouble>>
     \/ /\ Goto(j, "fail")
        /\ UNCHANGED worldVars
     \/ /\ Happens("unsure")
        /\ delivered' = [delivered EXCEPT ![j[1]] = @ + 1]
        /\ doubtful' = doubtful \cup {j[1]}
        /\ Goto(j, "fail")
        /\ UNCHANGED <<lapsed, slow>>
  /\ UNCHANGED <<row, campaign, open, batch, looping, queueVars, seen>>

sentRowNotes(r) == [r EXCEPT !.old = FALSE]  \* mutant

(* updateMessageSent and updateMessageError write the row whatever it      *)
(* holds.                                                                  *)
sentRow(r) == [r EXCEPT !.status = "sent", !.old = FALSE]

IsFinal(n) == n >= MaxAttempts

errorRowKeepsTrying(r, final) ==  \* mutant
  [r EXCEPT !.status = "pending", !.due = FALSE, !.old = FALSE]

errorRow(r, final) ==
  [r EXCEPT !.status = IF final THEN "error" ELSE "pending",
            !.due = r.due /\ final,
            !.old = FALSE]

Write(j, r) == row' = [row EXCEPT ![j[1]] = r]

Record(j) ==
  /\ At(j, "record")
  /\ Write(j, sentRow(row[j[1]]))
  /\ Goto(j, "bump")
  /\ UNCHANGED <<campaign, open, batch, looping, queueVars, seen, worldVars>>

WriteError(j) ==
  /\ \/ At(j, "expired") /\ Write(j, errorRow(row[j[1]], TRUE))
     \/ (At(j, "nolink") \/ At(j, "fail")) /\ Write(j, errorRow(row[j[1]], IsFinal(j[2])))
  /\ Goto(j, "bump")
  /\ UNCHANGED <<campaign, open, batch, looping, queueVars, seen, worldVars>>

-----------------------------------------------------------------------------
(* bumpCampaignCounters: the counts are read in one statement and written, *)
(* with the status they imply, in another.                                 *)
WithStatus(s) == Cardinality({m \in Messages : row[m].status \in s})

CountBatch == [total |-> WithStatus(Final),   \* mutant
               sent |-> WithStatus({"sent"}), failed |-> WithStatus({"error"})]

Count == [total |-> WithStatus(Statuses \ {"none"}),
          sent |-> WithStatus({"sent"}), failed |-> WithStatus({"error"})]

Verdict(c) == IF c.total # c.sent + c.failed THEN "running"
              ELSE IF c.failed > 0 THEN "error" ELSE "completed"

Bumping(b, s) == IF b = Creator THEN step[b] = s /\ ~looping ELSE At(b, s)

ReadCounts(b) ==
  /\ Bumping(b, "bump")
  /\ seen' = [seen EXCEPT ![b] = Count]
  /\ Goto(b, "tally")
  /\ UNCHANGED <<row, campaign, open, batch, looping, queueVars, worldVars>>

Leaves(b) == IF b = Creator THEN UNCHANGED queueVars ELSE Queue!Finish(b)

WriteVerdict(b) ==
  /\ Bumping(b, "tally")
  /\ campaign' = Verdict(seen[b])
  /\ Goto(b, "done")
  /\ Leaves(b)
  /\ seen' = [seen EXCEPT ![b] = NoCounts]
  /\ UNCHANGED <<row, open, batch, looping, worldVars>>

-----------------------------------------------------------------------------
(* A statement of the database fails.  Inside the try of processMessage    *)
(* that is an attempt that failed, even when WhatsApp has the message; the *)
(* failure of the error's own update, in the catch, leaves the row; any    *)
(* other failure ends the job, its row still `sending`, or the request.    *)
DbFails(b) ==
  /\ Happens("db")
  /\ \/ /\ Bumping(b, "record")
        /\ Goto(b, "fail")
        /\ doubtful' = doubtful \cup {b[1]}
        /\ UNCHANGED <<queueVars, seen>>
     \/ /\ Bumping(b, "fail")
        /\ Goto(b, "bump")
        /\ UNCHANGED <<queueVars, seen, doubtful>>
     \/ /\ \E s \in {"insert", "expired", "runtime", "nolink", "bump", "tally"} : Bumping(b, s)
        /\ Goto(b, "done")
        /\ Leaves(b)
        /\ seen' = [seen EXCEPT ![b] = NoCounts]
        /\ UNCHANGED doubtful
  /\ UNCHANGED <<row, campaign, open, batch, looping, delivered, lapsed, slow>>

(* The process dies and starts again: the queue, the jobs and the creating *)
(* request are gone, the database stays.                                   *)
Crash ==
  /\ Happens("crash")
  /\ doubtful' = doubtful \cup {m \in Messages : \E j \in Works(m) : step[j] = "record"}
  /\ step' = [j \in DOMAIN step |-> IF step[j] = "idle" THEN "idle" ELSE "done"]
  /\ over' = over \cup running \cup {waiting[i] : i \in 1..Len(waiting)} \cup batch
  /\ running' = {} /\ waiting' = <<>>
  /\ batch' = {} /\ looping' = FALSE
  /\ seen' = [b \in DOMAIN seen |-> NoCounts]
  /\ UNCHANGED <<row, campaign, open, delivered, lapsed, slow>>

-----------------------------------------------------------------------------
(* Time: a retry falls due, a lease runs out, the window closes.           *)
FallsDue(m) ==
  /\ row[m].status = "pending" /\ ~row[m].due
  /\ row' = [row EXCEPT ![m].due = TRUE]
  /\ UNCHANGED <<campaign, open, batch, looping, queueVars, step, seen, worldVars>>

(* A job is at work on m, waits in the queue or is about to.               *)
InHand(m) ==
  \/ Works(m) # {}
  \/ \E n \in 1..MaxClaims : <<m, n>> \in batch
  \/ \E i \in 1..Len(waiting) : waiting[i][1] = m

LeaseRunsOut(m) ==
  /\ row[m].status = "sending" /\ ~row[m].old
  /\ row' = [row EXCEPT ![m].old = TRUE]
  /\ lapsed' = lapsed \cup {m}
  /\ \/ InHand(m) /\ Happens("slow") /\ slow' = slow \cup {m}
     \/ ~InHand(m) /\ UNCHANGED <<slow, trouble>>
  /\ UNCHANGED <<campaign, open, batch, looping, queueVars, step, seen, delivered, doubtful>>

WindowCloses ==
  /\ open /\ open' = FALSE
  /\ UNCHANGED <<row, campaign, batch, looping, queueVars, step, seen, worldVars>>

-----------------------------------------------------------------------------
JobStep(j) ==
  CheckWindow(j) \/ Runtime(j) \/ Send(j) \/ Record(j) \/ WriteError(j)

Next ==
  \/ Insert \/ Claim \/ Begin \/ Crash \/ WindowCloses
  \/ \E j \in Claims : Enqueue(j) \/ JobStep(j)
  \/ \E b \in Claims \cup {Creator} : ReadCounts(b) \/ WriteVerdict(b) \/ DbFails(b)
  \/ \E m \in Messages : FallsDue(m) \/ LeaseRunsOut(m)

Spec == Init /\ [][Next]_vars

(* The poller ticks every second, the process runs what it has started,    *)
(* calls answer and time passes; nothing obliges a trouble to happen or    *)
(* the window to close.                                                    *)
FairSpec ==
  /\ Spec
  /\ WF_vars(Insert) /\ WF_vars(Claim) /\ WF_vars(Begin)
  /\ \A j \in Claims : WF_vars(Enqueue(j)) /\ WF_vars(JobStep(j))
  /\ \A b \in Claims \cup {Creator} : WF_vars(ReadCounts(b)) /\ WF_vars(WriteVerdict(b))
  /\ \A m \in Messages : WF_vars(FallsDue(m)) /\ WF_vars(~InHand(m) /\ LeaseRunsOut(m))

-----------------------------------------------------------------------------
(* Type invariant.                                                         *)
TypeOK ==
  /\ row \in [Messages -> Rows]
  /\ campaign \in {"pending", "running", "completed", "error"}
  /\ open \in BOOLEAN /\ looping \in BOOLEAN
  /\ batch \subseteq Claims
  /\ Queue!JobsTypeOK
  /\ step \in [Claims \cup {Creator} -> Steps]
  /\ seen \in [Claims \cup {Creator} -> Counts]
  /\ delivered \in [Messages -> Nat]
  /\ lapsed \subseteq Messages /\ slow \subseteq lapsed /\ doubtful \subseteq Messages
  /\ trouble \in Nat

(* One job at a time works on a message, the one of its latest claim,      *)
(* unless its lease ran out under a job; and while it works the row says   *)
(* `sending`.                                                              *)
OneWorker ==
  \A m \in Messages \ slow : \A j \in Works(m) :
    Works(m) = {j} /\ row[m].attempts = j[2] /\ row[m].status = "sending"

(* Nobody gets the campaign's message twice, unless a lease ran out under  *)
(* a job or the row never learnt of a delivery.                            *)
DeliveredOnce ==
  \A m \in Messages \ (slow \cup doubtful) : delivered[m] <= 1

(* A retry counter that means it: without a lapsed lease a message is      *)
(* claimed at most max_attempts times, and it fails for good only after    *)
(* them or once the window has closed.                                     *)
RetriesSpent ==
  \A m \in Messages :
    /\ m \notin lapsed => row[m].attempts <= MaxAttempts
    /\ row[m].status = "error" => row[m].attempts >= MaxAttempts \/ ~open

(* The campaign's verdict is never early: it says completed only when all  *)
(* its messages have been delivered, error only when all have an outcome   *)
(* and one has failed (messages with two jobs at once apart).              *)
VerdictIsTrue ==
  /\ campaign = "completed" => \A m \in Messages \ slow : row[m].status = "sent" /\ delivered[m] > 0
  /\ campaign = "error" /\ slow = {} =>
       /\ \A m \in Messages : row[m].status \in Final
       /\ \E m \in Messages : row[m].status = "error"

(* An outcome is final: the row of a message that was sent or has failed   *)
(* for good is not written again, unless two jobs had it.                  *)
OutcomeIsFinal ==
  [][\A m \in Messages \ slow : row[m].status \in Final => row'[m] = row[m]]_vars

(* Every message of an inserted campaign ends, sent or failed for good.    *)
MessagesEnd ==
  \A m \in Messages : row[m].status = "pending" ~> [](row[m].status \in Final)

=============================================================================
