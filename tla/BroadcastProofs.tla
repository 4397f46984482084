-------------------------- MODULE BroadcastProofs --------------------------
(***************************************************************************)
(* Theorems about the senders.  Broadcast, for every finite set of         *)
(* messages, every limit and every number of troubles: a message has one   *)
(* worker, one delivery, one outcome, and the campaign a true verdict.     *)
(* Warmup, for any lines, calls and processes: the daily limit is kept.    *)
(* CampaignForm, for any templates, files, edits and orders: a campaign is *)
(* what its form showed.                                                   *)
(***************************************************************************)
EXTENDS Broadcast, Warmup, CampaignForm, FiniteSetTheorems, TLAPS

Agents == Claims \cup {Creator}  \* who has a step: the jobs and the creator

(* A claim is of a message, and counts from one.                           *)
LEMMA ClaimIsPair ==
  ASSUME NEW j \in Claims
  PROVE  /\ j[1] \in Messages /\ j[2] \in 1..MaxClaims /\ j[2] \in Nat \ {0}
         /\ j = <<j[1], j[2]>> /\ j # Creator
BY BroadcastAssumption DEF Claims

-----------------------------------------------------------------------------
(* The invariant.                                                          *)
Line(s) == {s[i] : i \in 1..Len(s)}

Distinct(s) == \A i, k \in 1..Len(s) : s[i] = s[k] => i = k

(* A claim is at one place at a time.                                      *)
Places ==
  /\ Distinct(waiting)
  /\ batch \cap (Line(waiting) \cup running \cup over) = {}
  /\ Line(waiting) \cap (running \cup over) = {}
  /\ running \cap over = {}

(* Jobs in progress are those with a step.                                 *)
StepsAgree ==
  /\ \A j \in Claims : /\ j \in running <=> step[j] \notin {"idle", "done"}
                       /\ step[j] = "done" => j \in over
                       /\ step[j] # "insert"
  /\ step[Creator] \in {"insert", "bump", "tally", "done"}

Taken == batch \cup Line(waiting) \cup running \cup over

(* The next claim of a message is one that nobody has had.                 *)
Claimed == \A j \in Taken : j[2] <= row[j[1]].attempts

(* All messages are inserted at once, before any is claimed.               *)
Inserted ==
  /\ \A m \in Messages : row[m].status = "none" =>
       row[m].attempts = 0 /\ step[Creator] \in {"insert", "done"}
  /\ (\E m \in Messages : row[m].status = "none") => \A m \in Messages : row[m].status = "none"
  /\ step[Creator] = "insert" => \A m \in Messages : row[m].status = "none"

(* Where the claims are, and what has been inserted.                       *)
Structure == Places /\ StepsAgree /\ Claimed /\ Inserted

(* A claim is in play until its job has written the outcome.               *)
InPlay(j) == j \in batch \/ j \in Line(waiting) \/ step[j] \in Working

(* What is in play is the latest claim of its message, under a lease that  *)
(* runs, unless it ran out under a job.                                    *)
LatestInPlay ==
  \A j \in Claims : InPlay(j) /\ j[1] \notin slow =>
    row[j[1]].status = "sending" /\ row[j[1]].attempts = j[2] /\ ~row[j[1]].old

Lapsing == \A m \in Messages : row[m].old => m \in lapsed

(* Who has had the message once either has its row say so, or a job that   *)
(* is about to.                                                            *)
Recording(m) == \E j \in Claims : j[1] = m /\ step[j] = "record"

Deliveries ==
  /\ \A m \in Messages : row[m].status = "sent" => delivered[m] > 0
  /\ \A j \in Claims : step[j] = "record" => delivered[j[1]] > 0
  /\ \A m \in Messages \ (slow \cup doubtful) :
       /\ delivered[m] <= 1
       /\ delivered[m] = 1 => row[m].status = "sent" \/ Recording(m)

(* A verdict is true when the counts are read and as long as it is kept.   *)
AllSent == \A m \in Messages \ slow : row[m].status = "sent"

AllEnded == slow = {} =>
  /\ \A m \in Messages : row[m].status \in Final
  /\ \E m \in Messages : row[m].status = "error"

Judged(v) == (v = "completed" => AllSent) /\ (v = "error" => AllEnded)

Verdicts ==
  /\ Judged(campaign)
  /\ \A b \in Agents : step[b] = "tally" => Judged(Verdict(seen[b]))

(* What may be claimed again has attempts left, unless its lease ran out.  *)
AttemptsCounted ==
  /\ \A m \in Messages : row[m].status = "pending" /\ m \notin lapsed => row[m].attempts < MaxAttempts
  /\ \A j \in Claims : step[j] = "expired" => ~open

Inv ==
  /\ TypeOK /\ Structure /\ LatestInPlay /\ Lapsing
  /\ Deliveries /\ Verdicts /\ AttemptsCounted /\ RetriesSpent

-----------------------------------------------------------------------------
(* The queue as a set of claims in line, each once.                        *)
LEMMA LineAppended ==
  ASSUME NEW s \in Seq(Claims), NEW j \in Claims
  PROVE  /\ Line(Append(s, j)) = Line(s) \cup {j}
         /\ Distinct(s) /\ j \notin Line(s) => Distinct(Append(s, j))
<1>1. /\ Len(Append(s, j)) = Len(s) + 1 /\ Len(s) \in Nat
      /\ \A i \in 1..Len(s) : Append(s, j)[i] = s[i]
      /\ Append(s, j)[Len(s) + 1] = j
  OBVIOUS
<1>2. Line(Append(s, j)) = Line(s) \cup {j}
  <2>1. ASSUME NEW x \in Line(Append(s, j)) PROVE x \in Line(s) \cup {j}
    <3>1. PICK i \in 1..Len(s) + 1 : x = Append(s, j)[i]
      BY <1>1 DEF Line
    <3>2. CASE i = Len(s) + 1
      BY <3>1, <3>2, <1>1
    <3>3. CASE i # Len(s) + 1
      <4>1. i \in 1..Len(s)
        BY <3>3, <1>1
      <4> QED BY <3>1, <4>1, <1>1 DEF Line
    <3> QED BY <3>2, <3>3
  <2>2. ASSUME NEW x \in Line(s) \cup {j} PROVE x \in Line(Append(s, j))
    BY <1>1, <2>2 DEF Line
  <2> QED BY <2>1, <2>2
<1>3. ASSUME Distinct(s), j \notin Line(s) PROVE Distinct(Append(s, j))
  <2> SUFFICES ASSUME NEW i \in 1..Len(s) + 1, NEW k \in 1..Len(s) + 1,
                      Append(s, j)[i] = Append(s, j)[k]
               PROVE  i = k
    BY <1>1 DEF Distinct
  <2> QED BY <1>1, <1>3 DEF Line, Distinct
<1> QED BY <1>2, <1>3

LEMMA LineShifted ==
  ASSUME NEW s \in Seq(Claims), s # <<>>
  PROVE  /\ Head(s) \in Line(s) /\ Head(s) \in Claims
         /\ Tail(s) \in Seq(Claims)
         /\ Distinct(s) => Line(Tail(s)) = Line(s) \ {Head(s)} /\ Distinct(Tail(s))
<1>1. /\ Len(s) \in Nat \ {0} /\ Head(s) = s[1] /\ Head(s) \in Claims
      /\ Tail(s) \in Seq(Claims) /\ Len(Tail(s)) = Len(s) - 1
      /\ \A i \in 1..Len(Tail(s)) : Tail(s)[i] = s[i + 1] /\ i + 1 \in 1..Len(s)
  OBVIOUS
<1>2. Head(s) \in Line(s)
  BY <1>1 DEF Line
<1>3. ASSUME Distinct(s) PROVE Line(Tail(s)) = Line(s) \ {Head(s)}
  <2>1. ASSUME NEW x \in Line(Tail(s)) PROVE x \in Line(s) \ {Head(s)}
    <3>1. PICK i \in 1..Len(Tail(s)) : x = s[i + 1] /\ i + 1 \in 1..Len(s)
      BY <1>1 DEF Line
    <3>2. x # s[1]
      BY <3>1, <1>1, <1>3 DEF Distinct
    <3> QED BY <3>1, <3>2, <1>1 DEF Line
  <2>2. ASSUME NEW x \in Line(s) \ {Head(s)} PROVE x \in Line(Tail(s))
    <3>1. PICK i \in 1..Len(s) : x = s[i]
      BY DEF Line
    <3>2. i # 1
      BY <3>1, <2>2, <1>1
    <3>3. i - 1 \in 1..Len(Tail(s)) /\ (i - 1) + 1 = i
      BY <3>2, <1>1
    <3> QED BY <3>1, <3>3, <1>1 DEF Line
  <2> QED BY <2>1, <2>2
<1>4. ASSUME Distinct(s) PROVE Distinct(Tail(s))
  <2> SUFFICES ASSUME NEW i \in 1..Len(Tail(s)), NEW k \in 1..Len(Tail(s)),
                      Tail(s)[i] = Tail(s)[k]
               PROVE  i = k
    BY DEF Distinct
  <2>1. s[i + 1] = s[k + 1] /\ i + 1 \in 1..Len(s) /\ k + 1 \in 1..Len(s)
    BY <1>1
  <2>2. i + 1 = k + 1
    BY <2>1, <1>4 DEF Distinct
  <2> QED BY <2>2
<1> QED BY <1>1, <1>2, <1>3, <1>4

-----------------------------------------------------------------------------
(* Types.                                                                  *)
LEMMA CountsAreNumbers ==
  ASSUME NEW S
  PROVE  /\ WithStatus(S) \in Nat
         /\ IsFiniteSet({m \in Messages : row[m].status \in S})
<1>1. IsFiniteSet({m \in Messages : row[m].status \in S})
  BY BroadcastAssumption, FS_Subset
<1> QED BY <1>1, FS_CardinalityType DEF WithStatus

LEMMA OutcomesAreRows ==
  ASSUME NEW r \in Rows
  PROVE  /\ sentRow(r) \in Rows
         /\ errorRow(r, TRUE) \in Rows /\ errorRow(r, FALSE) \in Rows
         /\ \A f \in BOOLEAN : errorRow(r, f) \in Rows
<1>1. sentRow(r) \in Rows
  BY DEF sentRow, Rows, Statuses, Final
<1>2. errorRow(r, TRUE) = [r EXCEPT !.status = "error", !.due = r.due, !.old = FALSE]
  BY DEF errorRow, Rows
<1>3. errorRow(r, FALSE) = [r EXCEPT !.status = "pending", !.due = FALSE, !.old = FALSE]
  BY DEF errorRow, Rows
<1>4. errorRow(r, TRUE) \in Rows /\ errorRow(r, FALSE) \in Rows
  BY <1>2, <1>3 DEF Rows, Statuses, Final
<1> QED BY <1>1, <1>4

LEMMA TypesStay == TypeOK /\ StepsAgree /\ [Next]_vars => TypeOK'
<1> SUFFICES ASSUME TypeOK, StepsAgree, [Next]_vars PROVE TypeOK'
  OBVIOUS
<1> USE DEF TypeOK, Queue!JobsTypeOK, queueVars, worldVars
<1>0. /\ row \in [Messages -> Rows] /\ step \in [Agents -> Steps] /\ seen \in [Agents -> Counts]
      /\ \A m \in Messages : row[m] \in Rows
      /\ Creator \in Agents /\ Claims \subseteq Agents
      /\ NoCounts \in Counts /\ 0 \in 0..MaxClaims
  BY BroadcastAssumption DEF Agents, NoCounts, Counts
<1>1. CASE Insert
  BY <1>0, <1>1 DEF Insert, Goto, Rows, Statuses, Final, Steps, Agents
<1>2. CASE Claim
  <2>1. PICK S \in SUBSET {m \in Messages : Claimable(m) /\ row[m].attempts < MaxClaims} :
          /\ row' = [m \in Messages |->
                       IF m \in S THEN [status |-> "sending", attempts |-> row[m].attempts + 1,
                                        due |-> row[m].due, old |-> FALSE]
                       ELSE row[m]]
          /\ batch' = {<<m, row[m].attempts + 1>> : m \in S}
    BY <1>2 DEF Claim
  <2>2. \A m \in S : row[m].attempts + 1 \in 1..MaxClaims /\ row[m].attempts + 1 \in 0..MaxClaims
                     /\ row[m].due \in BOOLEAN
    BY <1>0, BroadcastAssumption DEF Rows
  <2>3. row' \in [Messages -> Rows]
    BY <2>1, <2>2, <1>0 DEF Rows, Statuses
  <2>4. batch' \subseteq Claims
    BY <2>1, <2>2 DEF Claims
  <2> QED BY <2>3, <2>4, <1>2 DEF Claim
<1>3. ASSUME NEW j \in Claims, Enqueue(j) PROVE TypeOK'
  <2>1. CASE Queue!Accept(j)
    <3>1. Append(waiting, j) \in Seq(Claims)
      OBVIOUS
    <3> QED BY <2>1, <3>1, <1>3 DEF Enqueue, Queue!Accept
  <2>2. CASE Queue!Refuse(j)
    BY <2>2, <1>3 DEF Enqueue, Queue!Refuse
  <2> QED BY <2>1, <2>2, <1>3 DEF Enqueue
<1>4. CASE Begin
  <2>1. waiting # <<>> /\ waiting \in Seq(Claims)
    BY <1>4 DEF Begin, Queue!Start
  <2>2. Head(waiting) \in Claims /\ Tail(waiting) \in Seq(Claims)
    BY <2>1, LineShifted
  <2> QED BY <1>4, <2>2, <1>0 DEF Begin, Queue!Start, Goto, Steps, Working, Agents
<1>5. ASSUME NEW j \in Claims, JobStep(j) PROVE TypeOK'
  <2> USE DEF Goto, Steps, Working
  <2>1. CASE CheckWindow(j)
    BY <2>1, <1>0 DEF CheckWindow, Agents
  <2>2. CASE Runtime(j)
    BY <2>2, <1>0 DEF Runtime, pickConnection, Agents
  <2>3. CASE Send(j)
    <3>1. delivered' \in [Messages -> Nat]
      BY <2>3, ClaimIsPair DEF Send
    <3>2. step' \in [Agents -> Steps]
      BY <2>3, <1>0 DEF Send
    <3>3. lapsed' = lapsed /\ slow' = slow /\ doubtful' \subseteq Messages /\ trouble' \in Nat
      BY <2>3, ClaimIsPair DEF Send, Happens
    <3> QED BY <2>3, <3>1, <3>2, <3>3 DEF Send, Agents
  <2>4. CASE Record(j)
    <3>1. row' \in [Messages -> Rows]
      BY <2>4, <1>0, ClaimIsPair, OutcomesAreRows DEF Record, Write
    <3> QED BY <2>4, <3>1, <1>0 DEF Record, Agents
  <2>5. CASE WriteError(j)
    <3>0. IsFinal(j[2]) \in BOOLEAN
      BY DEF IsFinal
    <3>1. errorRow(row[j[1]], TRUE) \in Rows /\ errorRow(row[j[1]], IsFinal(j[2])) \in Rows
      BY <3>0, <1>0, ClaimIsPair, OutcomesAreRows
    <3>2. row' \in [Messages -> Rows]
      BY <2>5, <3>1, <1>0, ClaimIsPair DEF WriteError, Write
    <3> QED BY <2>5, <3>2, <1>0 DEF WriteError, Agents
  <2> QED BY <1>5, <2>1, <2>2, <2>3, <2>4, <2>5 DEF JobStep
<1>6. ASSUME NEW b \in Agents, ReadCounts(b) PROVE TypeOK'
  <2>1. Count \in Counts
    BY CountsAreNumbers DEF Count, Counts
  <2> QED BY <1>6, <2>1, <1>0 DEF ReadCounts, Goto, Steps, Agents
<1>7. ASSUME NEW b \in Agents, Leaves(b) \/ UNCHANGED queueVars
      PROVE  waiting' \in Seq(Claims) /\ running' \subseteq Claims /\ over' \subseteq Claims
  BY <1>7 DEF Leaves, Queue!Finish
<1>8. ASSUME NEW b \in Agents, WriteVerdict(b) PROVE TypeOK'
  BY <1>8, <1>7, <1>0 DEF WriteVerdict, Verdict, Goto, Steps, Agents
<1>9. ASSUME NEW b \in Agents, DbFails(b) PROVE TypeOK'
  <2>1. waiting' \in Seq(Claims) /\ running' \subseteq Claims /\ over' \subseteq Claims
    BY <1>9, <1>7 DEF DbFails
  <2>2. step' \in [Agents -> Steps]
    <3>1. PICK s \in {"fail", "bump", "done"} : Goto(b, s)
      BY <1>9 DEF DbFails
    <3> QED BY <3>1, <1>0 DEF Goto, Steps, Working
  <2>3. seen' \in [Agents -> Counts]
    BY <1>9, <1>0 DEF DbFails
  <2>4. doubtful' \subseteq Messages
    <3>1. CASE b \in Claims
      BY <1>9, <3>1, ClaimIsPair DEF DbFails
    <3>2. CASE b = Creator
      <4>1. ~Bumping(b, "record")
        BY <3>2 DEF Bumping, StepsAgree
      <4>2. doubtful' = doubtful
        BY <1>9, <4>1 DEF DbFails
      <4> QED BY <4>2
    <3> QED BY <3>1, <3>2 DEF Agents
  <2>5. trouble' \in Nat
    BY <1>9 DEF DbFails, Happens
  <2> QED BY <1>9, <2>1, <2>2, <2>3, <2>4, <2>5 DEF DbFails, Agents
<1>10. CASE Crash
  <2>1. {waiting[i] : i \in 1..Len(waiting)} \subseteq Claims
    OBVIOUS
  <2>2. step' \in [Agents -> Steps] /\ seen' \in [Agents -> Counts]
    BY <1>10, <1>0 DEF Crash, Steps
  <2>3. waiting' \in Seq(Claims) /\ running' = {} /\ over' \subseteq Claims /\ batch' = {}
    BY <1>10, <2>1 DEF Crash
  <2>4. doubtful' \subseteq Messages /\ trouble' \in Nat
    BY <1>10 DEF Crash, Happens
  <2> QED BY <1>10, <2>2, <2>3, <2>4 DEF Crash, Agents
<1>11. ASSUME NEW m \in Messages, FallsDue(m) PROVE TypeOK'
  BY <1>11, <1>0 DEF FallsDue, Rows
<1>12. ASSUME NEW m \in Messages, LeaseRunsOut(m) PROVE TypeOK'
  <2>1. row' \in [Messages -> Rows]
    BY <1>12, <1>0 DEF LeaseRunsOut, Rows
  <2>2. lapsed' = lapsed \cup {m} /\ slow' \subseteq lapsed' /\ trouble' \in Nat
    BY <1>12 DEF LeaseRunsOut, Happens
  <2> QED BY <1>12, <2>1, <2>2 DEF LeaseRunsOut
<1>13. CASE WindowCloses
  BY <1>13 DEF WindowCloses
<1>14. CASE UNCHANGED vars
  BY <1>14 DEF vars
<1> QED
  BY <1>1, <1>2, <1>3, <1>4, <1>5, <1>6, <1>8, <1>9, <1>10, <1>11, <1>12, <1>13, <1>14
  DEF Next, Agents

-----------------------------------------------------------------------------
(* Where the claims are, and what has been inserted.                       *)
LEMMA TakenAreClaims ==
  ASSUME TypeOK
  PROVE  Taken \subseteq Claims /\ Line(waiting) \subseteq Claims
BY DEF TypeOK, Queue!JobsTypeOK, Taken, Line

(* Once there is a claim, all messages are there.                          *)
LEMMA ClaimedAreInserted ==
  ASSUME TypeOK, Claimed, Inserted, NEW j \in Taken
  PROVE  \A m \in Messages : row[m].status # "none"
<1>1. j \in Claims /\ row[j[1]] \in Rows /\ j[2] <= row[j[1]].attempts
  BY TakenAreClaims, ClaimIsPair DEF TypeOK, Claimed
<1>2. row[j[1]].attempts # 0
  BY <1>1, ClaimIsPair DEF Rows
<1> QED BY <1>1, <1>2, ClaimIsPair DEF Inserted

(* A job goes on, ends, or is about to begin; the creator goes on.         *)
LEMMA JobMoves ==
  ASSUME TypeOK, Places, StepsAgree,
         NEW j \in running, NEW s \in Working \cup {"bump", "tally"},
         Goto(j, s), UNCHANGED <<batch, queueVars>>
  PROVE  Places' /\ StepsAgree' /\ Taken' = Taken /\ step'[Creator] = step[Creator]
<1>1. j \in Claims /\ j # Creator /\ step \in [Agents -> Steps]
  BY BroadcastAssumption DEF TypeOK, Queue!JobsTypeOK, Claims, Agents
<1>2. waiting' = waiting /\ running' = running /\ over' = over /\ batch' = batch
  BY DEF queueVars
<1>3. step'[j] = s /\ \A i \in Agents : i # j => step'[i] = step[i]
  BY <1>1 DEF Goto, Agents
<1>4. s \notin {"idle", "done", "insert"}
  BY DEF Working
<1> QED BY <1>1, <1>2, <1>3, <1>4 DEF Places, StepsAgree, Taken, Agents

LEMMA JobLeaves ==
  ASSUME TypeOK, Places, StepsAgree,
         NEW j \in running, Queue!Finish(j), Goto(j, "done"), UNCHANGED batch
  PROVE  Places' /\ StepsAgree' /\ Taken' = Taken /\ step'[Creator] = step[Creator]
<1>1. j \in Claims /\ j # Creator /\ step \in [Agents -> Steps]
  BY BroadcastAssumption DEF TypeOK, Queue!JobsTypeOK, Claims, Agents
<1>2. waiting' = waiting /\ running' = running \ {j} /\ over' = over \cup {j} /\ batch' = batch
  BY DEF Queue!Finish
<1>3. step'[j] = "done" /\ \A i \in Agents : i # j => step'[i] = step[i]
  BY <1>1 DEF Goto, Agents
<1> QED BY <1>1, <1>2, <1>3 DEF Places, StepsAgree, Taken, Agents

LEMMA CreatorMoves ==
  ASSUME TypeOK, Places, StepsAgree,
         NEW s \in {"bump", "tally", "done"}, Goto(Creator, s), UNCHANGED <<batch, queueVars>>
  PROVE  Places' /\ StepsAgree' /\ Taken' = Taken /\ step'[Creator] = s
<1>1. step \in [Agents -> Steps] /\ Creator \notin Claims
  BY BroadcastAssumption DEF TypeOK, Claims, Agents
<1>2. waiting' = waiting /\ running' = running /\ over' = over /\ batch' = batch
  BY DEF queueVars
<1>3. step'[Creator] = s /\ \A i \in Agents : i # Creator => step'[i] = step[i]
  BY <1>1 DEF Goto, Agents
<1> QED BY <1>1, <1>2, <1>3 DEF Places, StepsAgree, Taken, Agents

(* What no step but a claim and the insert does to a row.                  *)
LEMMA RowsStay ==
  ASSUME TypeOK, Claimed, Inserted, Taken' \subseteq Taken,
         \A m \in Messages : /\ row'[m].attempts = row[m].attempts
                             /\ row'[m].status = "none" <=> row[m].status = "none",
         \/ step'[Creator] \in {step[Creator], "done"}
         \/ {step[Creator], step'[Creator]} \subseteq {"bump", "tally"}
  PROVE  Claimed' /\ Inserted'
<1>1. \A j \in Taken : j[1] \in Messages
  BY TakenAreClaims, ClaimIsPair
<1>2. Claimed'
  BY <1>1 DEF Claimed
<1>3. Inserted'
  BY DEF Inserted
<1> QED BY <1>2, <1>3

LEMMA StructureStays == TypeOK /\ Structure /\ [Next]_vars => Structure'
<1> SUFFICES ASSUME TypeOK, Structure, [Next]_vars PROVE Structure'
  OBVIOUS
<1> USE DEF Structure
<1>0. /\ \A j \in Claims : j # Creator /\ j[1] \in Messages
      /\ running \subseteq Claims /\ step \in [Agents -> Steps]
      /\ row \in [Messages -> Rows] /\ Taken \subseteq Claims
      /\ Creator \in Agents
  BY ClaimIsPair, TakenAreClaims DEF TypeOK, Queue!JobsTypeOK, Agents
<1>1. CASE Insert
  <2>1. Goto(Creator, "bump") /\ UNCHANGED <<batch, queueVars>> /\ step[Creator] = "insert"
        /\ row' = [m \in Messages |-> [status |-> "pending", attempts |-> 0, due |-> FALSE, old |-> FALSE]]
    BY <1>1 DEF Insert
  <2>2. Places' /\ StepsAgree' /\ Taken' = Taken /\ step'[Creator] = "bump"
    BY <2>1, CreatorMoves
  <2>3. Taken = {} \/ Messages = {}
    BY <2>1, ClaimedAreInserted DEF Inserted
  <2>4. Claimed' /\ Inserted'
    BY <2>1, <2>2, <2>3, <1>0 DEF Claimed, Inserted
  <2> QED BY <2>2, <2>4
<1>2. CASE Claim
  <2>1. PICK S \in SUBSET {m \in Messages : Claimable(m) /\ row[m].attempts < MaxClaims} :
          /\ row' = [m \in Messages |->
                       IF m \in S THEN [status |-> "sending", attempts |-> row[m].attempts + 1,
                                        due |-> row[m].due, old |-> FALSE]
                       ELSE row[m]]
          /\ batch' = {<<m, row[m].attempts + 1>> : m \in S}
    BY <1>2 DEF Claim
  <2>2. /\ batch = {} /\ waiting' = waiting /\ running' = running /\ over' = over /\ step' = step
    BY <1>2 DEF Claim, queueVars
  <2>3. \A m \in Messages : row[m].attempts \in Nat
    BY <1>0 DEF Rows
  <2>4. \A m \in S : <<m, row[m].attempts + 1>> \notin Taken
    <3> SUFFICES ASSUME NEW m \in S, <<m, row[m].attempts + 1>> \in Taken PROVE FALSE
      OBVIOUS
    <3>1. row[m].attempts + 1 <= row[m].attempts
      BY DEF Claimed
    <3> QED BY <3>1, <2>3
  <2>5. Places'
    BY <2>1, <2>2, <2>4 DEF Places, Taken
  <2>6. StepsAgree'
    BY <2>2 DEF StepsAgree
  <2>7. Claimed'
    <3> SUFFICES ASSUME NEW j \in Taken' PROVE j[2] <= row'[j[1]].attempts
      BY DEF Claimed
    <3>1. CASE j \in Taken
      <4>1. j \in Claims /\ j[2] <= row[j[1]].attempts /\ j[1] \in Messages /\ j[2] \in Nat
        BY <3>1, <1>0, ClaimIsPair DEF Claimed
      <4>2. row'[j[1]].attempts \in {row[j[1]].attempts, row[j[1]].attempts + 1}
        BY <2>1, <4>1
      <4> QED BY <4>1, <4>2, <2>3
    <3>2. CASE j \notin Taken
      <4>1. j \in batch'
        BY <3>2, <2>2 DEF Taken
      <4>2. PICK m \in S : j = <<m, row[m].attempts + 1>>
        BY <4>1, <2>1
      <4>3. row'[m].attempts = row[m].attempts + 1 /\ j[1] = m /\ j[2] = row[m].attempts + 1
        BY <4>2, <2>1
      <4> QED BY <4>3, <2>3
    <3> QED BY <3>1, <3>2
  <2>8. Inserted'
    <3>1. \A m \in S : row[m].status # "none"
      BY DEF Claimable
    <3>2. \A m \in Messages : row'[m].status = "none" => row'[m] = row[m] /\ row[m].status = "none"
      BY <2>1
    <3>3. \A m \in Messages : row[m].status = "none" => row'[m] = row[m]
      BY <2>1, <3>1
    <3> QED BY <2>2, <3>2, <3>3 DEF Inserted
  <2> QED BY <2>5, <2>6, <2>7, <2>8
<1>3. ASSUME NEW j \in Claims, Enqueue(j) PROVE Structure'
  <2>1. /\ j \in batch /\ batch' = batch \ {j} /\ row' = row /\ step' = step
        /\ j \notin Line(waiting) \cup running \cup over
    BY <1>3 DEF Enqueue, Places
  <2>2. CASE Queue!Accept(j)
    <3>1. waiting' = Append(waiting, j) /\ running' = running /\ over' = over
      BY <2>2 DEF Queue!Accept
    <3>2. Line(waiting') = Line(waiting) \cup {j} /\ Distinct(waiting')
      BY <3>1, <2>1, LineAppended DEF Places, TypeOK, Queue!JobsTypeOK
    <3>3. Places' /\ Taken' = Taken
      BY <3>1, <3>2, <2>1 DEF Places, Taken
    <3>4. StepsAgree'
      BY <3>1, <2>1 DEF StepsAgree
    <3> QED BY <3>3, <3>4, <2>1, RowsStay
  <2>3. CASE Queue!Refuse(j)
    <3>1. waiting' = waiting /\ running' = running /\ over' = over \cup {j}
      BY <2>3 DEF Queue!Refuse
    <3>2. Places' /\ Taken' = Taken
      BY <3>1, <2>1 DEF Places, Taken
    <3>3. StepsAgree'
      BY <3>1, <2>1 DEF StepsAgree
    <3> QED BY <3>2, <3>3, <2>1, RowsStay
  <2> QED BY <1>3, <2>2, <2>3 DEF Enqueue
<1>4. CASE Begin
  <2> DEFINE h == Head(waiting)
  <2>1. /\ waiting # <<>> /\ waiting' = Tail(waiting) /\ running' = running \cup {h}
        /\ over' = over /\ batch' = batch /\ row' = row /\ step' = [step EXCEPT ![h] = "window"]
    BY <1>4 DEF Begin, Queue!Start, Goto
  <2>2. /\ h \in Line(waiting) /\ h \in Claims
        /\ Line(waiting') = Line(waiting) \ {h} /\ Distinct(waiting')
    BY <2>1, LineShifted DEF Places, TypeOK, Queue!JobsTypeOK
  <2>3. Places' /\ Taken' = Taken
    BY <2>1, <2>2 DEF Places, Taken
  <2>4. StepsAgree' /\ step'[Creator] = step[Creator]
    BY <2>1, <2>2, <1>0 DEF StepsAgree, Agents
  <2> QED BY <2>1, <2>3, <2>4, RowsStay
<1>5. ASSUME NEW j \in Claims, JobStep(j) PROVE Structure'
  <2>1. j \in running
    BY <1>5 DEF JobStep, CheckWindow, Runtime, Send, Record, WriteError, At
  <2>2. PICK s \in Working \cup {"bump", "tally"} : Goto(j, s)
    BY <1>5 DEF JobStep, CheckWindow, Runtime, pickConnection, Send, Record, WriteError, Working
  <2>3. UNCHANGED <<batch, queueVars>>
    BY <1>5 DEF JobStep, CheckWindow, Runtime, Send, Record, WriteError
  <2>4. Places' /\ StepsAgree' /\ Taken' = Taken /\ step'[Creator] = step[Creator]
    BY <2>1, <2>2, <2>3, JobMoves
  <2>5. CASE row' = row
    BY <2>4, <2>5, RowsStay
  <2>6. CASE Record(j) \/ WriteError(j)
    <3>1. PICK r \in {sentRow(row[j[1]]), errorRow(row[j[1]], TRUE), errorRow(row[j[1]], IsFinal(j[2]))} :
            Write(j, r)
      BY <2>6 DEF Record, WriteError
    <3>2. r.attempts = row[j[1]].attempts /\ r.status # "none"
      BY <3>1, <1>0 DEF sentRow, errorRow, Rows
    <3>3. row[j[1]].status # "none"
      BY <2>1, <1>0, ClaimedAreInserted DEF Taken
    <3>4. \A m \in Messages : /\ row'[m].attempts = row[m].attempts
                              /\ row'[m].status = "none" <=> row[m].status = "none"
      BY <3>1, <3>2, <3>3, <1>0 DEF Write
    <3> QED BY <2>4, <3>4, RowsStay
  <2>7. row' = row \/ Record(j) \/ WriteError(j)
    BY <1>5 DEF JobStep, CheckWindow, Runtime, Send
  <2> QED BY <2>5, <2>6, <2>7
<1>6. ASSUME NEW b \in Agents, NEW s \in {"tally", "done", "bump", "fail"}, Goto(b, s),
             UNCHANGED <<batch, row>>,
             b = Creator => s # "fail" /\ UNCHANGED queueVars /\ (s # "done" => step[b] = "bump"),
             b # Creator => /\ b \in running
                            /\ IF s = "done" THEN Queue!Finish(b) ELSE UNCHANGED queueVars
      PROVE  Structure'
  <2>1. CASE b = Creator
    <3>1. Places' /\ StepsAgree' /\ Taken' = Taken /\ step'[Creator] = s
      BY <1>6, <2>1, CreatorMoves
    <3>2. s = "done" \/ step[Creator] = "bump"
      BY <1>6, <2>1
    <3>3. Claimed'
      BY <1>6, <3>1, <1>0 DEF Claimed
    <3>4. Inserted'
      BY <1>6, <2>1, <3>1, <3>2, <1>0 DEF Inserted
    <3> QED BY <3>1, <3>3, <3>4
  <2>2. CASE b # Creator
    <3>1. Places' /\ StepsAgree' /\ Taken' = Taken /\ step'[Creator] = step[Creator]
      BY <1>6, <2>2, JobMoves, JobLeaves DEF Working
    <3> QED BY <1>6, <3>1, RowsStay
  <2> QED BY <2>1, <2>2
<1>7. ASSUME NEW b \in Agents, ReadCounts(b) PROVE Structure'
  <2>1. b # Creator => b \in running
    BY <1>7 DEF ReadCounts, Bumping, At
  <2> QED BY <1>7, <2>1, <1>6 DEF ReadCounts, Bumping
<1>8. ASSUME NEW b \in Agents, WriteVerdict(b) PROVE Structure'
  <2>1. b # Creator => b \in running
    BY <1>8 DEF WriteVerdict, Bumping, At
  <2> QED BY <1>8, <2>1, <1>6 DEF WriteVerdict, Leaves
<1>9. ASSUME NEW b \in Agents, DbFails(b) PROVE Structure'
  <2>1. b # Creator => b \in running
    BY <1>9 DEF DbFails, Bumping, At
  <2>2. b = Creator => ~Bumping(b, "record") /\ ~Bumping(b, "fail")
    BY DEF Bumping, StepsAgree
  <2>3. PICK s \in {"done", "bump", "fail"} :
          /\ Goto(b, s) /\ IF s = "done" THEN Leaves(b) ELSE UNCHANGED queueVars
          /\ b = Creator => s = "done"
    BY <1>9, <2>2 DEF DbFails
  <2>4. UNCHANGED <<batch, row>>
    BY <1>9 DEF DbFails
  <2> QED BY <2>1, <2>3, <2>4, <1>6 DEF Leaves
<1>10. CASE Crash
  <2>1. /\ waiting' = <<>> /\ running' = {} /\ batch' = {} /\ row' = row
        /\ over' = over \cup running \cup Line(waiting) \cup batch
        /\ step' = [j \in Agents |-> IF step[j] = "idle" THEN "idle" ELSE "done"]
    BY <1>10, <1>0 DEF Crash, Line
  <2>2. Line(waiting') = {} /\ Distinct(waiting')
    BY <2>1 DEF Line, Distinct
  <2>3. Places' /\ Taken' = Taken
    BY <2>1, <2>2 DEF Places, Taken
  <2>4. StepsAgree' /\ step'[Creator] = "done"
    BY <2>1, <1>0 DEF StepsAgree, Agents
  <2> QED BY <2>1, <2>3, <2>4, RowsStay
<1>11. ASSUME NEW m \in Messages, FallsDue(m) \/ LeaseRunsOut(m) PROVE Structure'
  <2>1. UNCHANGED <<batch, queueVars, step>>
    BY <1>11 DEF FallsDue, LeaseRunsOut
  <2>2. Places' /\ StepsAgree' /\ Taken' = Taken
    BY <2>1 DEF Places, StepsAgree, Taken, queueVars
  <2>3. row' = [row EXCEPT ![m].due = TRUE] \/ row' = [row EXCEPT ![m].old = TRUE]
    BY <1>11 DEF FallsDue, LeaseRunsOut
  <2>4. \A n \in Messages : /\ row'[n].attempts = row[n].attempts
                            /\ row'[n].status = row[n].status
    BY <2>3, <1>0 DEF Rows
  <2> QED BY <2>1, <2>2, <2>4, RowsStay
<1>12. CASE WindowCloses \/ UNCHANGED vars
  <2>1. UNCHANGED <<row, batch, queueVars, step>>
    BY <1>12 DEF WindowCloses, vars
  <2>2. Places' /\ StepsAgree' /\ Taken' = Taken
    BY <2>1 DEF Places, StepsAgree, Taken, queueVars
  <2> QED BY <2>1, <2>2, RowsStay
<1> QED
  BY <1>1, <1>2, <1>3, <1>4, <1>5, <1>7, <1>8, <1>9, <1>10, <1>11, <1>12 DEF Next, Agents

-----------------------------------------------------------------------------
(* The leases.                                                             *)
LEMMA InHandIsInPlay ==
  ASSUME TypeOK, NEW m \in Messages
  PROVE  InHand(m) <=> \E j \in Claims : j[1] = m /\ InPlay(j)
<1>1. ASSUME InHand(m) PROVE \E j \in Claims : j[1] = m /\ InPlay(j)
  <2>1. CASE Works(m) # {}
    BY <2>1 DEF Works, InPlay
  <2>2. CASE \E n \in 1..MaxClaims : <<m, n>> \in batch
    <3>1. PICK n \in 1..MaxClaims : <<m, n>> \in batch
      BY <2>2
    <3> QED BY <3>1 DEF InPlay, Claims
  <2>3. CASE \E i \in 1..Len(waiting) : waiting[i][1] = m
    <3>1. PICK i \in 1..Len(waiting) : waiting[i][1] = m
      BY <2>3
    <3>2. waiting[i] \in Line(waiting)
      BY DEF Line
    <3> QED BY <3>1, <3>2, TakenAreClaims DEF InPlay
  <2> QED BY <1>1, <2>1, <2>2, <2>3 DEF InHand
<1>2. ASSUME NEW j \in Claims, j[1] = m, InPlay(j) PROVE InHand(m)
  <2>1. j = <<m, j[2]>> /\ j[2] \in 1..MaxClaims
    BY <1>2, ClaimIsPair
  <2>2. CASE j \in batch
    BY <2>1, <2>2 DEF InHand
  <2>3. CASE j \in Line(waiting)
    BY <1>2, <2>3 DEF InHand, Line
  <2>4. CASE step[j] \in Working
    BY <1>2, <2>4 DEF InHand, Works
  <2> QED BY <1>2, <2>2, <2>3, <2>4 DEF InPlay
<1> QED BY <1>1, <1>2

(* Only a claim brings a job into play.                                    *)
LEMMA InPlayByClaim ==
  ASSUME TypeOK, Structure, [Next]_vars, NEW j \in Claims, InPlay(j)'
  PROVE  InPlay(j) \/ (Claim /\ j \in batch')
<1>0. j # Creator /\ step \in [Agents -> Steps] /\ j \in Agents
  BY ClaimIsPair DEF TypeOK, Agents
<1> USE DEF InPlay
<1>1. CASE Insert
  BY <1>1, <1>0 DEF Insert, Goto, queueVars
<1>2. CASE Claim
  BY <1>2, <1>0 DEF Claim, queueVars
<1>3. ASSUME NEW i \in Claims, Enqueue(i) PROVE InPlay(j)
  <2>1. i \in batch /\ batch' \subseteq batch /\ step' = step
    BY <1>3 DEF Enqueue
  <2>2. Line(waiting') \subseteq Line(waiting) \cup {i}
    BY <1>3, LineAppended DEF Enqueue, Queue!Accept, Queue!Refuse, TypeOK, Queue!JobsTypeOK
  <2> QED BY <2>1, <2>2
<1>4. CASE Begin
  <2>1. waiting # <<>> /\ waiting' = Tail(waiting) /\ batch' = batch
        /\ step' = [step EXCEPT ![Head(waiting)] = "window"]
    BY <1>4 DEF Begin, Queue!Start, Goto
  <2>2. Head(waiting) \in Line(waiting) /\ Line(waiting') \subseteq Line(waiting)
    BY <2>1, LineShifted DEF Structure, Places, TypeOK, Queue!JobsTypeOK
  <2> QED BY <2>1, <2>2, <1>0
<1>5. ASSUME NEW i \in Claims, JobStep(i) PROVE InPlay(j)
  <2>1. step[i] \in Working /\ UNCHANGED <<batch, waiting>>
    BY <1>5 DEF JobStep, CheckWindow, Runtime, Send, Record, WriteError, At, Working, queueVars
  <2>2. PICK s \in Steps : Goto(i, s)
    BY <1>5 DEF JobStep, CheckWindow, Runtime, pickConnection, Send, Record, WriteError, Working, Steps
  <2> QED BY <2>1, <2>2, <1>0 DEF Goto
<1>6. ASSUME NEW b \in Agents, ReadCounts(b) \/ WriteVerdict(b) PROVE InPlay(j)
  <2>1. UNCHANGED <<batch, waiting>>
    BY <1>6 DEF ReadCounts, WriteVerdict, queueVars, Leaves, Queue!Finish
  <2>2. PICK s \in {"tally", "done"} : Goto(b, s)
    BY <1>6 DEF ReadCounts, WriteVerdict
  <2> QED BY <2>1, <2>2, <1>0 DEF Goto, Working
<1>7. ASSUME NEW b \in Agents, DbFails(b) PROVE InPlay(j)
  <2>1. UNCHANGED <<batch, waiting>>
    BY <1>7 DEF DbFails, queueVars, Leaves, Queue!Finish
  <2>2. PICK s \in {"fail", "bump", "done"} : Goto(b, s) /\ (s = "fail" => step[b] \in Working)
    BY <1>7 DEF DbFails, Bumping, At, Working
  <2> QED BY <2>1, <2>2, <1>0 DEF Goto, Working
<1>8. CASE Crash
  <2>1. Line(waiting') = {} /\ batch' = {}
    BY <1>8 DEF Crash, Line
  <2>2. step'[j] \in {"idle", "done"}
    BY <1>8, <1>0 DEF Crash
  <2> QED BY <2>1, <2>2 DEF Working
<1>9. ASSUME NEW m \in Messages, FallsDue(m) \/ LeaseRunsOut(m) PROVE InPlay(j)
  BY <1>9 DEF FallsDue, LeaseRunsOut, queueVars
<1>10. CASE WindowCloses \/ UNCHANGED vars
  BY <1>10 DEF WindowCloses, vars, queueVars
<1> QED
  BY <1>1, <1>2, <1>3, <1>4, <1>5, <1>6, <1>7, <1>8, <1>9, <1>10 DEF Next, Agents

(* A lease that ran out under a job is never forgotten.                    *)
LEMMA TimePasses ==
  ASSUME TypeOK, [Next]_vars
  PROVE  /\ slow \subseteq slow' /\ lapsed \subseteq lapsed'
         /\ doubtful \subseteq doubtful' /\ (open' => open)
         /\ \A m \in Messages : row'[m].old => m \in lapsed' \/ row[m].old
<1>0. row \in [Messages -> Rows]
  BY DEF TypeOK
<1> USE DEF worldVars
<1>1. CASE Insert
  BY <1>1 DEF Insert
<1>2. CASE Claim
  BY <1>2 DEF Claim
<1>3. ASSUME NEW j \in Claims, Enqueue(j) \/ CheckWindow(j) \/ Runtime(j)
      PROVE  UNCHANGED <<row, open, slow, lapsed, doubtful>>
  BY <1>3 DEF Enqueue, CheckWindow, Runtime
<1>4. ASSUME NEW j \in Claims, Send(j)
      PROVE  UNCHANGED <<row, open, slow, lapsed>> /\ doubtful \subseteq doubtful'
  BY <1>4 DEF Send
<1>5. ASSUME NEW j \in Claims, Record(j) \/ WriteError(j)
      PROVE  /\ UNCHANGED <<open, slow, lapsed, doubtful>>
             /\ \A m \in Messages : row'[m].old => row[m].old
  <2>1. PICK r \in {sentRow(row[j[1]]), errorRow(row[j[1]], TRUE), errorRow(row[j[1]], IsFinal(j[2]))} :
          Write(j, r)
    BY <1>5 DEF Record, WriteError
  <2>2. r.old = FALSE
    BY <2>1, <1>0, ClaimIsPair DEF sentRow, errorRow, Rows
  <2>3. \A m \in Messages : row'[m].old => row[m].old
    BY <2>1, <2>2, <1>0, ClaimIsPair DEF Write
  <2> QED BY <2>3, <1>5 DEF Record, WriteError
<1>6. ASSUME NEW b \in Agents, ReadCounts(b) \/ WriteVerdict(b)
      PROVE  UNCHANGED <<row, open, slow, lapsed, doubtful>>
  BY <1>6 DEF ReadCounts, WriteVerdict
<1>7. ASSUME NEW b \in Agents, DbFails(b)
      PROVE  UNCHANGED <<row, open, slow, lapsed>> /\ doubtful \subseteq doubtful'
  BY <1>7 DEF DbFails
<1>8. CASE Crash
  BY <1>8 DEF Crash
<1>9. ASSUME NEW m \in Messages, FallsDue(m) \/ LeaseRunsOut(m)
      PROVE  /\ UNCHANGED <<open, doubtful>> /\ slow \subseteq slow' /\ lapsed \subseteq lapsed'
             /\ \A n \in Messages : row'[n].old => n \in lapsed' \/ row[n].old
  BY <1>9, <1>0 DEF FallsDue, LeaseRunsOut, Rows
<1>10. CASE Begin \/ WindowCloses \/ UNCHANGED vars
  BY <1>10 DEF Begin, WindowCloses, vars
<1> QED
  BY <1>1, <1>2, <1>3, <1>4, <1>5, <1>6, <1>7, <1>8, <1>9, <1>10 DEF Next, JobStep, Agents

(* A job that writes its row takes itself out of play, and another one of  *)
(* the message, in play, would be the same claim.                          *)
LEMMA LatestStays ==
  ASSUME TypeOK, Structure, LatestInPlay, [Next]_vars
  PROVE  LatestInPlay'
<1> SUFFICES ASSUME NEW j \in Claims, InPlay(j)', j[1] \notin slow'
             PROVE  /\ row'[j[1]].status = "sending" /\ row'[j[1]].attempts = j[2]
                    /\ ~row'[j[1]].old
  BY DEF LatestInPlay
<1> DEFINE m == j[1]
<1>0. /\ m \in Messages /\ j \in Agents /\ j # Creator /\ j = <<m, j[2]>> /\ row[m] \in Rows
      /\ row \in [Messages -> Rows] /\ step \in [Agents -> Steps] /\ m \notin slow
  BY ClaimIsPair, TimePasses DEF TypeOK, Agents
<1>1. InPlay(j) \/ (Claim /\ j \in batch')
  BY InPlayByClaim
<1>2. CASE Claim
  <2>1. PICK S \in SUBSET {n \in Messages : Claimable(n) /\ row[n].attempts < MaxClaims} :
          /\ row' = [n \in Messages |->
                       IF n \in S THEN [status |-> "sending", attempts |-> row[n].attempts + 1,
                                        due |-> row[n].due, old |-> FALSE]
                       ELSE row[n]]
          /\ batch' = {<<n, row[n].attempts + 1>> : n \in S}
    BY <1>2 DEF Claim
  <2>2. CASE InPlay(j)
    <3>1. row[m].status = "sending" /\ row[m].attempts = j[2] /\ ~row[m].old
      BY <2>2, <1>0 DEF LatestInPlay
    <3>2. m \notin S
      BY <3>1 DEF Claimable
    <3> QED BY <3>1, <3>2, <2>1, <1>0
  <2>3. CASE j \in batch'
    <3>1. PICK n \in S : j = <<n, row[n].attempts + 1>>
      BY <2>1, <2>3
    <3> QED BY <3>1, <2>1
  <2> QED BY <1>1, <2>2, <2>3
<1>3. CASE InPlay(j) /\ ~Claim
  <2>0. row[m].status = "sending" /\ row[m].attempts = j[2] /\ ~row[m].old
    BY <1>3, <1>0 DEF LatestInPlay
  <2> SUFFICES row'[m] = row[m]
    BY <2>0
  <2>1. CASE Insert
    <3>1. j \in Taken
      BY <1>3, <1>0 DEF InPlay, Taken, Structure, StepsAgree, Working
    <3> QED BY <2>1, <3>1, <2>0, <1>0 DEF Insert, Structure, Inserted
  <2>2. ASSUME NEW i \in Claims, JobStep(i) PROVE row'[m] = row[m]
    <3>1. CASE row' = row
      BY <3>1
    <3>2. CASE Record(i) \/ WriteError(i)
      <4>1. step[i] \in Working /\ step' = [step EXCEPT ![i] = "bump"] /\ UNCHANGED <<batch, waiting>>
            /\ \E r : Write(i, r)
        BY <3>2 DEF Record, WriteError, At, Working, Goto, queueVars
      <4>2. i \notin batch /\ i \notin Line(waiting)
        BY <4>1 DEF Structure, StepsAgree, Places, Working
      <4>3. ~InPlay(i)'
        BY <4>1, <4>2, <1>0 DEF InPlay, Working, Agents
      <4>4. i # j
        BY <4>3
      <4>5. i[1] # m
        <5> SUFFICES ASSUME i[1] = m PROVE FALSE
          OBVIOUS
        <5>1. InPlay(i) /\ row[m].attempts = i[2]
          BY <4>1, <1>0 DEF InPlay, LatestInPlay
        <5> QED BY <5>1, <2>0, <4>4, <1>0, ClaimIsPair
      <4> QED BY <4>1, <4>5, <1>0, ClaimIsPair DEF Write
    <3> QED BY <2>2, <3>1, <3>2 DEF JobStep, CheckWindow, Runtime, Send
  <2>3. ASSUME NEW n \in Messages, FallsDue(n) PROVE row'[m] = row[m]
    BY <2>3, <2>0, <1>0 DEF FallsDue
  <2>4. ASSUME NEW n \in Messages, LeaseRunsOut(n) PROVE row'[m] = row[m]
    <3>1. n # m
      BY <2>4, <1>3, <1>0, InHandIsInPlay DEF LeaseRunsOut
    <3> QED BY <2>4, <3>1, <1>0 DEF LeaseRunsOut
  <2>5. ASSUME NEW b \in Agents, ReadCounts(b) \/ WriteVerdict(b) \/ DbFails(b) PROVE row' = row
    BY <2>5 DEF ReadCounts, WriteVerdict, DbFails
  <2>6. ASSUME NEW i \in Claims, Enqueue(i) PROVE row' = row
    BY <2>6 DEF Enqueue
  <2>7. CASE Begin \/ Crash \/ WindowCloses \/ UNCHANGED vars
    BY <2>7 DEF Begin, Crash, WindowCloses, vars
  <2> QED BY <1>3, <2>1, <2>2, <2>3, <2>4, <2>5, <2>6, <2>7 DEF Next, Agents
<1> QED BY <1>1, <1>2, <1>3

-----------------------------------------------------------------------------
(* Outcomes and deliveries.                                                *)

(* Whoever writes the outcome of a message has it in play.                 *)
LEMMA WriterIsInPlay ==
  ASSUME TypeOK, Structure, NEW j \in Claims, JobStep(j)
  PROVE  /\ InPlay(j) /\ j \in Taken /\ j \in running
         /\ j[1] \notin slow /\ LatestInPlay =>
              row[j[1]].status = "sending" /\ row[j[1]].attempts = j[2]
         /\ j[2] <= row[j[1]].attempts
<1>1. step[j] \in Working /\ j \in running
  BY DEF JobStep, CheckWindow, Runtime, Send, Record, WriteError, At, Working
<1> QED BY <1>1 DEF InPlay, LatestInPlay, Taken, Structure, Claimed

LEMMA OutcomeStays ==
  ASSUME TypeOK, Structure, LatestInPlay, [Next]_vars,
         NEW m \in Messages \ slow, row[m].status \in Final
  PROVE  row'[m] = row[m]
<1>0. row \in [Messages -> Rows] /\ row[m].status \notin {"none", "pending", "sending"}
  BY DEF TypeOK, Final
<1>1. CASE Insert
  BY <1>1, <1>0 DEF Insert, Structure, Inserted
<1>2. CASE Claim
  <2>1. ~Claimable(m)
    BY <1>0 DEF Claimable
  <2> QED BY <1>2, <2>1 DEF Claim
<1>3. ASSUME NEW j \in Claims, JobStep(j) PROVE row'[m] = row[m]
  <2>1. j[1] # m
    BY <1>3, <1>0, WriterIsInPlay
  <2>2. row' = row \/ \E r : Write(j, r)
    BY <1>3 DEF JobStep, CheckWindow, Runtime, Send, Record, WriteError
  <2> QED BY <2>1, <2>2, <1>0, ClaimIsPair DEF Write
<1>4. ASSUME NEW n \in Messages, FallsDue(n) \/ LeaseRunsOut(n) PROVE row'[m] = row[m]
  BY <1>4, <1>0 DEF FallsDue, LeaseRunsOut
<1>5. ASSUME NEW b \in Agents, ReadCounts(b) \/ WriteVerdict(b) \/ DbFails(b) PROVE row' = row
  BY <1>5 DEF ReadCounts, WriteVerdict, DbFails
<1>6. ASSUME NEW j \in Claims, Enqueue(j) PROVE row' = row
  BY <1>6 DEF Enqueue
<1>7. CASE Begin \/ Crash \/ WindowCloses \/ UNCHANGED vars
  BY <1>7 DEF Begin, Crash, WindowCloses, vars
<1> QED BY <1>1, <1>2, <1>3, <1>4, <1>5, <1>6, <1>7 DEF Next, Agents

LEMMA LapsingStays == TypeOK /\ Lapsing /\ [Next]_vars => Lapsing'
BY TimePasses DEF Lapsing

(* What a step does to steps, deliveries and rows, as far as a delivery    *)
(* goes: it is made, it is recorded, it is lost sight of, or nothing.      *)
LEMMA DeliveryMoves ==
  ASSUME TypeOK, Structure, [Next]_vars
  PROVE  \/ \E j \in Claims : Send(j) \/ Record(j) \/ WriteError(j)
         \/ /\ delivered' = delivered
            /\ \A m \in Messages : row'[m].status = "sent" <=> row[m].status = "sent" 
            /\ \A j \in Claims :
                 /\ step'[j] = "record" => step[j] = "record"
                 /\ step[j] = "record" /\ j[1] \notin doubtful' => step'[j] = "record"
<1> DEFINE Quiet ==
             /\ delivered' = delivered
             /\ \A m \in Messages : row'[m].status = "sent" <=> row[m].status = "sent"
             /\ \A j \in Claims :
                  /\ step'[j] = "record" => step[j] = "record"
                  /\ step[j] = "record" /\ j[1] \notin doubtful' => step'[j] = "record"
<1>0. row \in [Messages -> Rows] /\ step \in [Agents -> Steps] /\ Creator \notin Claims
  BY BroadcastAssumption DEF TypeOK, Agents, Claims
<1>1. CASE Insert
  <2>1. \A m \in Messages : row[m].status = "none" /\ row'[m].status = "pending"
    BY <1>1 DEF Insert, Structure, Inserted
  <2> QED BY <1>1, <2>1, <1>0 DEF Insert, Goto, worldVars, Agents
<1>2. CASE Claim
  <2>1. PICK S \in SUBSET {m \in Messages : Claimable(m) /\ row[m].attempts < MaxClaims} :
          row' = [m \in Messages |->
                       IF m \in S THEN [status |-> "sending", attempts |-> row[m].attempts + 1,
                                        due |-> row[m].due, old |-> FALSE]
                       ELSE row[m]]
    BY <1>2 DEF Claim
  <2>2. \A m \in S : row[m].status # "sent"
    BY DEF Claimable
  <2>3. \A m \in Messages : row'[m].status = "sent" <=> row[m].status = "sent"
    BY <2>1, <2>2
  <2> QED BY <1>2, <2>3 DEF Claim, worldVars
<1>3. ASSUME NEW j \in Claims, Enqueue(j) PROVE Quiet
  BY <1>3 DEF Enqueue, worldVars
<1>4. CASE Begin
  <2>1. Head(waiting) \in Claims /\ step[Head(waiting)] # "record"
    <3>1. Head(waiting) \in Claims /\ Head(waiting) \in Line(waiting)
      BY <1>4, LineShifted DEF Begin, Queue!Start, TypeOK, Queue!JobsTypeOK
    <3> QED BY <3>1 DEF Structure, Places, StepsAgree
  <2>2. row' = row /\ delivered' = delivered /\ step' = [step EXCEPT ![Head(waiting)] = "window"]
    BY <1>4 DEF Begin, Goto, worldVars
  <2> QED BY <2>1, <2>2, <1>0 DEF Agents
<1>5. ASSUME NEW j \in Claims, CheckWindow(j) \/ Runtime(j) PROVE Quiet
  <2>1. step[j] # "record" /\ row' = row /\ delivered' = delivered
        /\ \E s \in {"runtime", "expired", "send", "nolink"} : Goto(j, s)
    BY <1>5 DEF CheckWindow, Runtime, At, pickConnection, worldVars
  <2> QED BY <2>1, <1>0 DEF Goto, Agents
<1>6. ASSUME NEW b \in Agents, ReadCounts(b) \/ WriteVerdict(b) PROVE Quiet
  <2>1. step[b] # "record" /\ row' = row /\ delivered' = delivered
        /\ \E s \in {"tally", "done"} : Goto(b, s)
    BY <1>6 DEF ReadCounts, WriteVerdict, Bumping, At, worldVars
  <2> QED BY <2>1, <1>0 DEF Goto, Agents
<1>7. ASSUME NEW b \in Agents, DbFails(b) PROVE Quiet
  <2>1. row' = row /\ delivered' = delivered /\ \E s \in {"fail", "bump", "done"} : Goto(b, s)
    BY <1>7 DEF DbFails
  <2>2. step[b] = "record" => doubtful' = doubtful \cup {b[1]}
    BY <1>7 DEF DbFails, Bumping, At
  <2> QED BY <2>1, <2>2, <1>0 DEF Goto, Agents
<1>8. CASE Crash
  <2>1. row' = row /\ delivered' = delivered
        /\ step' = [j \in Agents |-> IF step[j] = "idle" THEN "idle" ELSE "done"]
    BY <1>8, <1>0 DEF Crash
  <2>2. \A j \in Claims : step[j] = "record" => j[1] \in doubtful'
    BY <1>8, ClaimIsPair DEF Crash, Works, Working
  <2> QED BY <2>1, <2>2, <1>0 DEF Agents
<1>9. ASSUME NEW m \in Messages, FallsDue(m) \/ LeaseRunsOut(m) PROVE Quiet
  BY <1>9, <1>0 DEF FallsDue, LeaseRunsOut, worldVars, Rows
<1>10. CASE WindowCloses \/ UNCHANGED vars
  BY <1>10 DEF WindowCloses, vars, worldVars
<1> QED
  BY <1>1, <1>2, <1>3, <1>4, <1>5, <1>6, <1>7, <1>8, <1>9, <1>10 DEF Next, JobStep, Agents

(* A first delivery: nobody else is about to record one, and the row does  *)
(* not say sent.                                                           *)
LEMMA FirstDelivery ==
  ASSUME TypeOK, Structure, LatestInPlay, Deliveries, NEW j \in Claims, Send(j),
         j[1] \notin slow \cup doubtful
  PROVE  delivered[j[1]] = 0
<1>0. /\ j[1] \in Messages /\ step[j] = "send" /\ delivered[j[1]] \in Nat
      /\ row[j[1]].status = "sending" /\ row[j[1]].attempts = j[2]
  BY ClaimIsPair, WriterIsInPlay DEF TypeOK, JobStep, Send, At
<1>1. ASSUME NEW i \in Claims, i[1] = j[1], step[i] = "record" PROVE FALSE
  <2>1. i[2] = j[2]
    BY <1>0, <1>1 DEF LatestInPlay, InPlay, Working
  <2> QED BY <2>1, <1>0, <1>1, ClaimIsPair
<1>2. ~Recording(j[1])
  BY <1>1 DEF Recording
<1> QED BY <1>0, <1>2 DEF Deliveries

LEMMA DeliveriesStay ==
  ASSUME TypeOK, Structure, LatestInPlay, Deliveries, [Next]_vars
  PROVE  Deliveries'
<1>0. /\ row \in [Messages -> Rows] /\ step \in [Agents -> Steps]
      /\ delivered \in [Messages -> Nat]
      /\ slow \subseteq slow' /\ doubtful \subseteq doubtful'
  BY TimePasses DEF TypeOK, Agents
<1>1. ASSUME NEW j \in Claims, Send(j) PROVE Deliveries'
  <2>0. j[1] \in Messages /\ row' = row /\ slow' = slow /\ step[j] = "send" /\ j \in Agents
    BY <1>1, ClaimIsPair DEF Send, At, Agents, worldVars
  <2>1. CASE delivered' = delivered /\ Goto(j, "fail")
    <3>1. \A i \in Claims : step'[i] = "record" <=> step[i] = "record"
      BY <2>0, <2>1, <1>0 DEF Goto, Agents
    <3>2. \A m \in Messages : Recording(m)' <=> Recording(m)
      BY <3>1 DEF Recording
    <3> QED BY <1>0, <2>0, <2>1, <3>1, <3>2 DEF Deliveries
  <2>2. CASE /\ delivered' = [delivered EXCEPT ![j[1]] = @ + 1]
             /\ Goto(j, "record") \/ (Goto(j, "fail") /\ j[1] \in doubtful')
    <3>1. /\ delivered'[j[1]] = delivered[j[1]] + 1
          /\ \A m \in Messages : m # j[1] => delivered'[m] = delivered[m]
      BY <2>0, <2>2, <1>0
    <3>2. \A i \in Claims : i # j => step'[i] = step[i]
      BY <2>0, <2>2, <1>0 DEF Goto, Agents
    <3>3. ASSUME NEW i \in Claims, step'[i] = "record" PROVE delivered'[i[1]] > 0
      BY <3>1, <3>2, <3>3, <1>0, ClaimIsPair DEF Deliveries
    <3>4. ASSUME NEW m \in Messages, row'[m].status = "sent" PROVE delivered'[m] > 0
      BY <3>1, <3>4, <2>0, <1>0 DEF Deliveries
    <3>5. ASSUME NEW m \in Messages \ (slow' \cup doubtful'), m # j[1]
          PROVE  delivered'[m] <= 1 /\ (delivered'[m] = 1 => row'[m].status = "sent" \/ Recording(m)')
      <4>1. delivered[m] <= 1 /\ (delivered[m] = 1 => row[m].status = "sent" \/ Recording(m))
        BY <3>5, <1>0 DEF Deliveries
      <4>2. Recording(m) => Recording(m)'
        BY <3>2, <3>5 DEF Recording
      <4> QED BY <4>1, <4>2, <3>1, <3>5, <2>0
    <3>6. ASSUME NEW m \in Messages \ (slow' \cup doubtful'), m = j[1]
          PROVE  delivered'[m] <= 1 /\ Recording(m)'
      <4>1. Goto(j, "record") /\ delivered[m] = 0
        BY <2>2, <3>6, <1>0, <1>1, FirstDelivery
      <4>2. step'[j] = "record"
        BY <4>1, <2>0, <1>0 DEF Goto
      <4> QED BY <4>1, <4>2, <3>1, <3>6 DEF Recording
    <3> QED BY <3>3, <3>4, <3>5, <3>6 DEF Deliveries
  <2> QED BY <1>1, <2>1, <2>2 DEF Send, worldVars
<1>2. ASSUME NEW j \in Claims, Record(j) PROVE Deliveries'
  <2>0. /\ j[1] \in Messages /\ j \in Agents /\ step[j] = "record" /\ delivered' = delivered
        /\ Goto(j, "bump") /\ Write(j, sentRow(row[j[1]]))
    BY <1>2, ClaimIsPair DEF Record, At, worldVars, Agents
  <2>1. \A i \in Claims : step'[i] = IF i = j THEN "bump" ELSE step[i]
    BY <2>0, <1>0 DEF Goto, Agents
  <2>2. sentRow(row[j[1]]).status = "sent"
    BY <2>0, <1>0 DEF sentRow, Rows
  <2>3. row'[j[1]].status = "sent" /\ \A m \in Messages : m # j[1] => row'[m] = row[m]
    BY <2>0, <2>2, <1>0 DEF Write
  <2>4. \A m \in Messages : m # j[1] /\ Recording(m) => Recording(m)'
    BY <2>1 DEF Recording
  <2>5. \A m \in Messages : row'[m].status = "sent" => delivered[m] > 0
    BY <2>0, <2>3 DEF Deliveries
  <2> QED BY <1>0, <2>0, <2>1, <2>3, <2>4, <2>5 DEF Deliveries
<1>3. ASSUME NEW j \in Claims, WriteError(j) PROVE Deliveries'
  <2>0. /\ j[1] \in Messages /\ j \in Agents /\ step[j] \in {"expired", "nolink", "fail"}
        /\ delivered' = delivered /\ Goto(j, "bump")
    BY <1>3, ClaimIsPair DEF WriteError, At, worldVars, Agents
  <2>1. PICK r \in {errorRow(row[j[1]], TRUE), errorRow(row[j[1]], IsFinal(j[2]))} : Write(j, r)
    BY <1>3 DEF WriteError
  <2>2. r.status # "sent"
    <3>1. row[j[1]] \in Rows
      BY <2>0, <1>0
    <3>2. errorRow(row[j[1]], TRUE).status = "error"
      BY <3>1 DEF errorRow, Rows
    <3>3. errorRow(row[j[1]], IsFinal(j[2])).status \in {"error", "pending"}
      BY <3>1 DEF errorRow, Rows
    <3> QED BY <3>2, <3>3
  <2>3. row'[j[1]].status # "sent" /\ \A m \in Messages : m # j[1] => row'[m] = row[m]
    BY <2>0, <2>1, <2>2, <1>0 DEF Write
  <2>4. \A i \in Claims : step'[i] = IF i = j THEN "bump" ELSE step[i]
    BY <2>0, <1>0 DEF Goto, Agents
  <2>5. \A m \in Messages : Recording(m) => Recording(m)'
    BY <2>0, <2>4 DEF Recording
  <2>6. j[1] \notin slow => row[j[1]].status # "sent"
    BY <1>3, WriterIsInPlay DEF JobStep
  <2> QED BY <1>0, <2>0, <2>3, <2>4, <2>5, <2>6 DEF Deliveries
<1>4. CASE /\ delivered' = delivered
           /\ \A m \in Messages : row'[m].status = "sent" <=> row[m].status = "sent"
           /\ \A j \in Claims :
                /\ step'[j] = "record" => step[j] = "record"
                /\ step[j] = "record" /\ j[1] \notin doubtful' => step'[j] = "record"
  <2>1. \A m \in Messages : m \notin doubtful' /\ Recording(m) => Recording(m)'
    BY <1>4 DEF Recording
  <2> QED BY <1>0, <1>4, <2>1 DEF Deliveries
<1> QED BY <1>1, <1>2, <1>3, <1>4, DeliveryMoves

-----------------------------------------------------------------------------
(* Verdicts.                                                               *)

(* Counts of all the messages say what all the messages are.               *)
LEMMA CountsAreTrue ==
  ASSUME TypeOK, \A m \in Messages : row[m].status # "none"
  PROVE  Judged(Verdict(Count))
<1> DEFINE Of(S) == {m \in Messages : row[m].status \in S}
           A == Of(Statuses \ {"none"})
           S == Of({"sent"})
           E == Of({"error"})
<1>1. A = Messages /\ S \subseteq A /\ E \subseteq A /\ S \cap E = {}
  BY DEF TypeOK, Rows, Statuses
<1>2. IsFiniteSet(A) /\ IsFiniteSet(S) /\ IsFiniteSet(E) /\ IsFiniteSet(S \cup E)
  BY CountsAreNumbers, FS_Union
<1>3. Cardinality(A) \in Nat /\ Cardinality(S) \in Nat /\ Cardinality(E) \in Nat
  BY <1>2, FS_CardinalityType
<1>4. Cardinality(S \cup E) = Cardinality(S) + Cardinality(E)
  <2> HIDE DEF A, S, E
  <2>1. Cardinality(S \cap E) = 0
    BY <1>1, FS_EmptySet
  <2>2. Cardinality(S \cup E) = Cardinality(S) + Cardinality(E) - Cardinality(S \cap E)
    BY <1>2, FS_Union
  <2> QED BY <2>1, <2>2, <1>3
<1>5. Cardinality(A) = Cardinality(S) + Cardinality(E) => A = S \cup E
  BY <1>1, <1>2, <1>4, FS_Subset
<1>6. Cardinality(E) = 0 <=> E = {}
  BY <1>2, FS_EmptySet
<1>7. Verdict(Count) = IF Cardinality(A) # Cardinality(S) + Cardinality(E) THEN "running"
                       ELSE IF Cardinality(E) > 0 THEN "error" ELSE "completed"
  BY DEF Verdict, Count, WithStatus
<1>8. Verdict(Count) = "completed" => A = S
  BY <1>3, <1>5, <1>6, <1>7
<1>9. Verdict(Count) = "error" => A = S \cup E /\ E # {}
  BY <1>3, <1>5, <1>6, <1>7
<1> QED BY <1>1, <1>8, <1>9 DEF Judged, AllSent, AllEnded, Final

LEMMA JudgementStays ==
  ASSUME TypeOK, Structure, LatestInPlay, [Next]_vars
  PROVE  (AllSent => AllSent') /\ (AllEnded => AllEnded')
<1>1. slow \subseteq slow'
  BY TimePasses
<1>2. \A m \in Messages \ slow : row[m].status \in Final => row'[m] = row[m]
  BY OutcomeStays
<1> QED BY <1>1, <1>2 DEF AllSent, AllEnded, Final

LEMMA VerdictsStay ==
  ASSUME TypeOK, Structure, LatestInPlay, Verdicts, [Next]_vars
  PROVE  Verdicts'
<1>0. /\ step \in [Agents -> Steps] /\ seen \in [Agents -> Counts] /\ Creator \in Agents
      /\ Claims \subseteq Agents
  BY DEF TypeOK, Agents
<1>1. ASSUME NEW b \in Agents, ReadCounts(b) PROVE Verdicts'
  <2>1. \A m \in Messages : row[m].status # "none"
    <3>1. CASE b = Creator
      BY <1>1, <3>1 DEF ReadCounts, Bumping, Structure, Inserted
    <3>2. CASE b # Creator
      <4>1. b \in Taken
        BY <1>1, <3>2 DEF ReadCounts, Bumping, At, Taken
      <4> QED BY <4>1, ClaimedAreInserted DEF Structure
    <3> QED BY <3>1, <3>2
  <2>2. Judged(Verdict(Count))
    BY <2>1, CountsAreTrue
  <2>3. /\ row' = row /\ slow' = slow /\ campaign' = campaign
        /\ seen' = [seen EXCEPT ![b] = Count] /\ step' = [step EXCEPT ![b] = "tally"]
    BY <1>1 DEF ReadCounts, Goto, worldVars
  <2>4. \A c \in Agents : step'[c] = "tally" => c = b \/ (step[c] = "tally" /\ seen'[c] = seen[c])
    BY <2>3, <1>0
  <2>5. seen'[b] = Count
    BY <2>3, <1>0
  <2> QED BY <2>2, <2>3, <2>4, <2>5 DEF Verdicts, Judged, AllSent, AllEnded, Verdict
<1>2. ASSUME ~\E b \in Agents : ReadCounts(b)
      PROVE  /\ campaign' \in {campaign, "running"} \cup {Verdict(seen[b]) : b \in {c \in Agents : step[c] = "tally"}}
             /\ \A c \in Agents : step'[c] = "tally" => step[c] = "tally" /\ seen'[c] = seen[c]
  <2> DEFINE Kept == \A c \in Agents : step'[c] = "tally" => step[c] = "tally" /\ seen'[c] = seen[c]
  <2>1. ASSUME NEW b \in Agents, NEW s \in Steps \ {"tally"}, Goto(b, s),
               seen' = seen \/ seen' = [seen EXCEPT ![b] = NoCounts]
        PROVE  Kept
    BY <2>1, <1>0 DEF Goto
  <2>2. CASE Insert
    BY <2>2, <2>1, <1>0 DEF Insert, Steps
  <2>3. CASE Claim
    BY <2>3 DEF Claim
  <2>4. ASSUME NEW j \in Claims, Enqueue(j) PROVE Kept /\ campaign' = campaign
    BY <2>4 DEF Enqueue
  <2>5. CASE Begin
    <3>1. Head(waiting) \in Agents
      BY <2>5, LineShifted, <1>0 DEF Begin, Queue!Start, TypeOK, Queue!JobsTypeOK
    <3> QED BY <2>5, <3>1, <2>1 DEF Begin, Steps, Working
  <2>6. ASSUME NEW j \in Claims, JobStep(j) PROVE Kept /\ campaign' = campaign
    <3>1. PICK s \in Steps \ {"tally"} : Goto(j, s)
      BY <2>6 DEF JobStep, CheckWindow, Runtime, pickConnection, Send, Record, WriteError, Steps, Working
    <3>2. UNCHANGED <<campaign, seen>>
      BY <2>6 DEF JobStep, CheckWindow, Runtime, Send, Record, WriteError
    <3> QED BY <3>1, <3>2, <2>1, <1>0
  <2>7. ASSUME NEW b \in Agents, WriteVerdict(b)
        PROVE  Kept /\ campaign' = Verdict(seen[b]) /\ step[b] = "tally"
    <3>1. step[b] = "tally"
      BY <2>7 DEF WriteVerdict, Bumping, At
    <3> QED BY <2>7, <3>1, <2>1 DEF WriteVerdict, Steps
  <2>8. ASSUME NEW b \in Agents, DbFails(b) PROVE Kept /\ campaign' = campaign
    <3>1. PICK s \in {"fail", "bump", "done"} : Goto(b, s)
      BY <2>8 DEF DbFails
    <3>2. seen' = seen \/ seen' = [seen EXCEPT ![b] = NoCounts]
      BY <2>8 DEF DbFails
    <3> QED BY <2>8, <3>1, <3>2, <2>1 DEF DbFails, Steps, Working
  <2>9. CASE Crash
    BY <2>9, <1>0 DEF Crash
  <2>10. ASSUME NEW m \in Messages, FallsDue(m) \/ LeaseRunsOut(m) PROVE Kept /\ campaign' = campaign
    BY <2>10 DEF FallsDue, LeaseRunsOut
  <2>11. CASE WindowCloses \/ UNCHANGED vars
    BY <2>11 DEF WindowCloses, vars
  <2> QED
    BY <1>2, <2>2, <2>3, <2>4, <2>5, <2>6, <2>7, <2>8, <2>9, <2>10, <2>11
    DEF Next, Agents, Insert, Claim, Begin, Crash
<1>3. CASE ~\E b \in Agents : ReadCounts(b)
  <2>1. (AllSent => AllSent') /\ (AllEnded => AllEnded')
    BY JudgementStays
  <2>2. Judged(campaign)'
    BY <1>2, <1>3, <2>1 DEF Verdicts, Judged
  <2>3. ASSUME NEW b \in Agents, step'[b] = "tally" PROVE Judged(Verdict(seen[b]))'
    <3>1. seen'[b] = seen[b] /\ Judged(Verdict(seen[b]))
      BY <1>2, <1>3, <2>3 DEF Verdicts
    <3>2. Verdict(seen'[b]) = Verdict(seen[b])
      BY <3>1
    <3> QED BY <3>1, <3>2, <2>1 DEF Judged
  <2> QED BY <2>2, <2>3 DEF Verdicts
<1> QED BY <1>1, <1>3

-----------------------------------------------------------------------------
(* Retries.                                                                *)
LEMMA RetriesStay ==
  ASSUME TypeOK, Structure, LatestInPlay, Lapsing, AttemptsCounted, RetriesSpent, [Next]_vars
  PROVE  AttemptsCounted' /\ RetriesSpent'
<1>0. /\ row \in [Messages -> Rows] /\ step \in [Agents -> Steps]
      /\ \A m \in Messages : row[m] \in Rows /\ row[m].attempts \in Nat
      /\ lapsed \subseteq lapsed' /\ slow \subseteq lapsed /\ (open' => open)
      /\ Creator \in Agents /\ Creator \notin Claims /\ Claims \subseteq Agents
      /\ MaxAttempts \in Nat \ {0}
  BY TimePasses, BroadcastAssumption DEF TypeOK, Agents, Claims, Rows
<1> DEFINE Kept == \A m \in Messages :
             row'[m].attempts = row[m].attempts /\ row'[m].status = row[m].status
           Windows == \A j \in Claims : step'[j] = "expired" => step[j] = "expired" \/ ~open
<1>1. ASSUME Kept, Windows PROVE AttemptsCounted' /\ RetriesSpent'
  BY <1>0, <1>1 DEF AttemptsCounted, RetriesSpent
<1>2. ASSUME NEW b \in Agents, NEW s \in Steps \ {"expired"}, Goto(b, s) PROVE Windows
  BY <1>0, <1>2 DEF Goto
<1>3. CASE Insert
  <2>1. \A m \in Messages : row'[m].status = "pending" /\ row'[m].attempts = 0
    BY <1>3 DEF Insert
  <2>2. Windows
    BY <1>3, <1>2, <1>0 DEF Insert, Steps
  <2> QED BY <2>1, <2>2, <1>0 DEF AttemptsCounted, RetriesSpent
<1>4. CASE Claim
  <2>1. PICK S \in SUBSET {m \in Messages : Claimable(m) /\ row[m].attempts < MaxClaims} :
          row' = [m \in Messages |->
                       IF m \in S THEN [status |-> "sending", attempts |-> row[m].attempts + 1,
                                        due |-> row[m].due, old |-> FALSE]
                       ELSE row[m]]
    BY <1>4 DEF Claim
  <2>2. UNCHANGED <<step, lapsed, open>>
    BY <1>4 DEF Claim, worldVars
  <2>3. ASSUME NEW m \in S, m \notin lapsed PROVE row[m].attempts < MaxAttempts
    <3>1. row[m].status = "pending"
      BY <2>3 DEF Claimable, Lapsing
    <3> QED BY <3>1, <2>3 DEF AttemptsCounted
  <2>4. \A m \in S : row'[m].status = "sending" /\ row'[m].attempts = row[m].attempts + 1
    BY <2>1
  <2>5. \A m \in Messages \ S : row'[m] = row[m]
    BY <2>1
  <2>6. AttemptsCounted'
    BY <2>2, <2>4, <2>5 DEF AttemptsCounted
  <2>7. RetriesSpent'
    BY <2>2, <2>3, <2>4, <2>5, <1>0 DEF RetriesSpent
  <2> QED BY <2>6, <2>7
<1>5. ASSUME NEW j \in Claims, Enqueue(j) PROVE Kept /\ Windows
  BY <1>5 DEF Enqueue
<1>6. CASE Begin
  <2>1. Head(waiting) \in Agents
    BY <1>6, LineShifted, <1>0 DEF Begin, Queue!Start, TypeOK, Queue!JobsTypeOK
  <2> QED BY <1>6, <2>1, <1>1, <1>2 DEF Begin, Steps, Working
<1>7. ASSUME NEW j \in Claims, CheckWindow(j) PROVE Kept /\ Windows
  <2>1. CASE open
    BY <1>7, <2>1, <1>2, <1>0 DEF CheckWindow, Steps, Working
  <2>2. CASE ~open
    BY <1>7, <2>2 DEF CheckWindow
  <2> QED BY <2>1, <2>2
<1>8. ASSUME NEW j \in Claims, Runtime(j) \/ Send(j) PROVE Kept /\ Windows
  <2>1. PICK s \in Steps \ {"expired"} : Goto(j, s)
    BY <1>8 DEF Runtime, Send, pickConnection, Steps, Working
  <2> QED BY <2>1, <1>8, <1>2, <1>0 DEF Runtime, Send
<1>9. ASSUME NEW j \in Claims, Record(j) PROVE AttemptsCounted' /\ RetriesSpent'
  <2>1. j[1] \in Messages /\ Write(j, sentRow(row[j[1]])) /\ UNCHANGED <<lapsed, open>>
    BY <1>9, ClaimIsPair DEF Record, worldVars
  <2>2. sentRow(row[j[1]]).status = "sent" /\ sentRow(row[j[1]]).attempts = row[j[1]].attempts
    BY <2>1, <1>0 DEF sentRow, Rows
  <2>3. /\ row'[j[1]].status = "sent" /\ row'[j[1]].attempts = row[j[1]].attempts
        /\ \A m \in Messages : m # j[1] => row'[m] = row[m]
    BY <2>1, <2>2, <1>0 DEF Write
  <2>4. Windows
    BY <1>9, <1>2, <1>0 DEF Record, Steps
  <2> QED BY <2>1, <2>3, <2>4, <1>0 DEF AttemptsCounted, RetriesSpent
<1>10. ASSUME NEW j \in Claims, WriteError(j) PROVE AttemptsCounted' /\ RetriesSpent'
  <2>1. /\ j[1] \in Messages /\ j[2] \in Nat /\ UNCHANGED <<lapsed, open>>
        /\ j[2] <= row[j[1]].attempts
        /\ j[1] \notin lapsed => row[j[1]].attempts = j[2]
    BY <1>10, <1>0, ClaimIsPair, WriterIsInPlay DEF WriteError, JobStep, worldVars
  <2>2. PICK f \in BOOLEAN :
          /\ Write(j, errorRow(row[j[1]], f))
          /\ f => ~open \/ j[2] >= MaxAttempts
          /\ ~f => j[2] < MaxAttempts
    <3>1. CASE At(j, "expired") /\ Write(j, errorRow(row[j[1]], TRUE))
      <4>1. ~open
        BY <3>1 DEF At, AttemptsCounted
      <4> QED BY <3>1, <4>1
    <3>2. CASE Write(j, errorRow(row[j[1]], IsFinal(j[2])))
      <4>1. IsFinal(j[2]) \in BOOLEAN /\ (IsFinal(j[2]) <=> j[2] >= MaxAttempts)
        BY DEF IsFinal
      <4> QED BY <3>2, <4>1, <2>1, <1>0
    <3> QED BY <1>10, <3>1, <3>2 DEF WriteError
  <2>3. /\ errorRow(row[j[1]], f).status = IF f THEN "error" ELSE "pending"
        /\ errorRow(row[j[1]], f).attempts = row[j[1]].attempts
    <3>1. row[j[1]] \in Rows
      BY <2>1, <1>0
    <3> QED BY <3>1 DEF errorRow, Rows
  <2>4. /\ row'[j[1]].status = IF f THEN "error" ELSE "pending"
        /\ row'[j[1]].attempts = row[j[1]].attempts
        /\ \A m \in Messages : m # j[1] => row'[m] = row[m]
    BY <2>1, <2>2, <2>3, <1>0 DEF Write
  <2>5. Windows
    BY <1>10, <1>2, <1>0 DEF WriteError, Steps
  <2>6. AttemptsCounted'
    BY <2>1, <2>2, <2>4, <2>5, <1>0 DEF AttemptsCounted
  <2>7. RetriesSpent'
    BY <2>1, <2>2, <2>4, <1>0 DEF RetriesSpent
  <2> QED BY <2>6, <2>7
<1>11. ASSUME NEW b \in Agents, ReadCounts(b) \/ WriteVerdict(b) PROVE Kept /\ Windows
  BY <1>11, <1>2 DEF ReadCounts, WriteVerdict, Steps
<1>12. ASSUME NEW b \in Agents, DbFails(b) PROVE Kept /\ Windows
  <2>1. PICK s \in {"fail", "bump", "done"} : Goto(b, s)
    BY <1>12 DEF DbFails
  <2> QED BY <2>1, <1>12, <1>2 DEF DbFails, Steps, Working
<1>13. CASE Crash
  BY <1>13, <1>0, <1>1 DEF Crash
<1>14. ASSUME NEW m \in Messages, FallsDue(m) \/ LeaseRunsOut(m) PROVE Kept /\ Windows
  <2>1. row' = [row EXCEPT ![m].due = TRUE] \/ row' = [row EXCEPT ![m].old = TRUE]
    BY <1>14 DEF FallsDue, LeaseRunsOut
  <2>2. Kept
    BY <2>1, <1>0 DEF Rows
  <2> QED BY <2>2, <1>14 DEF FallsDue, LeaseRunsOut
<1>15. CASE WindowCloses \/ UNCHANGED vars
  BY <1>15, <1>1 DEF WindowCloses, vars
<1> QED
  BY <1>1, <1>3, <1>4, <1>5, <1>6, <1>7, <1>8, <1>9, <1>10, <1>11, <1>12, <1>13, <1>14, <1>15
  DEF Next, JobStep, Agents

-----------------------------------------------------------------------------
(* The invariant holds, and what it says.                                  *)
LEMMA InitInv == Init => Inv
<1> SUFFICES ASSUME Init PROVE Inv
  OBVIOUS
<1>0. /\ Creator \notin Claims /\ NoCounts \in Counts /\ MaxAttempts \in Nat \ {0}
      /\ step = [j \in Agents |-> IF j = Creator THEN "insert" ELSE "idle"]
      /\ Line(waiting) = {} /\ Distinct(waiting)
  BY BroadcastAssumption DEF Init, Claims, NoCounts, Counts, Agents, Line, Distinct
<1>1. TypeOK
  <2>1. row \in [Messages -> Rows]
    BY BroadcastAssumption DEF Init, Rows, Statuses
  <2>2. step \in [Agents -> Steps] /\ seen \in [Agents -> Counts]
    BY <1>0 DEF Init, Steps, Agents
  <2>3. Queue!JobsTypeOK
    BY DEF Init, Queue!JobsTypeOK
  <2> QED BY <2>1, <2>2, <2>3 DEF Init, TypeOK, Agents
<1>2. Structure
  <2>1. Places
    BY <1>0 DEF Init, Places
  <2>2. StepsAgree
    BY <1>0 DEF Init, StepsAgree, Agents
  <2>3. Taken = {}
    BY <1>0 DEF Init, Taken
  <2>4. Inserted
    BY <1>0 DEF Init, Inserted, Agents
  <2> QED BY <2>1, <2>2, <2>3, <2>4 DEF Structure, Claimed
<1>3. LatestInPlay /\ Lapsing
  BY <1>0 DEF Init, LatestInPlay, Lapsing, InPlay, Working, Agents
<1>4. Deliveries
  BY <1>0 DEF Init, Deliveries, Agents
<1>5. Verdicts
  BY <1>0 DEF Init, Verdicts, Judged
<1>6. AttemptsCounted /\ RetriesSpent
  BY <1>0 DEF Init, AttemptsCounted, RetriesSpent, Agents
<1> QED BY <1>1, <1>2, <1>3, <1>4, <1>5, <1>6 DEF Inv

(* The inductive invariant of a campaign: where its claims are, what is in *)
(* play, and what the rows, the deliveries and the counts say of it.       *)
THEOREM Invariant == Spec => []Inv
<1>1. Init => Inv
  BY InitInv
<1>2. Inv /\ [Next]_vars => Inv'
  <2> SUFFICES ASSUME Inv, [Next]_vars PROVE Inv'
    OBVIOUS
  <2>1. TypeOK' /\ Structure'
    BY TypesStay, StructureStays DEF Inv, Structure
  <2>2. LatestInPlay' /\ Lapsing'
    BY LatestStays, LapsingStays DEF Inv
  <2>3. Deliveries' /\ Verdicts'
    BY DeliveriesStay, VerdictsStay DEF Inv
  <2>4. AttemptsCounted' /\ RetriesSpent'
    BY RetriesStay DEF Inv
  <2> QED BY <2>1, <2>2, <2>3, <2>4 DEF Inv
<1> QED BY <1>1, <1>2, PTL DEF Spec

(* Type correctness of the campaign's rows, queue, jobs and counts.        *)
THEOREM TypesCorrect == Spec => []TypeOK
<1>1. Inv => TypeOK
  BY DEF Inv
<1> QED BY Invariant, <1>1, PTL

(* One job at a time works on a message, its latest claim's, and the row   *)
(* says `sending`, unless a lease ran out under a job.                     *)
THEOREM MessageHasOneWorker == Spec => []OneWorker
<1>1. Inv => OneWorker
  <2> SUFFICES ASSUME Inv, NEW m \in Messages \ slow, NEW j \in Works(m)
               PROVE  Works(m) = {j} /\ row[m].attempts = j[2] /\ row[m].status = "sending"
    BY DEF OneWorker
  <2>1. \A i \in Works(m) : /\ i \in Claims /\ i[1] = m
                            /\ row[m].attempts = i[2] /\ row[m].status = "sending"
    BY DEF Works, Inv, LatestInPlay, InPlay
  <2>2. \A i \in Works(m) : i = j
    BY <2>1, ClaimIsPair
  <2> QED BY <2>1, <2>2
<1> QED BY Invariant, <1>1, PTL

(* Nobody gets the message twice, unless a lease ran out under a job or    *)
(* the row never learnt of a delivery.                                     *)
THEOREM MessageComesOnce == Spec => []DeliveredOnce
<1>1. Inv => DeliveredOnce
  BY DEF Inv, Deliveries, DeliveredOnce
<1> QED BY Invariant, <1>1, PTL

(* A campaign is called completed only when all its messages are out, and  *)
(* failed only when all have an outcome and one has failed.                *)
THEOREM VerdictNeverEarly == Spec => []VerdictIsTrue
<1>1. Inv => VerdictIsTrue
  BY DEF Inv, Verdicts, Judged, AllSent, AllEnded, Deliveries, VerdictIsTrue
<1> QED BY Invariant, <1>1, PTL

(* The retry counter means it: at most max_attempts claims without a       *)
(* lapsed lease, and no failure for good before them but by the window.    *)
THEOREM RetriesAreCounted == Spec => []RetriesSpent
<1>1. Inv => RetriesSpent
  BY DEF Inv
<1> QED BY Invariant, <1>1, PTL

(* The row of a message that has an outcome is not written again, unless   *)
(* two jobs had it.                                                        *)
THEOREM OutcomeStaysFinal == Spec => OutcomeIsFinal
<1>1. Inv /\ [Next]_vars =>
        [\A m \in Messages \ slow : row[m].status \in Final => row'[m] = row[m]]_vars
  BY OutcomeStays DEF Inv
<1> QED BY Invariant, <1>1, PTL DEF Spec, OutcomeIsFinal

-----------------------------------------------------------------------------
(* The warm-up.  A cycle under way has its process to itself.              *)
Active(c) == pc[c] \notin {"idle", "over"}

OnePerProcess ==
  /\ \A c \in Calls : Active(c) => engineRunning[home[c]]
  /\ \A c, d \in Calls : Active(c) /\ Active(d) /\ home[c] = home[d] => c = d

(* What a call has in each stage.  Nobody talks before the groups are made;*)
(* lines to be counted have been in a group, and all that have spoken are  *)
(* among them.                                                             *)
Waits(t) == t.group = {} /\ t.say = NoCall /\ t.mock = Nothing

CallSound(c) ==
  /\ ~Active(c) => todo[c] = {} /\ eligible[c] = {}
  /\ pc[c] # "talk" => tally[c] = Nothing /\ Waits(talk[c])
  /\ pc[c] \notin {"filter", "talk"} => todo[c] = {}
  /\ pc[c] \in {"idle", "filter", "over"} => plan[c] = {}
  /\ UNION plan[c] \subseteq eligible[c]
  /\ \A g, h \in plan[c] : g # h => g \cap h = {}
  /\ pc[c] = "talk" =>
       /\ todo[c] \subseteq eligible[c] /\ todo[c] \cap UNION plan[c] = {}
       /\ talk[c].group \subseteq todo[c]
       /\ \A l \in Lines \ todo[c] : tally[c][l] = 0
       /\ talk[c].group = {} => Waits(talk[c])

(* Nobody speaks twice in a row, so of the messages so far a line has half,*)
(* and half a one more if it was the last to speak.                        *)
Saying(c, l) == IF talk[c].say = l THEN 1 ELSE 0
LastWord(c, l) == IF talk[c].last = l THEN 1 ELSE 0
Said(c, l) == tally[c][l] + talk[c].mock[l] + Saying(c, l)

SpeechBound(c) ==
  \A l \in Lines :
    /\ l \in talk[c].group => 2 * Said(c, l) <= Turns - talk[c].left + LastWord(c, l)
    /\ l \notin talk[c].group => /\ 2 * tally[c][l] <= Turns + 1
                                 /\ talk[c].mock[l] = 0 /\ talk[c].say # l

(* The counter of a line and what a cycle has yet to count cover what the  *)
(* line sent; until a cycle counts it, it sends at most what the quota let *)
(* through and what the cycle has noted.                                   *)
Uncalled(l) == \A c \in Calls : l \notin eligible[c]
ToTalk(c, l) == l \in eligible[c] /\ (pc[c] # "talk" \/ l \in todo[c] \cup UNION plan[c])

LineSound(l) ==
  /\ \A c, d \in Calls : l \in eligible[c] /\ l \in eligible[d] => c = d
  /\ Uncalled(l) => sent[l] <= quota[l]
  /\ \A c \in Calls : l \in eligible[c] => sent[l] <= quota[l] + tally[c][l]
  /\ \A c \in Calls : ToTalk(c, l) => sent[l] <= Limit - 1 + tally[c][l]
  /\ sent[l] <= Limit - 1 + (Turns + 1) \div 2

CallsSound == \A c \in Calls : CallSound(c) /\ SpeechBound(c)
LinesSound == \A l \in Lines \ leaked : LineSound(l)

WarmupInv == WarmupTypeOK /\ OnePerProcess /\ CallsSound /\ LinesSound

-----------------------------------------------------------------------------
(* Types.                                                                  *)
LEMMA ConstantsAre ==
  /\ Limit \in Nat \ {0} /\ Turns \in Nat \ {0} /\ MaxTimes \in Nat
  /\ NoCall \notin Calls /\ NoCall \notin Lines
BY WarmupAssumption

LEMMA FirstIs == ASSUME NEW S, S # {} PROVE First(S) \in S
BY DEF First

LEMMA NothingTyped == Nothing \in [Lines -> Nat] /\ \A l \in Lines : Nothing[l] = 0
BY DEF Nothing

LEMMA NoTalkTyped == NoTalk \in Talks /\ Waits(NoTalk)
BY NothingTyped, ConstantsAre DEF NoTalk, Talks, Waits

LEMMA TalkFields ==
  ASSUME WarmupTypeOK, NEW c \in Calls
  PROVE  /\ talk[c] \in Talks /\ talk[c].group \subseteq Lines
         /\ talk[c].last \in Lines \cup {NoCall} /\ talk[c].left \in 0..Turns /\ talk[c].left \in Nat
         /\ talk[c].say \in Lines \cup {NoCall} /\ talk[c].tries \in Nat
         /\ talk[c].sim \in BOOLEAN /\ talk[c].mock \in [Lines -> Nat]
         /\ \A l \in Lines : tally[c][l] \in Nat /\ talk[c].mock[l] \in Nat
<1>1. talk[c] \in Talks /\ tally[c] \in [Lines -> Nat]
  BY DEF WarmupTypeOK
<1> QED BY <1>1, ConstantsAre DEF Talks

LEMMA TalkChanged ==
  ASSUME NEW t \in Talks, NEW g \in SUBSET Lines, NEW l \in Lines \cup {NoCall}, NEW n \in 0..Turns
  PROVE  /\ [t EXCEPT !.last = l, !.left = n] \in Talks
         /\ n = Turns => [t EXCEPT !.group = g, !.last = l, !.left = Turns] \in Talks
BY ConstantsAre DEF Talks

CallTyped ==
  /\ home \in [Calls -> Procs] /\ pc \in [Calls -> Stages]
  /\ todo \in [Calls -> SUBSET Lines] /\ eligible \in [Calls -> SUBSET Lines]
  /\ plan \in [Calls -> SUBSET SUBSET Lines] /\ talk \in [Calls -> Talks]
  /\ tally \in [Calls -> [Lines -> Nat]]

LEMMA StagesReached ==
  ASSUME WarmupTypeOK, NEW c \in Calls, NEW x \in Stages, Reach(c, x)
  PROVE  pc' \in [Calls -> Stages]
BY DEF WarmupTypeOK, Reach

LEMMA TalkTyped ==
  ASSUME WarmupTypeOK, NEW c \in Calls, NEW t \in Talks, talk' = [talk EXCEPT ![c] = t]
  PROVE  talk' \in [Calls -> Talks]
BY DEF WarmupTypeOK

LEMMA OverTyped ==
  ASSUME WarmupTypeOK, NEW c \in Calls, Over(c)
  PROVE  CallTyped' /\ engineRunning' \in [Procs -> BOOLEAN]
<1>1. pc' \in [Calls -> Stages]
  BY StagesReached DEF Over, Stages
<1>2. engineRunning' \in [Procs -> BOOLEAN]
  BY DEF Over, WarmupTypeOK
<1>3. talk' \in [Calls -> Talks]
  BY TalkTyped, NoTalkTyped DEF Over
<1> QED BY <1>1, <1>2, <1>3, NothingTyped DEF Over, WarmupTypeOK, CallTyped

LEMMA WarmupTypesKept == WarmupTypeOK /\ [WarmupNext]_warmupVars => WarmupTypeOK'
<1> SUFFICES ASSUME WarmupTypeOK, [WarmupNext]_warmupVars PROVE WarmupTypeOK'
  OBVIOUS
<1>0. CallTyped
  BY DEF WarmupTypeOK, CallTyped
<1>1. CASE UNCHANGED warmupVars
  BY <1>1 DEF warmupVars, redis, engine, call, world, WarmupTypeOK
<1>2. ASSUME NEW c \in Calls, runCycle(c) PROVE WarmupTypeOK'
  <2>1. pc' \in [Calls -> Stages]
    BY <1>2, StagesReached DEF runCycle, Stages
  <2>2. todo' \in [Calls -> SUBSET Lines] /\ engineRunning' \in [Procs -> BOOLEAN]
    BY <1>2 DEF runCycle, WarmupTypeOK
  <2> QED BY <2>1, <2>2, <1>2 DEF runCycle, redis, world, WarmupTypeOK
<1>3. ASSUME NEW c \in Calls, filterEligible(c) PROVE WarmupTypeOK'
  <2>1. First(todo[c]) \in Lines
    BY <1>3, FirstIs DEF filterEligible, WarmupTypeOK
  <2>2. todo' \in [Calls -> SUBSET Lines]
    BY <1>3 DEF filterEligible, WarmupTypeOK
  <2>3. eligible' \in [Calls -> SUBSET Lines] /\ leaked' \subseteq Lines
    <3> DEFINE l == First(todo[c])
    <3>1. /\ eligible' = eligible \/ eligible' = [eligible EXCEPT ![c] = eligible[c] \cup {l}]
          /\ leaked' = leaked \/ leaked' = leaked \cup {l}
      BY <1>3 DEF filterEligible
    <3> HIDE DEF l
    <3>2. l \in Lines
      BY <2>1 DEF l
    <3>3. eligible[c] \cup {l} \subseteq Lines
      BY <3>2 DEF WarmupTypeOK
    <3>4. eligible' \in [Calls -> SUBSET Lines]
      <4> DEFINE S == eligible[c] \cup {l}
      <4>1. S \in SUBSET Lines
        BY <3>3
      <4>2. eligible' = eligible \/ eligible' = [eligible EXCEPT ![c] = S]
        BY <3>1
      <4> HIDE DEF S
      <4> QED BY <4>1, <4>2 DEF WarmupTypeOK
    <3> QED BY <3>1, <3>2, <3>4 DEF WarmupTypeOK
  <2> QED BY <2>2, <2>3, <1>3 DEF filterEligible, redis, engine, WarmupTypeOK
<1>4. ASSUME NEW c \in Calls, runGroups(c) PROVE WarmupTypeOK'
  <2>0. UNCHANGED <<quota, rested, recent, used, disabled, failures, simulate, world>>
    BY <1>4 DEF runGroups
  <2>1. CASE Over(c) /\ UNCHANGED lock
    BY <2>0, <2>1, OverTyped DEF world, WarmupTypeOK, CallTyped
  <2>2. CASE /\ lock' = c /\ Reach(c, "plan")
             /\ talk' = [talk EXCEPT ![c].sim = simulate[home[c]]]
             /\ UNCHANGED <<engineRunning, home, todo, eligible, plan, tally>>
    <3>1. simulate[home[c]] \in BOOLEAN
      BY DEF WarmupTypeOK
    <3>2. [talk[c] EXCEPT !.sim = simulate[home[c]]] \in Talks
      BY <3>1, TalkFields DEF Talks
    <3>3. talk' = [talk EXCEPT ![c] = [talk[c] EXCEPT !.sim = simulate[home[c]]]]
      BY <2>2 DEF WarmupTypeOK
    <3>4. talk' \in [Calls -> Talks]
      BY <3>2, <3>3, TalkTyped
    <3>5. pc' \in [Calls -> Stages]
      BY <2>2, StagesReached DEF Stages
    <3> QED BY <2>0, <2>2, <3>4, <3>5 DEF world, WarmupTypeOK
  <2> QED BY <2>1, <2>2, <1>4 DEF runGroups
<1>5. ASSUME NEW c \in Calls, buildGroupCandidate(c) PROVE WarmupTypeOK'
  <2>1. \A g \in SUBSET (eligible[c] \ UNION plan[c]) : plan[c] \cup {g} \in SUBSET SUBSET Lines
    BY DEF WarmupTypeOK
  <2>2. plan' \in [Calls -> SUBSET SUBSET Lines]
    <3>1. \/ UNCHANGED plan
          \/ \E g \in SUBSET (eligible[c] \ UNION plan[c]) : plan' = [plan EXCEPT ![c] = @ \cup {g}]
      BY <1>5 DEF buildGroupCandidate
    <3>2. ASSUME NEW g \in SUBSET (eligible[c] \ UNION plan[c]), plan' = [plan EXCEPT ![c] = @ \cup {g}]
          PROVE  plan' \in [Calls -> SUBSET SUBSET Lines]
      <4>1. plan[c] \cup {g} \in SUBSET SUBSET Lines
        BY <2>1
      <4> QED BY <3>2, <4>1 DEF WarmupTypeOK
    <3> QED BY <3>1, <3>2 DEF WarmupTypeOK
  <2>3. pc' \in [Calls -> Stages]
    BY <1>5, StagesReached DEF buildGroupCandidate, WarmupTypeOK, Stages
  <2> QED BY <2>2, <2>3, <1>5 DEF buildGroupCandidate, redis, engine, world, WarmupTypeOK
<1>6. ASSUME NEW c \in Calls, persistGroups(c) PROVE WarmupTypeOK'
  <2>1. pc' \in [Calls -> Stages]
    BY <1>6, StagesReached DEF persistGroups, Stages
  <2>2. plan[c] \in SUBSET SUBSET Lines
    BY DEF WarmupTypeOK
  <2>3. \A g \in plan[c] : Pairs(g) \subseteq SUBSET Lines
    BY <2>2 DEF Pairs
  <2>4. used' \subseteq SUBSET Lines
    BY <2>2, <1>6 DEF persistGroups, WarmupTypeOK
  <2>5. recent' \subseteq SUBSET Lines
    BY <2>3, <1>6 DEF persistGroups, WarmupTypeOK
  <2> QED BY <2>1, <2>4, <2>5, <1>6 DEF persistGroups, engine, world, WarmupTypeOK
<1>7. ASSUME NEW c \in Calls, GetLock(c) \/ DelLock(c) PROVE WarmupTypeOK'
  <2>1. pc' \in [Calls -> Stages]
    BY <1>7, StagesReached DEF GetLock, DelLock, Stages
  <2> QED BY <2>1, <1>7 DEF GetLock, DelLock, redis, engine, world, WarmupTypeOK
<1>8. ASSUME NEW c \in Calls, runConversation(c) PROVE WarmupTypeOK'
  <2>1. PICK g \in plan[c] :
          /\ plan' = [plan EXCEPT ![c] = @ \ {g}]
          /\ todo' = [todo EXCEPT ![c] = @ \cup g]
          /\ talk' \in {talk, [talk EXCEPT ![c].group = g, ![c].last = NoCall, ![c].left = Turns]}
    BY <1>8 DEF runConversation
  <2>2. g \subseteq Lines
    BY DEF WarmupTypeOK
  <2>3. [talk[c] EXCEPT !.group = g, !.last = NoCall, !.left = Turns] \in Talks
    <3>1. Turns \in 0..Turns /\ NoCall \in Lines \cup {NoCall} /\ g \in SUBSET Lines
      BY <2>2, ConstantsAre
    <3> QED BY <3>1, TalkFields, TalkChanged
  <2>4. talk' \in [Calls -> Talks]
    BY <2>1, <2>3 DEF WarmupTypeOK
  <2>5. plan' \in [Calls -> SUBSET SUBSET Lines] /\ todo' \in [Calls -> SUBSET Lines]
    BY <2>1, <2>2 DEF WarmupTypeOK
  <2> QED BY <2>4, <2>5, <1>8 DEF runConversation, redis, engine, world, WarmupTypeOK
<1>9. ASSUME NEW c \in Calls, Say(c) PROVE WarmupTypeOK'
  <2>1. PICK l \in Speakers(c) :
          LET t == [talk[c] EXCEPT !.last = l, !.left = @ - 1] IN
          talk' = [talk EXCEPT ![c] = IF Simulated(c) THEN [t EXCEPT !.mock[l] = @ + 1]
                                      ELSE [t EXCEPT !.say = l, !.tries = 1]]
    BY <1>9 DEF Say
  <2> DEFINE t == [talk[c] EXCEPT !.last = l, !.left = @ - 1]
  <2>2. l \in Lines /\ talk[c].left > 0
    BY <1>9, TalkFields DEF Speakers, Say
  <2>3. t \in Talks
    <3>1. talk[c].left - 1 \in 0..Turns
      BY <2>2, TalkFields, ConstantsAre
    <3> QED BY <2>2, <3>1, TalkFields, TalkChanged
  <2>4. talk' = [talk EXCEPT ![c] = IF Simulated(c) THEN [t EXCEPT !.mock[l] = @ + 1]
                                    ELSE [t EXCEPT !.say = l, !.tries = 1]]
    BY <2>1
  <2> HIDE DEF t
  <2>5. [t EXCEPT !.say = l, !.tries = 1] \in Talks
    BY <2>2, <2>3 DEF Talks
  <2>6. [t EXCEPT !.mock[l] = @ + 1] \in Talks
    BY <2>2, <2>3 DEF Talks
  <2>7. talk' \in [Calls -> Talks]
    BY <2>4, <2>5, <2>6 DEF WarmupTypeOK
  <2> QED BY <2>7, <1>9 DEF Say, redis, engine, world, WarmupTypeOK
<1>10. ASSUME NEW c \in Calls, NEW l \in Lines
       PROVE  [sent EXCEPT ![l] = @ + 1] \in [Lines -> Nat]
  BY DEF WarmupTypeOK
<1>11. ASSUME NEW c \in Calls, Deliver(c) PROVE WarmupTypeOK'
  <2>1. talk[c].say \in Lines
    BY <1>11, TalkFields DEF Deliver
  <2>2. [talk[c] EXCEPT !.say = NoCall] \in Talks
    BY TalkFields DEF Talks
  <2>3. talk' = [talk EXCEPT ![c] = [talk[c] EXCEPT !.say = NoCall]]
    BY <1>11 DEF Deliver, WarmupTypeOK
  <2>4. talk' \in [Calls -> Talks]
    BY <2>2, <2>3, TalkTyped
  <2>5. tally' \in [Calls -> [Lines -> Nat]]
    BY <2>1, <1>11 DEF Deliver, WarmupTypeOK
  <2>6. sent' \in [Lines -> Nat] /\ failures' \in [Procs -> Nat]
    BY <2>1, <1>10, <1>11 DEF Deliver, WarmupTypeOK
  <2> QED BY <2>4, <2>5, <2>6, <1>11 DEF Deliver, redis, WarmupTypeOK
<1>12. ASSUME NEW c \in Calls, DeliverFails(c) PROVE WarmupTypeOK'
  <2> DEFINE l == talk[c].say
  <2>1. l \in Lines
    BY <1>12, TalkFields DEF DeliverFails
  <2>2. PICK out \in BOOLEAN :
          /\ sent' = IF out THEN [sent EXCEPT ![l] = @ + 1] ELSE sent
          /\ \/ /\ talk[c].tries < Attempts
                /\ talk' = [talk EXCEPT ![c].tries = @ + 1]
                /\ leaked' = IF out THEN leaked \cup {l} ELSE leaked
                /\ UNCHANGED <<engineRunning, disabled, failures, home, pc, todo, eligible, plan, tally>>
             \/ /\ failures' = [failures EXCEPT ![home[c]] = @ + 1]
                /\ disabled' = [disabled EXCEPT ![home[c]] = failures[home[c]] + 1 >= FailLimit]
                /\ leaked' = leaked \cup Uncounted(c) \cup IF out THEN {l} ELSE {}
                /\ Over(c)
    BY <1>12 DEF DeliverFails
  <2>3. UNCHANGED <<redis, simulate, times>>
    BY <1>12 DEF DeliverFails
  <2>4. sent' \in [Lines -> Nat]
    BY <2>1, <2>2, <1>10 DEF WarmupTypeOK
  <2>5. CASE /\ talk' = [talk EXCEPT ![c].tries = @ + 1]
             /\ leaked' = IF out THEN leaked \cup {l} ELSE leaked
             /\ UNCHANGED <<engineRunning, disabled, failures, home, pc, todo, eligible, plan, tally>>
    <3>1. [talk[c] EXCEPT !.tries = @ + 1] \in Talks
      BY TalkFields DEF Talks
    <3>2. talk' = [talk EXCEPT ![c] = [talk[c] EXCEPT !.tries = @ + 1]]
      BY <2>5 DEF WarmupTypeOK
    <3>3. talk' \in [Calls -> Talks]
      BY <3>1, <3>2, TalkTyped
    <3>4. leaked' \subseteq Lines
      BY <2>1, <2>5 DEF WarmupTypeOK
    <3> QED BY <2>3, <2>4, <2>5, <3>3, <3>4 DEF redis, WarmupTypeOK
  <2>6. CASE /\ failures' = [failures EXCEPT ![home[c]] = @ + 1]
             /\ disabled' = [disabled EXCEPT ![home[c]] = failures[home[c]] + 1 >= FailLimit]
             /\ leaked' = leaked \cup Uncounted(c) \cup IF out THEN {l} ELSE {}
             /\ Over(c)
    <3>1. leaked' \subseteq Lines
      BY <2>1, <2>6 DEF WarmupTypeOK, Uncounted
    <3>2. failures' \in [Procs -> Nat]
      BY <2>6 DEF WarmupTypeOK
    <3>3. disabled' \in [Procs -> BOOLEAN]
      <4>1. (failures[home[c]] + 1 >= FailLimit) \in BOOLEAN
        OBVIOUS
      <4> HIDE DEF l
      <4> QED BY <2>6, <4>1, ZenonT(30) DEF WarmupTypeOK
    <3> QED BY <2>3, <2>4, <3>1, <3>2, <3>3, <2>6, OverTyped DEF redis, WarmupTypeOK, CallTyped
  <2> QED BY <2>2, <2>5, <2>6
<1>13. ASSUME NEW c \in Calls, EndTalk(c) PROVE WarmupTypeOK'
  <2>1. [talk[c] EXCEPT !.group = {}, !.mock = Nothing] \in Talks
    BY TalkFields, NothingTyped DEF Talks
  <2>2. talk' = [talk EXCEPT ![c] = [talk[c] EXCEPT !.group = {}, !.mock = Nothing]]
    BY <1>13 DEF EndTalk, WarmupTypeOK
  <2>3. talk' \in [Calls -> Talks]
    BY <2>1, <2>2, TalkTyped
  <2>4. [l \in Lines |-> tally[c][l] + IF Simulated(c) THEN talk[c].mock[l] ELSE 0] \in [Lines -> Nat]
    BY TalkFields
  <2>5. tally' \in [Calls -> [Lines -> Nat]]
    BY <2>4, <1>13 DEF EndTalk, WarmupTypeOK
  <2> QED BY <2>3, <2>5, <1>13 DEF EndTalk, redis, engine, world, WarmupTypeOK
<1>14. ASSUME NEW c \in Calls, CountLine(c) PROVE WarmupTypeOK'
  <2>0. UNCHANGED <<recent, used, lock, disabled, failures, simulate, world>>
    BY <1>14 DEF CountLine
  <2>1. CASE todo[c] = {}
    <3>1. Over(c) /\ UNCHANGED <<quota, rested>>
      BY <1>14, <2>1 DEF CountLine
    <3> QED BY <2>0, <3>1, OverTyped DEF world, WarmupTypeOK, CallTyped
  <2>2. CASE todo[c] # {}
    <3> DEFINE l == First(todo[c])
    <3>1. l \in Lines
      BY <2>2, FirstIs DEF WarmupTypeOK
    <3>2. /\ todo' = [todo EXCEPT ![c] = @ \ {l}]
          /\ quota' = [quota EXCEPT ![l] = @ + Counted(c, l)]
          /\ tally' = [tally EXCEPT ![c][l] = 0]
          /\ rested' = rested \ {l}
          /\ UNCHANGED <<engineRunning, home, pc, eligible, plan, talk>>
      BY <1>14, <2>2 DEF CountLine
    <3> HIDE DEF l
    <3>3. Counted(c, l) \in Nat
      BY <3>1, TalkFields DEF Counted
    <3> QED BY <2>0, <3>1, <3>2, <3>3 DEF world, WarmupTypeOK
  <2> QED BY <2>1, <2>2
<1>15. ASSUME NEW c \in Calls, Fails(c) PROVE WarmupTypeOK'
  <2>1. leaked' \subseteq Lines
    BY <1>15 DEF Fails, WarmupTypeOK, Uncounted
  <2> QED BY <2>1, <1>15, OverTyped DEF Fails, redis, WarmupTypeOK, CallTyped
<1>16. ASSUME NEW c \in Calls, PlanFails(c) PROVE WarmupTypeOK'
  <2>1. pc' \in [Calls -> Stages]
    BY <1>16, StagesReached DEF PlanFails, Stages
  <2> QED BY <2>1, <1>16 DEF PlanFails, redis, engine, world, WarmupTypeOK
<1>17. ASSUME NEW p \in Procs, SetSimulation(p) PROVE WarmupTypeOK'
  <2>1. simulate' \in [Procs -> BOOLEAN]
    BY <1>17, ZenonT(30) DEF SetSimulation, WarmupTypeOK
  <2>2. times' \in 0..MaxTimes
    BY <1>17, ConstantsAre DEF SetSimulation, WarmupTypeOK
  <2> QED BY <2>1, <2>2, <1>17 DEF SetSimulation, redis, call, WarmupTypeOK
<1>18. CASE Rest \/ LockExpires \/ LocalMidnight \/ UtcMidnight
  <2>1. times' \in 0..MaxTimes
    BY <1>18, ConstantsAre DEF Rest, LockExpires, LocalMidnight, UtcMidnight, WarmupTypeOK
  <2>2. recent' \subseteq SUBSET Lines /\ used' \subseteq SUBSET Lines
    BY <1>18 DEF Rest, LockExpires, LocalMidnight, UtcMidnight, WarmupTypeOK
  <2>3. quota' \in [Lines -> Nat] /\ sent' \in [Lines -> Nat] /\ leaked' \subseteq Lines
    BY <1>18, NothingTyped DEF Rest, LockExpires, LocalMidnight, UtcMidnight, WarmupTypeOK
  <2>4. rested' \subseteq Lines /\ lock' \in Calls \cup {NoCall}
    BY <1>18 DEF Rest, LockExpires, LocalMidnight, UtcMidnight, WarmupTypeOK
  <2>5. UNCHANGED <<engine, call>>
    BY <1>18 DEF Rest, LockExpires, LocalMidnight, UtcMidnight
  <2> QED BY <2>1, <2>2, <2>3, <2>4, <2>5 DEF engine, call, WarmupTypeOK
<1> QED
  BY <1>1, <1>2, <1>3, <1>4, <1>5, <1>6, <1>7, <1>8, <1>9, <1>11, <1>12, <1>13, <1>14, <1>15, <1>16,
     <1>17, <1>18 DEF WarmupNext, Cycle

-----------------------------------------------------------------------------
(* A step of a call is its own affair.                                     *)
LEMMA OthersStay ==
  ASSUME WarmupTypeOK, NEW c \in Calls, Cycle(c), NEW d \in Calls, d # c
  PROVE  /\ pc'[d] = pc[d] /\ todo'[d] = todo[d] /\ eligible'[d] = eligible[d]
         /\ plan'[d] = plan[d] /\ talk'[d] = talk[d] /\ tally'[d] = tally[d]
<1> USE DEF WarmupTypeOK
<1>1. ASSUME Over(c) PROVE /\ pc'[d] = pc[d] /\ todo'[d] = todo[d] /\ eligible'[d] = eligible[d]
                           /\ plan'[d] = plan[d] /\ talk'[d] = talk[d] /\ tally'[d] = tally[d]
  BY <1>1 DEF Over, Reach
<1>2. CASE runCycle(c) \/ filterEligible(c)
  BY <1>2 DEF runCycle, filterEligible, Reach
<1>3. CASE runGroups(c)
  BY <1>1, <1>3 DEF runGroups, Reach
<1>4. CASE buildGroupCandidate(c) \/ persistGroups(c) \/ GetLock(c) \/ DelLock(c) \/ PlanFails(c)
  BY <1>4 DEF buildGroupCandidate, persistGroups, GetLock, DelLock, PlanFails, Reach
<1>5. CASE runConversation(c) \/ Say(c) \/ Deliver(c) \/ EndTalk(c)
  BY <1>5 DEF runConversation, Say, Deliver, EndTalk
<1>6. CASE DeliverFails(c)
  BY <1>1, <1>6 DEF DeliverFails
<1>7. CASE CountLine(c)
  BY <1>1, <1>7 DEF CountLine
<1>8. CASE Fails(c)
  BY <1>1, <1>8 DEF Fails
<1> QED BY <1>2, <1>3, <1>4, <1>5, <1>6, <1>7, <1>8 DEF Cycle

LEMMA StageIs ==
  ASSUME WarmupTypeOK, NEW c \in Calls, Cycle(c)
  PROVE  /\ home' = home
         /\ \/ runCycle(c)
            \/ Active(c) /\ Over(c)
            \/ Active(c) /\ Active(c)' /\ engineRunning' = engineRunning
<1> USE DEF WarmupTypeOK, Active
<1>1. CASE filterEligible(c) \/ runGroups(c)
  BY <1>1 DEF filterEligible, runGroups, Over, Reach, engine
<1>2. CASE buildGroupCandidate(c) \/ persistGroups(c) \/ GetLock(c) \/ DelLock(c) \/ PlanFails(c)
  BY <1>2 DEF buildGroupCandidate, persistGroups, GetLock, DelLock, PlanFails, Reach, engine
<1>3. CASE runConversation(c) \/ Say(c) \/ Deliver(c) \/ EndTalk(c)
  BY <1>3 DEF runConversation, Say, Deliver, EndTalk, engine
<1>4. CASE DeliverFails(c)
  BY <1>4 DEF DeliverFails, Over
<1>5. CASE CountLine(c) \/ Fails(c)
  BY <1>5 DEF CountLine, Fails, Over
<1> QED BY <1>1, <1>2, <1>3, <1>4, <1>5 DEF Cycle, runCycle

LEMMA OnePerProcessStays == WarmupTypeOK /\ OnePerProcess /\ [WarmupNext]_warmupVars => OnePerProcess'
<1> SUFFICES ASSUME WarmupTypeOK, OnePerProcess, [WarmupNext]_warmupVars PROVE OnePerProcess'
  OBVIOUS
<1>1. ASSUME UNCHANGED <<engineRunning, home, pc>> PROVE OnePerProcess'
  BY <1>1 DEF OnePerProcess, Active
<1>2. ASSUME NEW c \in Calls, Cycle(c) PROVE OnePerProcess'
  <2>1. home' = home /\ \A d \in Calls : d # c => pc'[d] = pc[d]
    BY <1>2, StageIs, OthersStay
  <2>2. \A d \in Calls : d # c => (Active(d)' <=> Active(d))
    BY <2>1 DEF Active
  <2>3. CASE runCycle(c)
    <3>1. ~engineRunning[home[c]] /\ engineRunning' = [engineRunning EXCEPT ![home[c]] = TRUE]
      BY <2>3 DEF runCycle, MayRun
    <3>2. \A d \in Calls : Active(d) => home[d] # home[c]
      BY <3>1 DEF OnePerProcess
    <3>3. /\ engineRunning'[home[c]]
          /\ \A d \in Calls : home[d] # home[c] /\ engineRunning[home[d]] => engineRunning'[home[d]]
      BY <3>1 DEF WarmupTypeOK
    <3>4. \A d \in Calls : Active(d)' => engineRunning'[home[d]]
      BY <2>2, <3>2, <3>3 DEF OnePerProcess
    <3> QED BY <2>1, <2>2, <3>2, <3>4 DEF OnePerProcess
  <2>4. CASE Active(c) /\ Over(c)
    <3>1. engineRunning' = [engineRunning EXCEPT ![home[c]] = FALSE] /\ ~Active(c)'
      BY <2>4 DEF Over, Reach, Active, WarmupTypeOK
    <3>2. \A d \in Calls : d # c /\ Active(d) => home[d] # home[c]
      BY <2>4 DEF OnePerProcess
    <3>3. \A d \in Calls : home[d] # home[c] /\ engineRunning[home[d]] => engineRunning'[home[d]]
      BY <3>1 DEF WarmupTypeOK
    <3>4. \A d \in Calls : Active(d)' => engineRunning'[home[d]]
      BY <2>2, <3>1, <3>2, <3>3 DEF OnePerProcess
    <3> QED BY <2>1, <2>2, <3>1, <3>4 DEF OnePerProcess
  <2>5. CASE Active(c) /\ Active(c)' /\ engineRunning' = engineRunning
    <3>1. \A d \in Calls : Active(d)' <=> Active(d)
      BY <2>2, <2>5
    <3> QED BY <2>1, <2>5, <3>1 DEF OnePerProcess
  <2> QED BY <1>2, StageIs, <2>3, <2>4, <2>5
<1>3. ASSUME NEW p \in Procs, SetSimulation(p) PROVE OnePerProcess'
  BY <1>1, <1>3 DEF SetSimulation, call
<1>4. CASE Rest \/ LockExpires \/ LocalMidnight \/ UtcMidnight
  BY <1>1, <1>4 DEF Rest, LockExpires, LocalMidnight, UtcMidnight, engine, call
<1>5. CASE UNCHANGED warmupVars
  BY <1>1, <1>5 DEF warmupVars, engine, call
<1> QED BY <1>2, <1>3, <1>4, <1>5 DEF WarmupNext

-----------------------------------------------------------------------------
(* What a call has, step by step.                                          *)
LEMMA OverSound ==
  ASSUME WarmupTypeOK, NEW c \in Calls, Over(c)
  PROVE  /\ pc'[c] = "over" /\ todo'[c] = {} /\ eligible'[c] = {} /\ plan'[c] = {}
         /\ talk'[c] = NoTalk /\ tally'[c] = Nothing
         /\ CallSound(c)' /\ SpeechBound(c)'
<1>1. /\ pc'[c] = "over" /\ todo'[c] = {} /\ eligible'[c] = {} /\ plan'[c] = {}
      /\ talk'[c] = NoTalk /\ tally'[c] = Nothing
  BY DEF Over, Reach, WarmupTypeOK
<1>2. CallSound(c)'
  <2>1. Waits(talk'[c])
    BY <1>1, NoTalkTyped
  <2> QED BY <1>1, <2>1 DEF CallSound, Active, Waits
<1>3. SpeechBound(c)'
  <2>1. \A l \in Lines : l \notin talk'[c].group /\ talk'[c].mock[l] = 0 /\ talk'[c].say # l /\ tally'[c][l] = 0
    BY <1>1, NothingTyped, ConstantsAre DEF NoTalk
  <2> QED BY <2>1, ConstantsAre DEF SpeechBound
<1> QED BY <1>1, <1>2, <1>3

(* A step that leaves the talk, and what was noted, alone.                 *)
LEMMA SpeechStays ==
  ASSUME NEW c \in Calls, SpeechBound(c), tally'[c] = tally[c],
         talk'[c].group = talk[c].group, talk'[c].left = talk[c].left, talk'[c].last = talk[c].last,
         talk'[c].say = talk[c].say, talk'[c].mock = talk[c].mock
  PROVE  SpeechBound(c)'
BY DEF SpeechBound, Said, Saying, LastWord

LEMMA PlanningSound ==
  ASSUME WarmupTypeOK, NEW c \in Calls, CallSound(c), SpeechBound(c),
         \/ runCycle(c) \/ filterEligible(c) \/ runGroups(c) \/ buildGroupCandidate(c)
         \/ persistGroups(c) \/ GetLock(c) \/ DelLock(c) \/ PlanFails(c)
  PROVE  CallSound(c)' /\ SpeechBound(c)'
<1> USE DEF WarmupTypeOK, CallSound, Active
<1>1. CASE runCycle(c)
  <2>1. /\ pc'[c] = "filter" /\ todo'[c] = Lines /\ pc[c] = "idle"
        /\ UNCHANGED <<eligible, plan, talk, tally>>
    BY <1>1 DEF runCycle, Reach
  <2> QED BY <2>1, SpeechStays DEF Waits
<1>2. CASE filterEligible(c)
  <2>1. /\ pc'[c] = "filter" /\ pc[c] = "filter" /\ eligible[c] \subseteq eligible'[c]
        /\ UNCHANGED <<plan, talk, tally>>
    BY <1>2 DEF filterEligible
  <2> QED BY <2>1, SpeechStays DEF Waits
<1>3. CASE runGroups(c)
  <2>1. CASE Over(c)
    BY <2>1, OverSound
  <2>2. CASE ~Over(c)
    <3>1. /\ pc'[c] = "plan" /\ pc[c] = "filter" /\ todo[c] = {}
          /\ talk' = [talk EXCEPT ![c].sim = simulate[home[c]]]
          /\ UNCHANGED <<todo, eligible, plan, tally>>
      BY <1>3, <2>2 DEF runGroups, Reach
    <3>2. /\ talk'[c].group = talk[c].group /\ talk'[c].left = talk[c].left /\ talk'[c].last = talk[c].last
          /\ talk'[c].say = talk[c].say /\ talk'[c].mock = talk[c].mock
      BY <3>1, TalkFields DEF Talks
    <3>3. SpeechBound(c)'
      BY <3>1, <3>2, SpeechStays
    <3>4. Waits(talk'[c])
      BY <3>1, <3>2 DEF Waits
    <3> QED BY <3>1, <3>3, <3>4
  <2> QED BY <2>1, <2>2
<1>4. CASE buildGroupCandidate(c)
  <2>1. /\ pc[c] = "plan" /\ pc'[c] \in {"plan", "persist"}
        /\ UNCHANGED <<todo, eligible, talk, tally>>
    BY <1>4 DEF buildGroupCandidate, Reach
  <2>2. plan'[c] = plan[c] \/ \E g \in SUBSET (eligible[c] \ UNION plan[c]) : plan'[c] = plan[c] \cup {g}
    <3>1. CASE UNCHANGED plan
      BY <3>1
    <3>2. ASSUME NEW g \in SUBSET (eligible[c] \ UNION plan[c]), plan' = [plan EXCEPT ![c] = @ \cup {g}]
          PROVE  plan'[c] = plan[c] \cup {g}
      BY <3>2
    <3>3. \/ UNCHANGED plan
          \/ \E g \in SUBSET (eligible[c] \ UNION plan[c]) : plan' = [plan EXCEPT ![c] = @ \cup {g}]
      BY <1>4 DEF buildGroupCandidate
    <3> QED BY <3>1, <3>2, <3>3
  <2>3. UNION plan'[c] \subseteq eligible[c] /\ \A g, h \in plan'[c] : g # h => g \cap h = {}
    <3>0. UNION plan[c] \subseteq eligible[c] /\ \A g, h \in plan[c] : g # h => g \cap h = {}
      BY DEF CallSound
    <3>1. CASE plan'[c] = plan[c]
      BY <3>0, <3>1
    <3>2. ASSUME NEW g \in SUBSET (eligible[c] \ UNION plan[c]), plan'[c] = plan[c] \cup {g}
          PROVE  UNION plan'[c] \subseteq eligible[c] /\ \A f, h \in plan'[c] : f # h => f \cap h = {}
      <4>1. \A h \in plan'[c] : h \in plan[c] \/ h = g
        BY <3>2
      <4>2. \A h \in plan[c] : g \cap h = {} /\ h \subseteq eligible[c]
        BY <3>0
      <4>3. UNION plan'[c] \subseteq eligible[c]
        BY <4>1, <4>2
      <4>4. ASSUME NEW f \in plan'[c], NEW h \in plan'[c], f # h PROVE f \cap h = {}
        <5>1. CASE f = g
          BY <5>1, <4>1, <4>2, <4>4
        <5>2. CASE h = g
          BY <5>2, <4>1, <4>2, <4>4
        <5>3. CASE f \in plan[c] /\ h \in plan[c]
          BY <5>3, <3>0, <4>4
        <5> QED BY <4>1, <5>1, <5>2, <5>3
      <4> QED BY <4>3, <4>4
    <3> QED BY <2>2, <3>1, <3>2
  <2> QED BY <2>1, <2>3, SpeechStays DEF Waits
<1>5. CASE persistGroups(c) \/ GetLock(c) \/ DelLock(c)
  <2>1. /\ pc[c] \in {"plan", "persist", "release", "del"} /\ pc'[c] \in {"release", "del", "talk"}
        /\ UNCHANGED <<todo, eligible, plan, talk, tally>>
    BY <1>5 DEF persistGroups, GetLock, DelLock, Reach
  <2>2. \A l \in Lines : tally[c][l] = 0
    BY <2>1, NothingTyped
  <2> QED BY <2>1, <2>2, SpeechStays DEF Waits
<1>6. CASE PlanFails(c)
  <2>1. /\ pc[c] \in {"plan", "persist"} /\ pc'[c] = "release" /\ plan'[c] = {}
        /\ UNCHANGED <<todo, eligible, talk, tally>>
    BY <1>6 DEF PlanFails, Reach
  <2> QED BY <2>1, SpeechStays DEF Waits
<1> QED BY <1>1, <1>2, <1>3, <1>4, <1>5, <1>6

LEMMA ConversationSound ==
  ASSUME WarmupTypeOK, NEW c \in Calls, CallSound(c), SpeechBound(c), runConversation(c)
  PROVE  CallSound(c)' /\ SpeechBound(c)'
<1>0. UNCHANGED <<pc, eligible, tally>> /\ pc[c] = "talk" /\ talk[c].group = {}
  BY DEF runConversation
<1>1. PICK g \in plan[c] :
        /\ plan' = [plan EXCEPT ![c] = @ \ {g}]
        /\ todo' = [todo EXCEPT ![c] = @ \cup g]
        /\ talk' \in {talk, [talk EXCEPT ![c].group = g, ![c].last = NoCall, ![c].left = Turns]}
  BY DEF runConversation
<1>2. plan'[c] = plan[c] \ {g} /\ todo'[c] = todo[c] \cup g /\ g \subseteq eligible[c]
  BY <1>1 DEF WarmupTypeOK, CallSound
<1>3. Waits(talk[c])
  BY <1>0 DEF CallSound
<1>4. \A l \in g : l \notin todo[c] /\ tally[c][l] = 0 /\ l \in Lines
  BY <1>0, <1>1 DEF WarmupTypeOK, CallSound
<1>5. todo'[c] \cap UNION plan'[c] = {}
  BY <1>0, <1>2 DEF CallSound
<1>6. \/ talk' = talk
      \/ /\ talk'[c].group = g /\ talk'[c].last = NoCall /\ talk'[c].left = Turns
         /\ talk'[c].say = talk[c].say /\ talk'[c].mock = talk[c].mock
  <2>1. talk' = talk \/ talk' = [talk EXCEPT ![c].group = g, ![c].last = NoCall, ![c].left = Turns]
    BY <1>1
  <2> QED BY <2>1, TalkFields DEF Talks, WarmupTypeOK
<1>7. CallSound(c)'
  <2>1. talk'[c].group \subseteq todo'[c]
    BY <1>0, <1>2, <1>6
  <2>2. talk'[c].group = {} => Waits(talk'[c])
    BY <1>3, <1>6 DEF Waits
  <2>3. \A l \in Lines \ todo'[c] : tally'[c][l] = 0
    BY <1>0, <1>2 DEF CallSound
  <2>4. UNION plan'[c] \subseteq eligible'[c] /\ todo'[c] \subseteq eligible'[c]
    BY <1>0, <1>2 DEF CallSound
  <2>5. \A f, h \in plan'[c] : f # h => f \cap h = {}
    BY <1>0, <1>2 DEF CallSound
  <2> QED BY <1>0, <1>5, <2>1, <2>2, <2>3, <2>4, <2>5 DEF CallSound, Active
<1>8. SpeechBound(c)'
  <2>1. CASE talk' = talk
    BY <1>0, <2>1, SpeechStays
  <2>2. CASE /\ talk'[c].group = g /\ talk'[c].last = NoCall /\ talk'[c].left = Turns
             /\ talk'[c].say = talk[c].say /\ talk'[c].mock = talk[c].mock
    <3>1. \A l \in Lines : talk'[c].mock[l] = 0 /\ talk'[c].say # l /\ talk'[c].last # l
      BY <1>3, <2>2, NothingTyped, ConstantsAre DEF Waits
    <3>2. \A l \in g : Said(c, l)' = 0 /\ LastWord(c, l)' = 0
      BY <1>0, <1>4, <3>1 DEF Said, Saying, LastWord
    <3>3. \A l \in Lines : 2 * tally'[c][l] <= Turns + 1
      BY <1>0 DEF SpeechBound
    <3> QED BY <2>2, <3>1, <3>2, <3>3, ConstantsAre DEF SpeechBound
  <2> QED BY <1>6, <2>1, <2>2
<1> QED BY <1>7, <1>8

(* Who speaks was not the last to speak.                                   *)
LEMMA SaySound ==
  ASSUME WarmupTypeOK, NEW c \in Calls, CallSound(c), SpeechBound(c), Say(c)
  PROVE  CallSound(c)' /\ SpeechBound(c)'
<1>0. /\ UNCHANGED <<pc, todo, eligible, plan, tally>>
      /\ pc[c] = "talk" /\ talk[c].left > 0 /\ talk[c].say = NoCall
  BY DEF Say
<1>1. PICK k \in Speakers(c) :
        LET t == [talk[c] EXCEPT !.last = k, !.left = @ - 1] IN
        talk' = [talk EXCEPT ![c] = IF Simulated(c) THEN [t EXCEPT !.mock[k] = @ + 1]
                                    ELSE [t EXCEPT !.say = k, !.tries = 1]]
  BY DEF Say
<1>2. k \in talk[c].group /\ k \in Lines /\ k # talk[c].last
  BY <1>1, TalkFields DEF Speakers
<1>3. /\ talk'[c].group = talk[c].group /\ talk'[c].last = k /\ talk'[c].left = talk[c].left - 1
      /\ \/ talk'[c].say = NoCall /\ talk'[c].mock = [talk[c].mock EXCEPT ![k] = @ + 1]
         \/ talk'[c].say = k /\ talk'[c].mock = talk[c].mock
  <2> DEFINE t == [talk[c] EXCEPT !.last = k, !.left = @ - 1]
  <2>1. /\ t.group = talk[c].group /\ t.last = k /\ t.left = talk[c].left - 1
        /\ t.say = NoCall /\ t.mock = talk[c].mock /\ t \in Talks
    <3>1. talk[c].left - 1 \in 0..Turns
      BY <1>0, TalkFields, ConstantsAre
    <3>2. t \in Talks
      BY <1>2, <3>1, TalkFields, TalkChanged
    <3> QED BY <1>0, <3>2, TalkFields DEF Talks
  <2>2. talk'[c] = IF Simulated(c) THEN [t EXCEPT !.mock[k] = @ + 1] ELSE [t EXCEPT !.say = k, !.tries = 1]
    BY <1>1 DEF WarmupTypeOK
  <2> HIDE DEF t
  <2> QED BY <2>1, <2>2 DEF Talks
<1>4. CallSound(c)'
  BY <1>0, <1>2, <1>3 DEF CallSound, Active
<1>5. SpeechBound(c)'
  <2> SUFFICES ASSUME NEW l \in Lines
               PROVE  /\ l \in talk'[c].group => 2 * Said(c, l)' <= Turns - talk'[c].left + LastWord(c, l)'
                      /\ l \notin talk'[c].group => /\ 2 * tally'[c][l] <= Turns + 1
                                                    /\ talk'[c].mock[l] = 0 /\ talk'[c].say # l
    BY DEF SpeechBound
  <2>0. talk[c].mock \in [Lines -> Nat] /\ tally[c][l] \in Nat /\ talk[c].left \in Nat /\ talk[c].mock[l] \in Nat
    BY TalkFields
  <2>1. CASE l = k
    <3>1. 2 * (tally[c][l] + talk[c].mock[l]) <= Turns - talk[c].left
      BY <1>0, <1>2, <2>0, <2>1, ConstantsAre DEF SpeechBound, Said, Saying, LastWord
    <3>2. Said(c, l)' = tally[c][l] + talk[c].mock[l] + 1
      BY <1>0, <1>2, <1>3, <2>0, <2>1, ConstantsAre DEF Said, Saying
    <3>3. LastWord(c, l)' = 1
      BY <1>3, <2>1 DEF LastWord
    <3> QED BY <1>2, <1>3, <2>0, <2>1, <3>1, <3>2, <3>3, ConstantsAre
  <2>2. CASE l # k
    <3>1. talk'[c].mock[l] = talk[c].mock[l] /\ talk'[c].say # l /\ LastWord(c, l)' = 0
      BY <1>2, <1>3, <2>0, <2>2, ConstantsAre DEF LastWord
    <3>2. l \in talk[c].group => 2 * (tally[c][l] + talk[c].mock[l]) <= Turns - talk[c].left + 1
      BY <1>0, <2>0, ConstantsAre DEF SpeechBound, Said, Saying, LastWord
    <3>3. Said(c, l)' = tally[c][l] + talk[c].mock[l]
      BY <1>0, <2>0, <3>1 DEF Said, Saying
    <3> QED BY <1>0, <1>3, <2>0, <3>1, <3>2, <3>3, ConstantsAre DEF SpeechBound
  <2> QED BY <2>1, <2>2
<1> QED BY <1>4, <1>5

LEMMA DeliverSound ==
  ASSUME WarmupTypeOK, NEW c \in Calls, CallSound(c), SpeechBound(c), Deliver(c)
  PROVE  /\ CallSound(c)' /\ SpeechBound(c)'
         /\ talk[c].say \in talk[c].group
         /\ tally'[c] = [tally[c] EXCEPT ![talk[c].say] = @ + 1]
<1> DEFINE k == talk[c].say
<1>0. /\ UNCHANGED <<pc, todo, eligible, plan>> /\ pc[c] = "talk" /\ k # NoCall
      /\ tally' = [tally EXCEPT ![c][k] = @ + 1] /\ talk' = [talk EXCEPT ![c].say = NoCall]
  BY DEF Deliver
<1>1. k \in Lines /\ k \in talk[c].group
  BY <1>0, TalkFields DEF SpeechBound
<1>2. tally'[c] = [tally[c] EXCEPT ![k] = @ + 1]
  BY <1>0 DEF WarmupTypeOK
<1>3. /\ talk'[c].group = talk[c].group /\ talk'[c].last = talk[c].last /\ talk'[c].left = talk[c].left
      /\ talk'[c].say = NoCall /\ talk'[c].mock = talk[c].mock
  BY <1>0, TalkFields DEF Talks, WarmupTypeOK
<1>4. tally[c] \in [Lines -> Nat]
  BY DEF WarmupTypeOK
<1>5. CallSound(c)'
  <2>1. \A l \in Lines \ todo[c] : tally'[c][l] = 0
    BY <1>0, <1>1, <1>2, <1>4 DEF CallSound
  <2> QED BY <1>0, <1>1, <1>3, <2>1 DEF CallSound, Active
<1>6. \A l \in Lines : /\ Said(c, l)' = Said(c, l) /\ LastWord(c, l)' = LastWord(c, l)
                       /\ l \notin talk[c].group => tally'[c][l] = tally[c][l]
  <2> SUFFICES ASSUME NEW l \in Lines
               PROVE  /\ Said(c, l)' = Said(c, l) /\ LastWord(c, l)' = LastWord(c, l)
                      /\ l \notin talk[c].group => tally'[c][l] = tally[c][l]
    OBVIOUS
  <2>1. tally[c][l] \in Nat /\ talk[c].mock[l] \in Nat
    BY TalkFields
  <2>2. CASE l = k
    <3>1. tally'[c][l] = tally[c][l] + 1 /\ Saying(c, l) = 1 /\ Saying(c, l)' = 0
      BY <1>1, <1>2, <1>3, <1>4, <2>2, ConstantsAre DEF Saying
    <3> QED BY <1>1, <1>3, <2>1, <2>2, <3>1 DEF Said, LastWord
  <2>3. CASE l # k
    <3>1. tally'[c][l] = tally[c][l] /\ Saying(c, l) = 0 /\ Saying(c, l)' = 0
      BY <1>1, <1>2, <1>3, <1>4, <2>3, ConstantsAre DEF Saying
    <3> QED BY <1>3, <2>1, <3>1 DEF Said, LastWord
  <2> QED BY <2>2, <2>3
<1>7. SpeechBound(c)'
  BY <1>3, <1>6, ConstantsAre DEF SpeechBound
<1> QED BY <1>1, <1>2, <1>5, <1>7

(* An end without a pending message: half of the turns, and half a one.    *)
LEMMA EndSound ==
  ASSUME WarmupTypeOK, NEW c \in Calls, CallSound(c), SpeechBound(c), EndTalk(c)
  PROVE  /\ CallSound(c)' /\ SpeechBound(c)'
         /\ \A l \in Lines : tally'[c][l] \in Nat /\ tally'[c][l] >= tally[c][l]
<1>0. /\ UNCHANGED <<pc, todo, eligible, plan>> /\ pc[c] = "talk"
      /\ talk[c].left = 0 /\ talk[c].say = NoCall
      /\ talk' = [talk EXCEPT ![c].group = {}, ![c].mock = Nothing]
      /\ tally'[c] = [l \in Lines |-> tally[c][l] + IF Simulated(c) THEN talk[c].mock[l] ELSE 0]
  BY DEF EndTalk, WarmupTypeOK
<1>1. talk'[c].group = {} /\ talk'[c].mock = Nothing /\ talk'[c].say = NoCall
  BY <1>0, TalkFields DEF Talks, WarmupTypeOK
<1>2. ASSUME NEW l \in Lines
      PROVE  /\ tally'[c][l] \in Nat /\ tally'[c][l] >= tally[c][l]
             /\ tally'[c][l] <= tally[c][l] + talk[c].mock[l]
             /\ 2 * tally'[c][l] <= Turns + 1
             /\ l \notin talk[c].group => tally'[c][l] = tally[c][l]
  <2>1. tally[c][l] \in Nat /\ talk[c].mock[l] \in Nat
    BY TalkFields
  <2>2. tally'[c][l] = tally[c][l] \/ tally'[c][l] = tally[c][l] + talk[c].mock[l]
    BY <1>0, <2>1
  <2>3. CASE l \in talk[c].group
    <3>1. Saying(c, l) = 0 /\ LastWord(c, l) \in {0, 1}
      BY <1>0, ConstantsAre DEF Saying, LastWord
    <3>2. 2 * (tally[c][l] + talk[c].mock[l]) <= Turns + 1
      BY <1>0, <2>1, <2>3, <3>1, ConstantsAre DEF SpeechBound, Said
    <3> QED BY <2>1, <2>2, <2>3, <3>2, ConstantsAre
  <2>4. CASE l \notin talk[c].group
    BY <2>1, <2>2, <2>4, ConstantsAre DEF SpeechBound
  <2> QED BY <2>3, <2>4
<1>3. CallSound(c)'
  <2>1. \A l \in Lines \ todo[c] : tally'[c][l] = 0
    BY <1>0, <1>2 DEF CallSound
  <2> QED BY <1>0, <1>1, <2>1 DEF CallSound, Active, Waits
<1>4. SpeechBound(c)'
  BY <1>1, <1>2, NothingTyped, ConstantsAre DEF SpeechBound
<1> QED BY <1>2, <1>3, <1>4

LEMMA CountSound ==
  ASSUME WarmupTypeOK, NEW c \in Calls, CallSound(c), SpeechBound(c), CountLine(c)
  PROVE  CallSound(c)' /\ SpeechBound(c)'
<1>1. CASE todo[c] = {}
  BY <1>1, OverSound DEF CountLine
<1>2. CASE todo[c] # {}
  <2> DEFINE k == First(todo[c])
  <2>1. k \in todo[c] /\ k \in Lines
    BY <1>2, FirstIs DEF WarmupTypeOK
  <2>2. /\ pc[c] = "talk" /\ talk[c].group = {} /\ plan[c] = {}
        /\ todo'[c] = todo[c] \ {k} /\ tally' = [tally EXCEPT ![c][k] = 0]
        /\ UNCHANGED <<pc, eligible, plan, talk>>
    BY <1>2 DEF CountLine, WarmupTypeOK
  <2> HIDE DEF k
  <2>3. tally'[c][k] = 0 /\ \A l \in Lines \ {k} : tally'[c][l] = tally[c][l]
    BY <2>1, <2>2 DEF WarmupTypeOK
  <2>4. CallSound(c)'
    BY <2>2, <2>3 DEF CallSound, Active
  <2>5. SpeechBound(c)'
    BY <2>2, <2>3, ConstantsAre DEF SpeechBound
  <2> QED BY <2>4, <2>5
<1> QED BY <1>1, <1>2

LEMMA RetrySound ==
  ASSUME WarmupTypeOK, NEW c \in Calls, CallSound(c), SpeechBound(c),
         talk' = [talk EXCEPT ![c].tries = @ + 1], UNCHANGED <<pc, todo, eligible, plan, tally>>
  PROVE  CallSound(c)' /\ SpeechBound(c)'
<1>1. /\ talk'[c].group = talk[c].group /\ talk'[c].last = talk[c].last /\ talk'[c].left = talk[c].left
      /\ talk'[c].say = talk[c].say /\ talk'[c].mock = talk[c].mock
  BY TalkFields DEF Talks, WarmupTypeOK
<1>2. CallSound(c)'
  BY <1>1 DEF CallSound, Active, Waits
<1> QED BY <1>1, <1>2, SpeechStays

LEMMA CallsSoundStay == WarmupTypeOK /\ CallsSound /\ [WarmupNext]_warmupVars => CallsSound'
<1> SUFFICES ASSUME WarmupTypeOK, CallsSound, [WarmupNext]_warmupVars PROVE CallsSound'
  OBVIOUS
<1>1. ASSUME UNCHANGED call PROVE CallsSound'
  BY <1>1 DEF call, CallsSound, CallSound, SpeechBound, Said, Saying, LastWord, Active, Waits
<1>2. ASSUME NEW c \in Calls, Cycle(c) PROVE CallsSound'
  <2>1. CallSound(c) /\ SpeechBound(c)
    BY DEF CallsSound
  <2>2. CallSound(c)' /\ SpeechBound(c)'
    <3>1. CASE DeliverFails(c)
      <4>1. Over(c) \/ (talk' = [talk EXCEPT ![c].tries = @ + 1] /\ UNCHANGED <<pc, todo, eligible, plan, tally>>)
        BY <3>1 DEF DeliverFails
      <4> QED BY <2>1, <4>1, OverSound, RetrySound
    <3> QED BY <1>2, <2>1, <3>1, OverSound, PlanningSound, ConversationSound, SaySound, DeliverSound,
               EndSound, CountSound DEF Cycle, Fails
  <2>3. ASSUME NEW d \in Calls, d # c PROVE CallSound(d)' /\ SpeechBound(d)'
    <3>1. /\ pc'[d] = pc[d] /\ todo'[d] = todo[d] /\ eligible'[d] = eligible[d]
          /\ plan'[d] = plan[d] /\ talk'[d] = talk[d] /\ tally'[d] = tally[d]
      BY <1>2, <2>3, OthersStay
    <3>2. CallSound(d) /\ SpeechBound(d)
      BY DEF CallsSound
    <3>3. CallSound(d)'
      BY <3>1, <3>2 DEF CallSound, Active
    <3> QED BY <3>1, <3>2, <3>3, SpeechStays
  <2> QED BY <2>2, <2>3 DEF CallsSound
<1>3. CASE UNCHANGED warmupVars
  BY <1>1, <1>3 DEF warmupVars
<1>4. CASE (\E p \in Procs : SetSimulation(p)) \/ Rest \/ LockExpires \/ LocalMidnight \/ UtcMidnight
  BY <1>1, <1>4 DEF SetSimulation, Rest, LockExpires, LocalMidnight, UtcMidnight
<1> QED BY <1>2, <1>3, <1>4 DEF WarmupNext

-----------------------------------------------------------------------------
(* What a line sent, step by step.                                         *)
LEMMA HalfOfTheTurns ==
  /\ (Turns + 1) \div 2 \in Nat
  /\ \A n \in Nat : 2 * n <= Turns + 1 => n <= (Turns + 1) \div 2
BY ConstantsAre

LEMMA LineTyped ==
  ASSUME WarmupTypeOK, NEW l \in Lines
  PROVE  /\ sent[l] \in Nat /\ quota[l] \in Nat /\ Limit - 1 \in Nat
         /\ \A c \in Calls : tally[c][l] \in Nat
BY ConstantsAre DEF WarmupTypeOK

(* A call that sends nothing of a line, does not take the line up, and     *)
(* counts what it forgets.                                                 *)
LEMMA LineKept ==
  ASSUME WarmupTypeOK, NEW c \in Calls, Cycle(c), NEW l \in Lines, LineSound(l),
         sent'[l] = sent[l], quota'[l] \in Nat, quota'[l] >= quota[l],
         l \in eligible'[c] => l \in eligible[c] /\ sent[l] <= quota'[l] + tally'[c][l],
         l \in eligible[c] /\ l \notin eligible'[c] => sent[l] <= quota'[l],
         ToTalk(c, l)' => sent[l] <= Limit - 1 + tally'[c][l]
  PROVE  LineSound(l)'
<1>1. \A d \in Calls : d # c => /\ eligible'[d] = eligible[d] /\ tally'[d] = tally[d]
                                /\ (ToTalk(d, l)' <=> ToTalk(d, l))
  BY OthersStay DEF ToTalk
<1>2. \A d, e \in Calls : l \in eligible'[d] /\ l \in eligible'[e] => d = e
  BY <1>1 DEF LineSound
<1>3. Uncalled(l)' => sent'[l] <= quota'[l]
  <2> SUFFICES ASSUME Uncalled(l)' PROVE sent[l] <= quota'[l]
    OBVIOUS
  <2>1. CASE l \in eligible[c]
    BY <2>1 DEF Uncalled
  <2>2. CASE l \notin eligible[c]
    <3>1. Uncalled(l)
      BY <1>1, <2>2 DEF Uncalled
    <3> QED BY <3>1, LineTyped DEF LineSound
  <2> QED BY <2>1, <2>2
<1>4. ASSUME NEW d \in Calls, l \in eligible'[d] PROVE sent'[l] <= quota'[l] + tally'[d][l]
  <2>1. CASE d = c
    BY <1>4, <2>1
  <2>2. CASE d # c
    <3>1. sent[l] <= quota[l] + tally[d][l] /\ tally'[d][l] = tally[d][l]
      BY <1>1, <1>4, <2>2 DEF LineSound
    <3> QED BY <3>1, LineTyped
  <2> QED BY <2>1, <2>2
<1>5. ASSUME NEW d \in Calls, ToTalk(d, l)' PROVE sent'[l] <= Limit - 1 + tally'[d][l]
  <2>1. CASE d = c
    BY <1>5, <2>1
  <2>2. CASE d # c
    BY <1>1, <1>5, <2>2 DEF LineSound
  <2> QED BY <2>1, <2>2
<1>6. sent'[l] <= Limit - 1 + (Turns + 1) \div 2
  BY DEF LineSound
<1> QED BY <1>2, <1>3, <1>4, <1>5, <1>6 DEF LineSound, Uncalled

(* ... as when it leaves the line, and what it noted, alone,               *)
LEMMA LineLeft ==
  ASSUME WarmupTypeOK, NEW c \in Calls, Cycle(c), NEW l \in Lines, LineSound(l),
         sent'[l] = sent[l], quota'[l] = quota[l], tally'[c][l] = tally[c][l],
         l \in eligible'[c] <=> l \in eligible[c], ToTalk(c, l)' => ToTalk(c, l)
  PROVE  LineSound(l)'
<1>1. quota'[l] \in Nat /\ quota'[l] >= quota[l]
  BY LineTyped
<1>2. l \in eligible'[c] => l \in eligible[c] /\ sent[l] <= quota'[l] + tally'[c][l]
  BY DEF LineSound
<1>3. ToTalk(c, l)' => sent[l] <= Limit - 1 + tally'[c][l]
  BY DEF LineSound
<1> QED BY <1>1, <1>2, <1>3, LineKept

(* ... or is over when it had noted nothing.                               *)
LEMMA LineOver ==
  ASSUME WarmupTypeOK, NEW c \in Calls, Cycle(c), NEW l \in Lines, LineSound(l),
         Over(c), sent'[l] = sent[l], quota' = quota, tally[c][l] = 0
  PROVE  LineSound(l)'
<1>1. eligible'[c] = {}
  BY OverSound
<1>2. ~ToTalk(c, l)'
  BY <1>1 DEF ToTalk
<1>3. l \in eligible[c] => sent[l] <= quota[l]
  BY LineTyped DEF LineSound
<1> QED BY <1>1, <1>2, <1>3, LineTyped, LineKept

(* A line is taken up when its counter is below the limit and no other     *)
(* process has it; another call of the process is not under way.           *)
LEMMA FilterKeepsLines ==
  ASSUME WarmupTypeOK, OnePerProcess, CallsSound, NEW c \in Calls, filterEligible(c),
         NEW l \in Lines \ leaked', LineSound(l)
  PROVE  LineSound(l)'
<1> DEFINE k == First(todo[c])
<1>0. /\ pc[c] = "filter" /\ UNCHANGED <<quota, home, pc, plan, talk, tally, sent>>
      /\ \/ UNCHANGED eligible
         \/ /\ HasQuota(k) /\ eligible' = [eligible EXCEPT ![c] = @ \cup {k}]
            /\ leaked' = IF \E d \in Calls : home[d] # home[c] /\ k \in eligible[d]
                         THEN leaked \cup {k} ELSE leaked
  BY DEF filterEligible, redis
<1>c. Cycle(c)
  BY DEF Cycle
<1> HIDE DEF k
<1>1. CASE l \in eligible'[c] <=> l \in eligible[c]
  <2>1. ToTalk(c, l)' => ToTalk(c, l)
    BY <1>0, <1>1 DEF ToTalk
  <2> QED BY <1>0, <1>1, <1>c, <2>1, LineLeft
<1>2. CASE ~(l \in eligible'[c] <=> l \in eligible[c])
  <2>1. /\ l = k /\ l \notin eligible[c] /\ quota[l] < Limit
        /\ eligible' = [eligible EXCEPT ![c] = @ \cup {l}]
    BY <1>0, <1>2 DEF HasQuota, WarmupTypeOK
  <2>2. \A d \in Calls : l \in eligible[d] => home[d] = home[c]
    BY <1>0, <1>2, <2>1
  <2>3. \A d \in Calls : l \in eligible[d] => Active(d)
    BY DEF CallsSound, CallSound
  <2>4. Active(c)
    BY <1>0 DEF Active
  <2>5. Uncalled(l)
    BY <2>1, <2>2, <2>3, <2>4 DEF OnePerProcess, Uncalled
  <2>6. sent[l] <= quota[l] /\ tally[c][l] = 0
    BY <1>0, <2>5, NothingTyped DEF LineSound, CallsSound, CallSound
  <2>7. \A d \in Calls : l \in eligible'[d] <=> d = c
    BY <2>1, <2>5 DEF Uncalled, WarmupTypeOK
  <2>8. \A d \in Calls : ToTalk(d, l)' => d = c
    BY <2>7 DEF ToTalk
  <2>9. sent[l] <= quota[l] + tally[c][l] /\ sent[l] <= Limit - 1 + tally[c][l]
    BY <2>1, <2>6, LineTyped, ConstantsAre
  <2> QED BY <1>0, <2>7, <2>8, <2>9 DEF LineSound, Uncalled
<1> QED BY <1>1, <1>2

(* A message that arrived is in the tally of its call; it was due, so the  *)
(* line had its quota before.                                              *)
LEMMA DeliverKeepsLines ==
  ASSUME WarmupTypeOK, CallsSound, NEW c \in Calls, Deliver(c), NEW l \in Lines, LineSound(l)
  PROVE  LineSound(l)'
<1> DEFINE k == talk[c].say
<1>c. Cycle(c) /\ CallSound(c) /\ SpeechBound(c)
  BY DEF Cycle, CallsSound
<1>0. /\ UNCHANGED <<quota, pc, todo, eligible, plan>> /\ pc[c] = "talk"
      /\ sent' = [sent EXCEPT ![k] = @ + 1]
  BY DEF Deliver, redis
<1>1. /\ k \in talk[c].group /\ tally'[c] = [tally[c] EXCEPT ![k] = @ + 1]
      /\ CallSound(c)' /\ SpeechBound(c)'
  BY <1>c, DeliverSound
<1>2. k \in Lines /\ k \in todo[c] /\ k \in eligible[c]
  BY <1>0, <1>1, <1>c, TalkFields DEF CallSound
<1> HIDE DEF k
<1>3. CASE l # k
  <2>1. sent'[l] = sent[l] /\ tally'[c][l] = tally[c][l]
    BY <1>0, <1>1, <1>2, <1>3 DEF WarmupTypeOK
  <2>2. ToTalk(c, l)' => ToTalk(c, l)
    BY <1>0 DEF ToTalk
  <2> QED BY <1>0, <1>c, <2>1, <2>2, LineLeft
<1>4. CASE l = k
  <2>1. sent'[l] = sent[l] + 1 /\ tally'[c][l] = tally[c][l] + 1 /\ tally'[c][l] \in Nat
    BY <1>0, <1>1, <1>2, <1>4 DEF WarmupTypeOK
  <2>2. ToTalk(c, l) /\ l \in eligible'[c]
    BY <1>0, <1>2, <1>4 DEF ToTalk
  <2>3. sent[l] <= quota[l] + tally[c][l] /\ sent[l] <= Limit - 1 + tally[c][l]
    BY <2>2, <1>2, <1>4 DEF LineSound
  <2>4. sent'[l] <= quota'[l] + tally'[c][l] /\ sent'[l] <= Limit - 1 + tally'[c][l]
    BY <1>0, <2>1, <2>3, LineTyped
  <2>5. \A d \in Calls : l \in eligible'[d] => d = c
    BY <1>0, <1>2, <1>4 DEF LineSound
  <2>6. \A d \in Calls : ToTalk(d, l)' => d = c
    BY <2>5 DEF ToTalk
  <2>7. 2 * tally'[c][l] <= Turns + 1
    <3>1. WarmupTypeOK'
      BY <1>c, WarmupTypesKept DEF WarmupNext
    <3>2. talk'[c].left \in Nat /\ talk'[c].mock[l] \in Nat
      <4>1. talk'[c] \in Talks
        BY <3>1 DEF WarmupTypeOK
      <4> QED BY <4>1, ConstantsAre DEF Talks
    <3>3. Saying(c, l)' \in {0, 1} /\ LastWord(c, l)' \in {0, 1}
      BY DEF Saying, LastWord
    <3>4. \/ 2 * (tally'[c][l] + talk'[c].mock[l] + Saying(c, l)') <= Turns - talk'[c].left + LastWord(c, l)'
          \/ 2 * tally'[c][l] <= Turns + 1
      BY <1>1 DEF SpeechBound, Said
    <3> QED BY <2>1, <3>2, <3>3, <3>4, ConstantsAre
  <2>8. sent'[l] <= Limit - 1 + (Turns + 1) \div 2
    <3>1. tally'[c][l] <= (Turns + 1) \div 2
      BY <2>1, <2>7, HalfOfTheTurns
    <3>2. sent'[l] \in Nat
      BY <2>1, LineTyped
    <3> QED BY <2>1, <2>4, <3>1, <3>2, HalfOfTheTurns, LineTyped
  <2> QED BY <1>0, <2>2, <2>4, <2>5, <2>6, <2>8 DEF LineSound, Uncalled
<1> QED BY <1>3, <1>4

(* A failed cycle forgets what it noted, and the lines are known for it.   *)
LEMMA FailuresKeepLines ==
  ASSUME WarmupTypeOK, NEW c \in Calls, DeliverFails(c) \/ Fails(c),
         NEW l \in Lines \ leaked', l \notin leaked, LineSound(l)
  PROVE  LineSound(l)'
<1>c. Cycle(c) /\ quota' = quota
  BY DEF Cycle, DeliverFails, Fails, redis
<1>1. CASE Over(c) /\ l \notin Uncounted(c) /\ sent'[l] = sent[l]
  <2>1. tally[c][l] = 0
    BY <1>1, LineTyped DEF Uncounted
  <2> QED BY <1>1, <1>c, <2>1, LineOver
<1>2. CASE UNCHANGED <<pc, todo, eligible, plan, tally>> /\ sent'[l] = sent[l]
  BY <1>2, <1>c, LineLeft DEF ToTalk
<1>3. CASE Fails(c)
  BY <1>1, <1>3 DEF Fails
<1>4. CASE DeliverFails(c)
  <2> DEFINE k == talk[c].say
  <2>1. PICK out \in BOOLEAN :
          /\ sent' = IF out THEN [sent EXCEPT ![k] = @ + 1] ELSE sent
          /\ \/ /\ leaked' = IF out THEN leaked \cup {k} ELSE leaked
                /\ UNCHANGED <<pc, todo, eligible, plan, tally>>
             \/ leaked' = leaked \cup Uncounted(c) \cup (IF out THEN {k} ELSE {}) /\ Over(c)
    BY <1>4 DEF DeliverFails
  <2> HIDE DEF k
  <2>2. out => l # k
    BY <2>1
  <2>3. sent'[l] = sent[l]
    BY <2>1, <2>2 DEF WarmupTypeOK
  <2> QED BY <2>1, <2>3, <1>1, <1>2
<1> QED BY <1>3, <1>4

LEMMA CountKeepsLines ==
  ASSUME WarmupTypeOK, CallsSound, NEW c \in Calls, CountLine(c), NEW l \in Lines, LineSound(l)
  PROVE  LineSound(l)'
<1>c. Cycle(c) /\ CallSound(c) /\ sent' = sent
  BY DEF Cycle, CallsSound, CountLine, world
<1>1. CASE todo[c] = {}
  <2>1. Over(c) /\ quota' = quota /\ pc[c] = "talk"
    BY <1>1 DEF CountLine
  <2>2. tally[c][l] = 0
    BY <1>1, <1>c, <2>1 DEF CallSound
  <2> QED BY <1>c, <2>1, <2>2, LineOver
<1>2. CASE todo[c] # {}
  <2> DEFINE k == First(todo[c])
  <2>0. k \in Lines
    BY <1>2, FirstIs DEF WarmupTypeOK
  <2>1. /\ pc[c] = "talk" /\ plan[c] = {} /\ todo'[c] = todo[c] \ {k}
        /\ quota' = [quota EXCEPT ![k] = @ + tally[c][k]] /\ tally' = [tally EXCEPT ![c][k] = 0]
        /\ UNCHANGED <<pc, eligible, plan>>
    BY <1>2 DEF CountLine, Counted, WarmupTypeOK
  <2> HIDE DEF k
  <2>2. CASE l # k
    <3>1. quota'[l] = quota[l] /\ tally'[c][l] = tally[c][l]
      BY <2>0, <2>1, <2>2 DEF WarmupTypeOK
    <3>2. ToTalk(c, l)' => ToTalk(c, l)
      BY <2>1 DEF ToTalk
    <3> QED BY <1>c, <2>1, <3>1, <3>2, LineLeft
  <2>3. CASE l = k
    <3>1. quota'[l] = quota[l] + tally[c][l] /\ tally'[c][l] = 0
      BY <2>0, <2>1, <2>3 DEF WarmupTypeOK
    <3>2. ~ToTalk(c, l)'
      BY <2>1, <2>3 DEF ToTalk
    <3>3. quota'[l] \in Nat /\ quota'[l] >= quota[l]
      BY <3>1, LineTyped
    <3>4. l \in eligible'[c] => l \in eligible[c] /\ sent[l] <= quota'[l] + tally'[c][l]
      BY <2>1, <3>1, LineTyped DEF LineSound
    <3> QED BY <1>c, <2>1, <3>2, <3>3, <3>4, LineKept
  <2> QED BY <2>2, <2>3
<1> QED BY <1>1, <1>2

(* The other steps of a call send nothing and count nothing.               *)
LEMMA QuietKeepsLines ==
  ASSUME WarmupTypeOK, CallsSound, NEW c \in Calls, NEW l \in Lines, LineSound(l),
         \/ runCycle(c) \/ runGroups(c) \/ buildGroupCandidate(c) \/ persistGroups(c) \/ GetLock(c)
         \/ DelLock(c) \/ PlanFails(c) \/ runConversation(c) \/ Say(c) \/ EndTalk(c)
  PROVE  LineSound(l)'
<1>c. Cycle(c) /\ CallSound(c) /\ SpeechBound(c)
  BY DEF Cycle, CallsSound
<1>1. CASE runCycle(c)
  <2>1. UNCHANGED <<quota, sent, eligible, tally>> /\ eligible[c] = {}
    BY <1>1, <1>c DEF runCycle, redis, world, CallSound, Active
  <2> QED BY <1>c, <2>1, LineLeft DEF ToTalk
<1>2. CASE runGroups(c)
  <2>0. UNCHANGED <<quota, sent>> /\ pc[c] = "filter" /\ tally[c] = Nothing
    BY <1>2, <1>c DEF runGroups, world, CallSound
  <2>1. CASE Over(c)
    BY <1>c, <2>0, <2>1, NothingTyped, LineOver
  <2>2. CASE ~Over(c)
    <3>1. UNCHANGED <<eligible, tally>>
      BY <1>2, <2>2 DEF runGroups
    <3> QED BY <1>c, <2>0, <3>1, LineLeft DEF ToTalk
  <2> QED BY <2>1, <2>2
<1>3. CASE buildGroupCandidate(c) \/ persistGroups(c) \/ GetLock(c) \/ DelLock(c) \/ PlanFails(c)
  <2>1. UNCHANGED <<quota, sent, eligible, tally>> /\ pc[c] # "talk"
    BY <1>3 DEF buildGroupCandidate, persistGroups, GetLock, DelLock, PlanFails, redis, world
  <2> QED BY <1>c, <2>1, LineLeft DEF ToTalk
<1>4. CASE runConversation(c)
  <2>1. UNCHANGED <<quota, sent, eligible, tally, pc>>
    BY <1>4 DEF runConversation, redis, world
  <2>2. PICK g \in plan[c] : plan' = [plan EXCEPT ![c] = @ \ {g}] /\ todo' = [todo EXCEPT ![c] = @ \cup g]
    BY <1>4 DEF runConversation
  <2>3. plan'[c] = plan[c] \ {g} /\ todo'[c] = todo[c] \cup g
    BY <2>2 DEF WarmupTypeOK
  <2>4. todo'[c] \cup UNION plan'[c] \subseteq todo[c] \cup UNION plan[c]
    BY <2>3
  <2> QED BY <1>c, <2>1, <2>4, LineLeft DEF ToTalk
<1>5. CASE Say(c)
  <2>1. UNCHANGED <<quota, sent, eligible, tally, pc, todo, plan>>
    BY <1>5 DEF Say, redis, world
  <2> QED BY <1>c, <2>1, LineLeft DEF ToTalk
<1>6. CASE EndTalk(c)
  <2>1. UNCHANGED <<quota, sent, eligible, pc, todo, plan>>
    BY <1>6 DEF EndTalk, redis, world
  <2>2. tally'[c][l] \in Nat /\ tally'[c][l] >= tally[c][l]
    BY <1>6, <1>c, EndSound
  <2>3. l \in eligible[c] => sent[l] <= quota[l] + tally'[c][l]
    BY <2>2, LineTyped DEF LineSound
  <2>4. ToTalk(c, l)' => sent[l] <= Limit - 1 + tally'[c][l]
    <3>1. ToTalk(c, l)' => ToTalk(c, l)
      BY <2>1 DEF ToTalk
    <3>2. ToTalk(c, l) => sent[l] <= Limit - 1 + tally[c][l]
      BY DEF LineSound
    <3> QED BY <2>2, <3>1, <3>2, LineTyped
  <2> QED BY <1>c, <2>1, <2>3, <2>4, LineTyped, LineKept
<1> QED BY <1>1, <1>2, <1>3, <1>4, <1>5, <1>6

(* Midnights.  A line that no cycle has starts the day at nothing; a       *)
(* counter that expires early is known.                                    *)
LEMMA MidnightsKeepLines ==
  ASSUME WarmupTypeOK, LinesSound, LocalMidnight \/ UtcMidnight, NEW l \in Lines \ leaked'
  PROVE  LineSound(l)'
<1>0. UNCHANGED call
  BY DEF LocalMidnight, UtcMidnight
<1>1. CASE LocalMidnight
  <2>1. quota[l] = 0 /\ quota'[l] = 0 /\ sent' = sent /\ l \notin leaked
    BY <1>1, LineTyped, NothingTyped DEF LocalMidnight
  <2> QED BY <1>0, <2>1 DEF call, LinesSound, LineSound, Uncalled, ToTalk
<1>2. CASE UtcMidnight
  <2>1. quota'[l] = 0 /\ sent'[l] = 0 /\ (l \in leaked => Uncalled(l))
    BY <1>2, NothingTyped DEF UtcMidnight, Uncalled
  <2>2. \A c, d \in Calls : l \in eligible[c] /\ l \in eligible[d] => c = d
    BY <2>1 DEF LinesSound, LineSound, Uncalled
  <2>3. \A c \in Calls : 0 <= 0 + tally[c][l] /\ 0 <= Limit - 1 + tally[c][l]
    BY LineTyped
  <2>4. 0 <= Limit - 1 + (Turns + 1) \div 2
    BY LineTyped, HalfOfTheTurns
  <2> QED BY <1>0, <2>1, <2>2, <2>3, <2>4 DEF call, LineSound, Uncalled, ToTalk
<1> QED BY <1>1, <1>2

LEMMA LinesSoundStay ==
  WarmupInv /\ [WarmupNext]_warmupVars => LinesSound'
<1> SUFFICES ASSUME WarmupInv, [WarmupNext]_warmupVars, NEW l \in Lines \ leaked' PROVE LineSound(l)'
  BY DEF LinesSound
<1> USE DEF WarmupInv
<1>1. ASSUME UNCHANGED <<quota, call, sent, leaked>> PROVE LineSound(l)'
  BY <1>1 DEF call, LinesSound, LineSound, Uncalled, ToTalk
<1>2. ASSUME NEW c \in Calls, Cycle(c) PROVE LineSound(l)'
  <2>1. leaked \subseteq leaked'
    BY <1>2 DEF Cycle, runCycle, filterEligible, runGroups, buildGroupCandidate, persistGroups, GetLock,
                DelLock, runConversation, Say, Deliver, DeliverFails, EndTalk, CountLine, Fails, PlanFails, world
  <2>2. LineSound(l)
    BY <2>1 DEF LinesSound
  <2> QED BY <1>2, <2>1, <2>2, FilterKeepsLines, DeliverKeepsLines, FailuresKeepLines, CountKeepsLines,
             QuietKeepsLines DEF Cycle
<1>3. CASE LocalMidnight \/ UtcMidnight
  BY <1>3, MidnightsKeepLines
<1>4. CASE UNCHANGED warmupVars \/ Rest \/ LockExpires \/ \E p \in Procs : SetSimulation(p)
  BY <1>1, <1>4 DEF warmupVars, redis, world, Rest, LockExpires, SetSimulation
<1> QED BY <1>2, <1>3, <1>4 DEF WarmupNext

LEMMA WarmupInvInit == WarmupInit => WarmupInv
<1> SUFFICES ASSUME WarmupInit PROVE WarmupInv
  OBVIOUS
<1> USE DEF WarmupInit
<1>1. WarmupTypeOK
  BY NothingTyped, NoTalkTyped, ConstantsAre DEF WarmupTypeOK, Stages
<1>2. OnePerProcess
  BY DEF OnePerProcess, Active
<1>3. ASSUME NEW c \in Calls PROVE CallSound(c) /\ SpeechBound(c)
  <2>1. Waits(talk[c]) /\ tally[c] = Nothing /\ talk[c].group = {}
    BY NoTalkTyped DEF NoTalk
  <2>2. CallSound(c)
    BY <2>1 DEF CallSound, Active
  <2>3. SpeechBound(c)
    BY <2>1, NothingTyped, ConstantsAre DEF SpeechBound, Waits
  <2> QED BY <2>2, <2>3
<1>4. ASSUME NEW l \in Lines PROVE LineSound(l)
  <2>1. sent[l] = 0 /\ quota[l] = 0 /\ \A c \in Calls : l \notin eligible[c]
    BY NothingTyped
  <2> QED BY <2>1, <1>1, LineTyped, HalfOfTheTurns DEF LineSound, ToTalk
<1> QED BY <1>1, <1>2, <1>3, <1>4 DEF WarmupInv, CallsSound, LinesSound

(* The invariant of the warm-up: a process has one cycle at a time, what a *)
(* cycle noted of a line is at most half of a conversation, and the        *)
(* counter with what is noted covers what the line sent.                   *)
THEOREM WarmupInvariant == WarmupSpec => []WarmupInv
<1>1. WarmupInit => WarmupInv
  BY WarmupInvInit
<1>2. WarmupInv /\ [WarmupNext]_warmupVars => WarmupInv'
  BY WarmupTypesKept, OnePerProcessStays, CallsSoundStay, LinesSoundStay DEF WarmupInv
<1> QED BY <1>1, <1>2, PTL DEF WarmupSpec

(* Every variable of the warm-up keeps its type.                           *)
THEOREM WarmupTyped == WarmupSpec => []WarmupTypeOK
<1>1. WarmupInv => WarmupTypeOK
  BY DEF WarmupInv
<1> QED BY <1>1, WarmupInvariant, PTL

(* The daily limit holds up to one conversation, whatever the interleaving *)
(* of the cycles, wherever messages were counted or known not to be.       *)
THEOREM QuotaStays == WarmupSpec => []QuotaKept
<1>1. WarmupInv => QuotaKept
  BY DEF WarmupInv, LinesSound, LineSound, QuotaKept
<1> QED BY <1>1, WarmupInvariant, PTL

-----------------------------------------------------------------------------
(* The form of a campaign (CampaignForm): types.                           *)
Texts     == Templates \cup {Own, NoText}
Tallies    == [Numbers -> Nat]
Fields    == [text : Texts, type : {"text", "image"}, template : Templates \cup {None}, typed : Tallies]
Showing   == [rows : Tallies, text : Texts, file : Files \cup {None}, taken : SUBSET Templates]
OrderForm == [at : {"asked", "read", "created", "over"}, recipients : Tallies, sheet : Sheets \cup {None},
              text : Texts, type : {"text", "image"}, template : Templates \cup {None},
              file : Files \cup {None}, hours : BOOLEAN, shown : Showing]
Made      == [rows : Tallies, text : Texts, media : Files \cup Templates \cup {None}]

InputSound ==
  /\ templates \subseteq Templates /\ fresh \subseteq Templates
  /\ creating # None => creating.template \in Templates
  /\ form \in Fields /\ form.template \in taken \cup {None} /\ taken \subseteq Templates
  /\ file \in Files \cup {None} /\ sheet \in Sheets \cup {None}

OrderTypes == orders \in [Orders -> OrderForm \cup {NoOrder}] /\ campaigns \in [Orders -> Made]

(* A campaign that is of the order.                                        *)
OfOrder(r, c) ==
  /\ c.rows \in {NoRows, r.shown.rows}
  /\ c.text = r.shown.text \/ (r.shown.text = NoText /\ c.text \in r.shown.taken)
  /\ c.media = r.shown.file \/ (r.shown.file = None /\ c.media \in r.shown.taken)
  /\ r.type = "image" => c.media # None

(* What the server has of an order is what the form showed, but for the    *)
(* template, which the form took or which is gone; and the campaign is of  *)
(* the order from its insertion on.                                        *)
Ordered(r) ==
  /\ r.text = r.shown.text /\ r.file = r.shown.file
  /\ r.template \in r.shown.taken \cup {None}
  /\ r.shown.rows = allTargets(r)

OrderSound(r, c) ==
  r # NoOrder =>
    /\ Ordered(r)
    /\ r.at \in {"asked", "read"} => c = NoCampaign
    /\ r.at = "created" => OfOrder(r, c)
    /\ r.at = "over" => OfOrder(r, c) \/ c = NoCampaign

OrdersSound == \A o \in Orders : OrderSound(orders[o], campaigns[o])

FormInv == InputSound /\ OrderTypes /\ OrdersSound

LEMMA FormConstants ==
  /\ Pictures \subseteq Templates /\ Lists \subseteq Tallies /\ Listing \in [Sheets -> Tallies]
  /\ None \notin Templates /\ None \notin Files /\ None \notin Sheets
  /\ NoRows \in Tallies
<1>1. Pictures \subseteq Templates /\ Lists \subseteq Tallies /\ Listing \in [Sheets -> Tallies]
  BY FormAssumption DEF Tallies
<1>2. None \notin Templates /\ None \notin Files /\ None \notin Sheets
  BY FormAssumption
<1>3. NoRows \in Tallies
  BY DEF NoRows, Tallies
<1> QED BY <1>1, <1>2, <1>3

LEMMA NoOrderIsNone == \A r \in OrderForm : r # NoOrder /\ r.at # "none"
BY DEF OrderForm, NoOrder

(* Of typed recipients each number counts once.                            *)
LEMMA OnceCounts ==
  ASSUME NEW rows \in Tallies
  PROVE  Once(rows) \in Tallies /\ \A n \in Numbers : Once(rows)[n] \in Nat
BY DEF Once, Tallies

LEMMA TargetsCount ==
  ASSUME NEW r \in OrderForm
  PROVE  allTargets(r) \in Tallies
<1>1. r.recipients \in Tallies /\ r.sheet \in Sheets \cup {None}
  BY DEF OrderForm
<1>2. \A n \in Numbers : Once(r.recipients)[n] \in Nat
  BY <1>1, OnceCounts
<1>3. \A n \in Numbers : r.sheet # None => Listing[r.sheet][n] \in Nat
  BY <1>1, FormConstants DEF Tallies
<1> QED BY <1>2, <1>3 DEF allTargets, Tallies

(* The recipients that the server makes of an order are those the form     *)
(* showed: of the sheet, if there is one, row by row, else those typed.    *)
LEMMA TargetsAreShown ==
  ASSUME NEW typed \in Tallies, NEW s \in Sheets \cup {None}, NEW r,
         r.sheet = s, r.recipients = IF s # None THEN NoRows ELSE typed
  PROVE  allTargets(r) = IF s # None THEN Listing[s] ELSE Once(typed)
<1>1. CASE s # None
  <2>1. \A n \in Numbers : Once(NoRows)[n] = 0
    BY DEF Once, NoRows
  <2>2. Listing[s] \in [Numbers -> Nat]
    BY <1>1, FormConstants DEF Tallies
  <2>3. allTargets(r) = [n \in Numbers |-> Once(NoRows)[n] + Listing[s][n]]
    BY <1>1 DEF allTargets
  <2>4. \A n \in Numbers : Once(NoRows)[n] + Listing[s][n] = Listing[s][n]
    BY <2>1, <2>2
  <2>5. allTargets(r) = [n \in Numbers |-> Listing[s][n]]
    BY <2>3, <2>4
  <2> QED BY <1>1, <2>2, <2>5
<1>2. CASE s = None
  <2>1. allTargets(r) = [n \in Numbers |-> Once(typed)[n] + 0]
    BY <1>2 DEF allTargets
  <2>2. \A n \in Numbers : Once(typed)[n] + 0 = Once(typed)[n]
    BY OnceCounts
  <2>3. Once(typed) = [n \in Numbers |-> Once(typed)[n]]
    BY DEF Once
  <2> QED BY <1>2, <2>1, <2>2, <2>3
<1> QED BY <1>1, <1>2

-----------------------------------------------------------------------------
(* What the user, the browser and the templates do to the form.            *)
LEMMA EffectKeeps ==
  ASSUME InputSound, NEW list \in SUBSET Templates, NEW t, Effect(list, t),
         UNCHANGED <<fresh, sheet>>, creating' = None \/ creating' = creating
  PROVE  InputSound'
<1>1. templates' \subseteq Templates /\ fresh' \subseteq Templates /\ sheet' \in Sheets \cup {None}
  BY DEF InputSound, Effect
<1>2. creating' # None => creating'.template \in Templates
  BY DEF InputSound
<1>3. CASE UNCHANGED <<form, file, taken>>
  BY <1>1, <1>2, <1>3 DEF InputSound
<1>4. CASE /\ Shown(t, list) # None
           /\ form' = [form EXCEPT !.text = Shown(t, list), !.type = TypeOf(Shown(t, list)),
                                   !.template = Shown(t, list)]
           /\ file' = None /\ taken' = taken \cup {Shown(t, list)}
  <2>1. PICK now : now = Shown(t, list)
    OBVIOUS
  <2>2. now \in Templates
    BY <1>4, <2>1 DEF Shown
  <2>3. form' = [form EXCEPT !.text = now, !.type = TypeOf(now), !.template = now]
    BY <1>4, <2>1
  <2>4. TypeOf(now) \in {"text", "image"}
    BY DEF TypeOf
  <2>5. form' \in Fields /\ form'.template = now
    BY <2>2, <2>3, <2>4 DEF InputSound, Fields, Texts
  <2>6. taken' \subseteq Templates /\ now \in taken' /\ file' = None
    BY <1>4, <2>1, <2>2 DEF InputSound
  <2> QED BY <1>1, <1>2, <2>5, <2>6 DEF InputSound
<1> QED BY <1>3, <1>4 DEF Effect

FormInputs ==
  \/ TypeText \/ insertVariable \/ ChooseType \/ TypeRecipients \/ onTemplateClear \/ handleXlsxDelete
  \/ \E t \in Templates : Use(t) \/ handleCreate(t) \/ handleTemplateDelete(t) \/ DeletedElsewhere(t)
  \/ \E f \in Files \cup Sheets : FileChosen(f)
  \/ \E f \in Files : FileRead(f)
  \/ \E s \in Sheets : SheetRead(s)
  \/ ParserLoads \/ Created \/ OrderAnswered \/ createTemplateService
  \/ \E d \in deletions : TemplateDeleted(d) \/ deleteTemplateService(d)

LEMMA InputsKept ==
  ASSUME InputSound, FormInputs
  PROVE  InputSound'
<1> USE DEF formPage, formInputs, sheets
<1>1. CASE \/ handleXlsxDelete \/ \E f \in Files \cup Sheets : FileChosen(f)
           \/ ParserLoads \/ \E t \in Templates : handleTemplateDelete(t) \/ DeletedElsewhere(t)
  <2>1. sheet' \in Sheets \cup {None}
    BY <1>1 DEF InputSound, handleXlsxDelete, FileChosen, ParserLoads, handleTemplateDelete, DeletedElsewhere
  <2>2. UNCHANGED <<templates, fresh, creating, form, file, taken>>
    BY <1>1 DEF handleXlsxDelete, FileChosen, ParserLoads, handleTemplateDelete, DeletedElsewhere,
                formServer
  <2> QED BY <2>1, <2>2 DEF InputSound
<1>2. CASE TypeText \/ insertVariable \/ ChooseType \/ TypeRecipients
  <2>1. UNCHANGED <<templates, fresh, creating, file, sheet, taken>>
    BY <1>2 DEF TypeText, insertVariable, ChooseType, TypeRecipients, formServer
  <2>2. form' \in Fields /\ form'.template = form.template
    <3>1. CASE TypeText
      BY <3>1 DEF TypeText, InputSound, Fields, Texts
    <3>2. CASE insertVariable
      BY <3>2 DEF insertVariable, InputSound, Fields, Texts
    <3>3. CASE ChooseType
      BY <3>3 DEF ChooseType, InputSound, Fields
    <3>4. CASE TypeRecipients
      BY <3>4, FormConstants DEF TypeRecipients, InputSound, Fields
    <3> QED BY <1>2, <3>1, <3>2, <3>3, <3>4
  <2> QED BY <2>1, <2>2 DEF InputSound
<1>3. CASE onTemplateClear \/ \E t \in Templates : Use(t)
  <2>1. PICK t : Effect(templates, t)
    BY <1>3 DEF onTemplateClear, Use
  <2>2. UNCHANGED <<fresh, creating, sheet>>
    BY <1>3 DEF onTemplateClear, Use, formServer
  <2>3. PICK list : list = templates
    OBVIOUS
  <2> QED BY <2>1, <2>2, <2>3, EffectKeeps DEF InputSound
<1>4. ASSUME NEW t \in Templates, handleCreate(t)
      PROVE  InputSound'
  BY <1>4 DEF handleCreate, InputSound
<1>5. ASSUME NEW f \in Files, FileRead(f)
      PROVE  InputSound'
  BY <1>5 DEF FileRead, InputSound, formServer
<1>6. ASSUME NEW s \in Sheets, SheetRead(s)
      PROVE  InputSound'
  BY <1>6 DEF SheetRead, InputSound, formServer
<1>7. CASE Created
  <2>1. creating # None /\ creating' = None /\ UNCHANGED <<fresh, sheet>>
    BY <1>7 DEF Created, formServer
  <2>2. CASE UNCHANGED <<templates, selected, form, file, taken>>
    BY <2>1, <2>2 DEF InputSound
  <2>3. CASE Effect(templates \cup {creating.template}, creating.template)
    <3>1. PICK list, t : list = templates \cup {creating.template} /\ t = creating.template
      OBVIOUS
    <3>2. list \in SUBSET Templates /\ Effect(list, t)
      BY <2>1, <2>3, <3>1 DEF InputSound
    <3> QED BY <2>1, <3>2, EffectKeeps
  <2> QED BY <1>7, <2>2, <2>3 DEF Created
<1>8. CASE OrderAnswered
  <2>1. /\ form' = Emptied(form) /\ file' = None /\ taken' = {} /\ sheet' = None
        /\ UNCHANGED <<templates, fresh, creating>>
    BY <1>8 DEF OrderAnswered, formServer
  <2>2. form' \in Fields /\ form'.template = None
    BY <2>1, FormConstants DEF InputSound, Fields, Emptied, Texts
  <2> QED BY <2>1, <2>2 DEF InputSound
<1>9. CASE createTemplateService
  <2>1. /\ creating # None /\ creating' = [creating EXCEPT !.made = TRUE]
        /\ UNCHANGED <<templates, fresh, form, file, taken, sheet>>
    BY <1>9 DEF createTemplateService
  <2>2. creating'.template = creating.template
    BY <2>1
  <2> QED BY <2>1, <2>2 DEF InputSound
<1>10. ASSUME NEW d \in deletions, TemplateDeleted(d) \/ deleteTemplateService(d)
       PROVE  InputSound'
  <2>1. UNCHANGED <<fresh, creating, sheet>>
    BY <1>10 DEF TemplateDeleted, deleteTemplateService, formServer
  <2>2. CASE UNCHANGED <<templates, form, file, taken>>
    BY <2>1, <2>2 DEF InputSound
  <2>3. CASE Effect(templates \ {d.template}, IF d.selected = d.template THEN None ELSE selected)
    <3>1. PICK list, t : /\ list = templates \ {d.template}
                         /\ t = IF d.selected = d.template THEN None ELSE selected
      OBVIOUS
    <3>2. list \in SUBSET Templates /\ Effect(list, t)
      BY <2>3, <3>1 DEF InputSound
    <3> QED BY <2>1, <3>2, EffectKeeps
  <2> QED BY <1>10, <2>2, <2>3 DEF TemplateDeleted, deleteTemplateService
<1> QED BY <1>1, <1>2, <1>3, <1>4, <1>5, <1>6, <1>7, <1>8, <1>9, <1>10 DEF FormInputs

LEMMA InputsLeaveOrders ==
  ASSUME FormInputs
  PROVE  UNCHANGED <<orders, campaigns>>
BY DEF FormInputs, formServer, formInputs, TypeText, insertVariable, ChooseType, TypeRecipients, onTemplateClear,
       handleXlsxDelete, Use, handleCreate, handleTemplateDelete, DeletedElsewhere, FileChosen, FileRead,
       SheetRead, ParserLoads, Created, OrderAnswered, createTemplateService, TemplateDeleted,
       deleteTemplateService

-----------------------------------------------------------------------------
(* The order, on its way through the server.                               *)
LEMMA OthersKept ==
  ASSUME OrderTypes, OrdersSound, NEW o \in Orders, NEW r \in OrderForm \cup {NoOrder}, NEW c \in Made,
         orders' = [orders EXCEPT ![o] = r], campaigns' = [campaigns EXCEPT ![o] = c], OrderSound(r, c)
  PROVE  OrderTypes' /\ OrdersSound'
<1>1. OrderTypes'
  BY DEF OrderTypes
<1>2. orders'[o] = r /\ campaigns'[o] = c
  BY DEF OrderTypes
<1>3. \A p \in Orders : p # o => orders'[p] = orders[p] /\ campaigns'[p] = campaigns[p]
  BY DEF OrderTypes
<1>4. \A p \in Orders : OrderSound(orders'[p], campaigns'[p])
  BY <1>2, <1>3 DEF OrdersSound
<1> QED BY <1>1, <1>4 DEF OrdersSound

LEMMA SameCampaign ==
  ASSUME OrderTypes, NEW o \in Orders, campaigns' = campaigns
  PROVE  campaigns[o] \in Made /\ campaigns' = [campaigns EXCEPT ![o] = campaigns[o]]
BY DEF OrderTypes

(* A later step of an order changes nothing of what was ordered.           *)
LEMMA StepOrdered ==
  ASSUME NEW r \in OrderForm, Ordered(r), NEW at \in {"read", "created", "over"},
         NEW t \in {r.template, None},
         NEW new, new = [r EXCEPT !.at = at, !.template = t]
  PROVE  new \in OrderForm /\ Ordered(new) /\ new.at = at /\ new # NoOrder
<1>1. /\ new.text = r.text /\ new.file = r.file /\ new.shown = r.shown /\ new.template = t
      /\ new.recipients = r.recipients /\ new.sheet = r.sheet /\ new.at = at
  BY DEF OrderForm
<1>2. new \in OrderForm
  BY DEF OrderForm
<1>3. allTargets(new) = allTargets(r)
  BY <1>1 DEF allTargets
<1>4. Ordered(new)
  BY <1>1, <1>3 DEF Ordered
<1> QED BY <1>1, <1>2, <1>4, NoOrderIsNone

LEMMA StepOfOrder ==
  ASSUME NEW r \in OrderForm, NEW c, OfOrder(r, c), NEW at,
         NEW new, new = [r EXCEPT !.at = at, !.template = r.template]
  PROVE  OfOrder(new, c)
BY DEF OrderForm, OfOrder

LEMMA OrderMade ==
  ASSUME FormInv, NEW o \in Orders, NEW hours \in BOOLEAN, handleSubmit(o, hours)
  PROVE  OrderTypes' /\ OrdersSound'
<1>1. InputSound /\ OrderTypes /\ OrdersSound
  BY DEF FormInv
<1> DEFINE shows == [rows |-> IF sheet # None THEN Listing[sheet] ELSE Once(form.typed),
                     text |-> form.text, file |-> Attached, taken |-> taken]
           order == [at |-> "asked", recipients |-> Recipients, sheet |-> sheet, text |-> form.text,
                     type |-> form.type, template |-> form.template, file |-> Attached, hours |-> hours,
                     shown |-> shows]
<1>2. orders' = [orders EXCEPT ![o] = order] /\ campaigns' = [campaigns EXCEPT ![o] = NoCampaign]
  BY DEF handleSubmit
<1>3. form.typed \in Tallies /\ sheet \in Sheets \cup {None} /\ Attached \in Files \cup {None}
  BY <1>1 DEF InputSound, Fields, Attached
<1>4. Recipients \in Tallies /\ (IF sheet # None THEN Listing[sheet] ELSE Once(form.typed)) \in Tallies
  <2>1. Recipients \in Tallies
    BY <1>3, FormConstants DEF Recipients
  <2>2. Once(form.typed) \in Tallies
    BY <1>3, OnceCounts
  <2>3. sheet # None => Listing[sheet] \in Tallies
    BY <1>3, FormConstants
  <2> QED BY <2>1, <2>2, <2>3
<1>5. form.text \in Texts /\ form.type \in {"text", "image"} /\ form.template \in Templates \cup {None}
  BY <1>1 DEF InputSound, Fields
<1>6. shows \in Showing
  BY <1>1, <1>3, <1>4, <1>5 DEF InputSound, Showing
<1>7. order \in OrderForm
  <2> HIDE DEF shows
  <2> QED BY <1>3, <1>4, <1>5, <1>6 DEF OrderForm
<1>8. allTargets(order) = shows.rows
  <2>1. order.sheet = sheet /\ order.recipients = IF sheet # None THEN NoRows ELSE form.typed
    BY DEF Recipients
  <2>2. PICK r : r = order
    OBVIOUS
  <2>3. allTargets(r) = IF sheet # None THEN Listing[sheet] ELSE Once(form.typed)
    <3> HIDE DEF order
    <3> QED BY <1>3, <2>1, <2>2, TargetsAreShown
  <2> QED BY <2>2, <2>3
<1>9. Ordered(order)
  <2>1. order.text = order.shown.text /\ order.file = order.shown.file
    OBVIOUS
  <2>2. order.template \in order.shown.taken \cup {None}
    BY <1>1 DEF InputSound
  <2>3. order.shown.rows = allTargets(order)
    BY <1>8
  <2> HIDE DEF order
  <2> QED BY <2>1, <2>2, <2>3 DEF Ordered
<1>10. order.at = "asked"
  OBVIOUS
<1> HIDE DEF order
<1>11. NoCampaign \in Made /\ OrderSound(order, NoCampaign)
  BY <1>9, <1>10, FormConstants DEF OrderSound, NoCampaign, Made, Texts
<1> QED BY <1>1, <1>2, <1>7, <1>11, OthersKept

LEMMA OrderHandled ==
  ASSUME FormInv, NEW o \in Orders,
         ReadTemplate(o) \/ createBroadcastCampaign(o) \/ insertBroadcastMessages(o) \/ Refused(o)
  PROVE  OrderTypes' /\ OrdersSound'
<1>1. InputSound /\ OrderTypes /\ OrdersSound
  BY DEF FormInv
<1>2. PICK r, c : r = orders[o] /\ c = campaigns[o]
  OBVIOUS
<1>3. r \in OrderForm /\ c \in Made /\ r.at \in {"asked", "read", "created"}
  BY <1>1, <1>2 DEF OrderTypes, NoOrder, ReadTemplate, createBroadcastCampaign, insertBroadcastMessages,
                    Refused, InStep
<1>4. /\ r # NoOrder /\ Ordered(r)
      /\ r.at \in {"asked", "read"} => c = NoCampaign
      /\ r.at = "created" => OfOrder(r, c)
  BY <1>1, <1>2, <1>3, NoOrderIsNone DEF OrdersSound, OrderSound
<1>5. CASE ReadTemplate(o)
  <2>1. orders' = [orders EXCEPT ![o].at = "read", ![o].template = Shown(@, stored)] /\ campaigns' = campaigns
        /\ r.at = "asked"
    BY <1>2, <1>5 DEF ReadTemplate, InStep
  <2>2. PICK t : t = Shown(r.template, stored)
    OBVIOUS
  <2>3. PICK new : new = [r EXCEPT !.at = "read", !.template = t]
    OBVIOUS
  <2>4. orders' = [orders EXCEPT ![o] = new]
    BY <1>1, <1>2, <1>3, <2>1, <2>2, <2>3 DEF OrderTypes, OrderForm
  <2>5. t \in {r.template, None}
    BY <2>2 DEF Shown
  <2>6. new \in OrderForm /\ Ordered(new) /\ new.at = "read"
    BY <1>3, <1>4, <2>3, <2>5, StepOrdered
  <2>7. OrderSound(new, c)
    BY <1>4, <2>1, <2>6 DEF OrderSound
  <2>8. campaigns' = [campaigns EXCEPT ![o] = c]
    BY <1>1, <1>2, <2>1 DEF OrderTypes
  <2> QED BY <1>1, <1>3, <2>4, <2>6, <2>7, <2>8, OthersKept
<1>6. ASSUME NEW at \in {"created", "over"}, orders' = [orders EXCEPT ![o].at = at],
             NEW d \in Made, campaigns' = [campaigns EXCEPT ![o] = d],
             at = "created" => OfOrder(r, d), at = "over" => OfOrder(r, d) \/ d = NoCampaign
      PROVE  OrderTypes' /\ OrdersSound'
  <2>1. PICK t, new : t = r.template /\ new = [r EXCEPT !.at = at, !.template = t]
    OBVIOUS
  <2>2. orders' = [orders EXCEPT ![o] = new]
    BY <1>1, <1>2, <1>3, <1>6, <2>1 DEF OrderTypes, OrderForm
  <2>3. t \in {r.template, None} /\ at \in {"read", "created", "over"}
    BY <2>1
  <2>4. new \in OrderForm /\ Ordered(new) /\ new.at = at
    BY <1>3, <1>4, <2>1, <2>3, StepOrdered
  <2>5. OfOrder(r, d) => OfOrder(new, d)
    BY <1>3, <2>1, StepOfOrder
  <2>6. OrderSound(new, d)
    BY <1>6, <2>4, <2>5 DEF OrderSound
  <2> QED BY <1>1, <1>6, <2>2, <2>4, <2>6, OthersKept
<1>7. CASE createBroadcastCampaign(o)
  <2>1. PICK d : d = [rows |-> NoRows, text |-> TextOf(r), media |-> MediaOf(r)]
    OBVIOUS
  <2>2. /\ orders' = [orders EXCEPT ![o].at = "created"] /\ campaigns' = [campaigns EXCEPT ![o] = d]
        /\ Acceptable(r)
    BY <1>2, <1>7, <2>1 DEF createBroadcastCampaign, ToStep
  <2>3. d.rows = NoRows /\ d.text = TextOf(r) /\ d.media = MediaOf(r)
    BY <2>1
  <2>4. TextOf(r) = r.shown.text \/ (r.shown.text = NoText /\ TextOf(r) \in r.shown.taken)
    BY <1>4, FormConstants DEF TextOf, Ordered
  <2>5. MediaOf(r) = r.shown.file \/ (r.shown.file = None /\ MediaOf(r) \in r.shown.taken)
    BY <1>4, FormConstants DEF MediaOf, Ordered
  <2>6. OfOrder(r, d)
    BY <2>2, <2>3, <2>4, <2>5 DEF OfOrder, Acceptable
  <2>7. d \in Made
    <3>1. TextOf(r) \in Texts
      BY <1>3, FormConstants DEF TextOf, OrderForm, Texts
    <3>2. MediaOf(r) \in Files \cup Templates \cup {None}
      BY <1>3, FormConstants DEF MediaOf, OrderForm
    <3> QED BY <2>1, <3>1, <3>2, FormConstants DEF Made
  <2> QED BY <1>6, <2>2, <2>6, <2>7
<1>8. CASE insertBroadcastMessages(o)
  <2>1. PICK d : d = [c EXCEPT !.rows = allTargets(r)]
    OBVIOUS
  <2>2. /\ orders' = [orders EXCEPT ![o].at = "over"] /\ campaigns' = [campaigns EXCEPT ![o].rows = allTargets(r)]
        /\ r.at = "created"
    BY <1>2, <1>8 DEF insertBroadcastMessages, ToStep, InStep
  <2>3. campaigns' = [campaigns EXCEPT ![o] = d]
    BY <1>1, <1>2, <2>1, <2>2 DEF OrderTypes
  <2>4. d \in Made /\ d.rows = allTargets(r) /\ d.text = c.text /\ d.media = c.media
    BY <1>3, <2>1, TargetsCount DEF Made
  <2>5. OfOrder(r, d)
    BY <1>4, <2>2, <2>4 DEF OfOrder, Ordered
  <2> QED BY <1>6, <2>2, <2>3, <2>4, <2>5
<1>9. CASE Refused(o)
  <2>1. orders' = [orders EXCEPT ![o].at = "over"] /\ campaigns' = campaigns
    BY <1>9 DEF Refused, ToStep
  <2>2. campaigns' = [campaigns EXCEPT ![o] = c]
    BY <1>1, <1>2, <2>1 DEF OrderTypes
  <2> QED BY <1>3, <1>4, <1>6, <2>1, <2>2
<1> QED BY <1>5, <1>7, <1>8, <1>9

(* The form of a campaign keeps, in all its variables: the parts above.    *)
THEOREM FormInvariant == FormSpec => []FormInv
<1>1. FormInit => FormInv
  <2> SUFFICES ASSUME FormInit PROVE FormInv
    OBVIOUS
  <2>1. form \in Fields /\ form.template = None
    BY FormConstants DEF FormInit, Fields, Texts
  <2>2. InputSound
    BY <2>1 DEF FormInit, InputSound, loadData
  <2>3. NoCampaign \in Made
    BY FormConstants DEF NoCampaign, Made, Texts
  <2>4. OrderTypes
    BY <2>3 DEF FormInit, OrderTypes
  <2>5. OrdersSound
    BY DEF FormInit, OrdersSound, OrderSound
  <2> QED BY <2>2, <2>4, <2>5 DEF FormInv
<1>2. FormInv /\ [FormNext]_formVars => FormInv'
  <2> SUFFICES ASSUME FormInv, [FormNext]_formVars PROVE FormInv'
    OBVIOUS
  <2>1. InputSound /\ OrderTypes /\ OrdersSound
    BY DEF FormInv
  <2>2. ASSUME UNCHANGED <<orders, campaigns>>, InputSound' PROVE FormInv'
    BY <2>1, <2>2 DEF FormInv, OrderTypes, OrdersSound
  <2>3. ASSUME UNCHANGED <<formPage, formInputs, stored, fresh>>, OrderTypes' /\ OrdersSound' PROVE FormInv'
    <3>1. UNCHANGED <<templates, fresh, creating, form, file, taken, sheet>>
      BY <2>3 DEF formPage, formInputs, sheets
    <3> QED BY <2>1, <2>3, <3>1 DEF FormInv, InputSound
  <2>4. CASE FormInputs
    BY <2>1, <2>2, <2>4, InputsKept, InputsLeaveOrders
  <2>5. ASSUME NEW o \in Orders, NEW hours \in BOOLEAN, handleSubmit(o, hours) PROVE FormInv'
    <3>1. UNCHANGED <<formPage, formInputs, stored, fresh>>
      BY <2>5 DEF handleSubmit
    <3> QED BY <2>3, <2>5, <3>1, OrderMade
  <2>6. ASSUME NEW o \in Orders,
               ReadTemplate(o) \/ createBroadcastCampaign(o) \/ insertBroadcastMessages(o) \/ Refused(o)
        PROVE  FormInv'
    <3>1. UNCHANGED <<formPage, formInputs, stored, fresh>>
      BY <2>6 DEF ReadTemplate, createBroadcastCampaign, insertBroadcastMessages, Refused
    <3> QED BY <2>3, <2>6, <3>1, OrderHandled
  <2>7. ASSUME NEW o \in Orders, Forget(o) PROVE FormInv'
    <3>1. /\ UNCHANGED <<formPage, formInputs, stored, fresh>>
          /\ orders' = [orders EXCEPT ![o] = NoOrder] /\ campaigns' = [campaigns EXCEPT ![o] = NoCampaign]
      BY <2>7 DEF Forget
    <3>2. NoCampaign \in Made /\ OrderSound(NoOrder, NoCampaign)
      BY FormConstants DEF NoCampaign, Made, Texts, OrderSound
    <3> QED BY <2>1, <2>3, <3>1, <3>2, OthersKept
  <2>8. CASE UNCHANGED formVars
    <3>1. UNCHANGED <<orders, campaigns, templates, fresh, creating, form, file, taken, sheet>>
      BY <2>8 DEF formVars, formPage, formInputs, formServer, sheets
    <3> QED BY <2>1, <2>2, <3>1 DEF InputSound
  <2> QED BY <2>4, <2>5, <2>6, <2>7, <2>8 DEF FormNext, FormUser, FormPage, FormServer, FormInputs
<1> QED BY <1>1, <1>2, PTL DEF FormSpec

(* A campaign is what the form showed when it was sent (BroadcastForm.jsx, *)
(* handleSubmit; broadcast.service.js, createBroadcastCampaignService),    *)
(* whatever happened since to the form, its files and the templates.       *)
THEOREM CampaignsAreAsShown == FormSpec => []CampaignIsAsShown
<1>1. FormInv => CampaignIsAsShown
  <2> SUFFICES ASSUME FormInv, NEW o \in Orders, orders[o] # NoOrder, campaigns[o] # NoCampaign
               PROVE  OfOrder(orders[o], campaigns[o])
    BY DEF CampaignIsAsShown, OfOrder
  <2>1. orders[o] \in OrderForm /\ OrderSound(orders[o], campaigns[o])
    BY DEF FormInv, OrderTypes, OrdersSound
  <2> QED BY <2>1 DEF OrderSound, OrderForm
<1> QED BY <1>1, FormInvariant, PTL

=============================================================================
