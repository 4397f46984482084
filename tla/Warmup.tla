------------------------------- MODULE Warmup -------------------------------
(***************************************************************************)
(* The warm-up of lines by conversations among them (backend/src/services/ *)
(* warmupScheduler.js, warmupEngine.js, warmupBlenderService.js and        *)
(* modules/warmup/warmupManager.js).  A cycle picks the lines that have    *)
(* quota and have rested, blends them into groups under a lock in Redis,   *)
(* lets each group talk, and counts afterwards what was said.  A step is   *)
(* what a cycle does between two awaits.  A cycle may be asked for by hand *)
(* at any time, so the timer and `paused` decide nothing here.  Redis and  *)
(* WhatsApp are external.  Left out: texts and delays, telemetry, and the  *)
(* caps of messages per run, which a conversation does not reach.          *)
(***************************************************************************)
EXTENDS Naturals, FiniteSets, Sequences

CONSTANTS
  Lines,
  Calls,      \* calls of runCycle, from the queue or by hand
  Procs,      \* processes of the program
  NoCall,
  Limit,      \* dailyLimit of the profile
  Turns,      \* messages of a conversation
  MinGroup, MaxGroup,
  FailLimit,  \* failShutdownThreshold
  Attempts,   \* attempts at a message
  MaxTimes    \* bound: expiries, midnights, and switches of the mode

ASSUME WarmupAssumption ==
  /\ {Limit, Turns, MinGroup, FailLimit, Attempts} \subseteq Nat \ {0}
  /\ MaxGroup >= MinGroup /\ MaxTimes \in Nat /\ NoCall \notin Calls \cup Lines

VARIABLES
  quota, rested, recent, used,  \* Redis: warmup:quota of the day, warmup:last-run long
            \* enough ago, recent-pair, and recent-group keys
  lock,     \* Redis: warmup:grouping:lock
  engineRunning, disabled, failures, simulate,  \* the scheduler and the engine of a process
  home,     \* the process of a call
  pc, todo, eligible, plan, talk, tally,  \* a call: where it is, the lines it has yet to
            \* look at or to count, those eligible, its groups, the conversation, what was said
  sent,     \* messages WhatsApp took from each line this day
  times,     \* expiries, midnights and switches so far
  leaked    \* history: lines with messages no counter knows of, or read by two
            \* processes at once

redis == <<quota, rested, recent, used, lock>>
engine == <<engineRunning, disabled, failures, simulate>>
call == <<home, pc, todo, eligible, plan, talk, tally>>
world == <<sent, times, leaked>>
warmupVars == <<redis, engine, call, world>>

Nothing == [l \in Lines |-> 0]
NoTalk == [group |-> {}, last |-> NoCall, left |-> 0, say |-> NoCall, tries |-> 0, sim |-> FALSE,
           mock |-> Nothing]
Pairs(g) == {{l, k} : l, k \in g} \ {{l} : l \in g}

WarmupInit ==
  /\ quota = Nothing /\ rested = Lines /\ recent = {} /\ used = {} /\ lock = NoCall
  /\ engineRunning = [p \in Procs |-> FALSE] /\ disabled = [p \in Procs |-> FALSE]
  /\ failures = [p \in Procs |-> 0] /\ simulate = [p \in Procs |-> TRUE]
  /\ home \in [Calls -> Procs]
  /\ pc = [c \in Calls |-> "idle"]
  /\ todo = [c \in Calls |-> {}] /\ eligible = [c \in Calls |-> {}]
  /\ plan = [c \in Calls |-> {}] /\ talk = [c \in Calls |-> NoTalk]
  /\ tally = [c \in Calls |-> Nothing]
  /\ sent = Nothing /\ times = 0 /\ leaked = {}

Reach(c, step) == pc' = [pc EXCEPT ![c] = step]
First(S) == CHOOSE l \in S : TRUE

-----------------------------------------------------------------------------
(* setSimulation.                                                          *)
SetSimulation(p) ==
  /\ times < MaxTimes /\ times' = times + 1
  /\ simulate' = [simulate EXCEPT ![p] = ~@]
  /\ UNCHANGED <<redis, engineRunning, disabled, failures, call, sent, leaked>>

(* runCycle: one at a time in a process.                                   *)
MayRunAlways(p) == TRUE  \* mutant
MayRun(p) == ~engineRunning[p]

runCycle(c) ==
  /\ pc[c] = "idle" /\ MayRun(home[c])
  /\ engineRunning' = [engineRunning EXCEPT ![home[c]] = TRUE]
  /\ todo' = [todo EXCEPT ![c] = Lines] /\ Reach(c, "filter")
  /\ UNCHANGED <<redis, disabled, failures, simulate, home, eligible, plan, talk, tally, world>>

(* mutants: the limit may be reached before a line is passed over ...      *)
HasQuotaLate(l) == quota[l] <= Limit

HasQuota(l) == quota[l] < Limit

(* filterEligible, line by line.  Its status may be none of those allowed. *)
filterEligible(c) ==
  LET l == First(todo[c]) IN
  /\ pc[c] = "filter" /\ todo[c] # {}
  /\ todo' = [todo EXCEPT ![c] = @ \ {l}]
  /\ \/ UNCHANGED <<eligible, leaked>>
     \/ /\ HasQuota(l) /\ l \in rested
        /\ eligible' = [eligible EXCEPT ![c] = @ \cup {l}]
        /\ leaked' = IF \E d \in Calls : home[d] # home[c] /\ l \in eligible[d]
                     THEN leaked \cup {l} ELSE leaked
  /\ UNCHANGED <<redis, engine, home, pc, plan, talk, tally, sent, times>>

(* The cycle is over: what was said and not counted is forgotten.          *)
Over(c) ==
  /\ engineRunning' = [engineRunning EXCEPT ![home[c]] = FALSE]
  /\ Reach(c, "over")
  /\ todo' = [todo EXCEPT ![c] = {}] /\ eligible' = [eligible EXCEPT ![c] = {}]
  /\ plan' = [plan EXCEPT ![c] = {}] /\ talk' = [talk EXCEPT ![c] = NoTalk]
  /\ tally' = [tally EXCEPT ![c] = Nothing]
  /\ UNCHANGED home

Uncounted(c) == {l \in Lines : tally[c][l] > 0}

(* acquireLock: SET NX.                                                    *)
Acquirable == lock = NoCall

runGroups(c) ==
  /\ pc[c] = "filter" /\ todo[c] = {}
  /\ IF disabled[home[c]] \/ Cardinality(eligible[c]) < MinGroup \/ ~Acquirable
     THEN Over(c) /\ UNCHANGED lock
     ELSE /\ lock' = c /\ Reach(c, "plan")
          /\ talk' = [talk EXCEPT ![c].sim = simulate[home[c]]]
          /\ UNCHANGED <<engineRunning, home, todo, eligible, plan, tally>>
  /\ UNCHANGED <<quota, rested, recent, used, disabled, failures, simulate, world>>

(* buildGroupSizes: groups of a legal size that use the lines up.          *)
Sized(g, lines) ==
  LET n == Cardinality(lines) IN
  IF n <= MaxGroup THEN g = lines
  ELSE Cardinality(g) >= MinGroup /\ Cardinality(g) <= MaxGroup /\ Cardinality(g) <= n - MinGroup

(* buildGroupCandidate: the recency of a line and its recent pairs are     *)
(* read from results of the client that are no pairs, so every line looks  *)
(* unused and every pair new, and chance decides.  A group made lately is  *)
(* tried again, a few times.                                               *)
buildGroupCandidate(c) ==
  LET free == eligible[c] \ UNION plan[c]
      groups == {g \in SUBSET free : Sized(g, free)} IN
  /\ pc[c] = "plan" /\ Cardinality(free) >= MinGroup
  /\ \/ \E g \in groups \ used : plan' = [plan EXCEPT ![c] = @ \cup {g}] /\ UNCHANGED pc
     \/ groups \cap used # {} /\ Reach(c, "persist") /\ UNCHANGED plan
  /\ UNCHANGED <<redis, engine, home, todo, eligible, talk, tally, world>>

persistGroups(c) ==
  /\ pc[c] = "persist" \/ (pc[c] = "plan" /\ Cardinality(eligible[c] \ UNION plan[c]) < MinGroup)
  /\ used' = used \cup plan[c]
  /\ recent' = recent \cup UNION {Pairs(g) : g \in plan[c]}
  /\ Reach(c, "release")
  /\ UNCHANGED <<quota, rested, lock, engine, home, todo, eligible, plan, talk, tally, world>>

(* releaseLock: GET, and then DEL of whatever the key is by then.          *)
GetLock(c) ==
  /\ pc[c] = "release"
  /\ Reach(c, IF lock = c THEN "del" ELSE "talk")
  /\ UNCHANGED <<redis, engine, home, todo, eligible, plan, talk, tally, world>>

DelLock(c) ==
  /\ pc[c] = "del" /\ lock' = NoCall /\ Reach(c, "talk")
  /\ UNCHANGED <<quota, rested, recent, used, engine, home, todo, eligible, plan, talk, tally, world>>

-----------------------------------------------------------------------------
(* runConversation.  A session that is not connected keeps its group       *)
(* silent.                                                                 *)
runConversation(c) ==
  /\ pc[c] = "talk" /\ talk[c].group = {}
  /\ \E g \in plan[c] :
       /\ plan' = [plan EXCEPT ![c] = @ \ {g}]
       /\ todo' = [todo EXCEPT ![c] = @ \cup g]
       /\ talk' \in {talk, [talk EXCEPT ![c].group = g, ![c].last = NoCall, ![c].left = Turns]}
  /\ UNCHANGED <<redis, engine, home, pc, eligible, tally, world>>

(* mutant                                                                  *)
AnySpeaker(c) == talk[c].group

(* generateHumanConversation: nobody speaks twice in a row.                *)
Speakers(c) == talk[c].group \ {talk[c].last}

Simulated(c) == talk[c].sim \/ simulate[home[c]]

Say(c) ==
  /\ pc[c] = "talk" /\ talk[c].left > 0 /\ talk[c].say = NoCall
  /\ \E l \in Speakers(c) :
       LET t == [talk[c] EXCEPT !.last = l, !.left = @ - 1] IN
       talk' = [talk EXCEPT ![c] = IF Simulated(c) THEN [t EXCEPT !.mock[l] = @ + 1]
                                   ELSE [t EXCEPT !.say = l, !.tries = 1]]
  /\ UNCHANGED <<redis, engine, home, pc, todo, eligible, plan, tally, world>>

Deliver(c) ==
  LET l == talk[c].say IN
  /\ pc[c] = "talk" /\ l # NoCall
  /\ sent' = [sent EXCEPT ![l] = @ + 1]
  /\ tally' = [tally EXCEPT ![c][l] = @ + 1]
  /\ talk' = [talk EXCEPT ![c].say = NoCall]
  /\ failures' = [failures EXCEPT ![home[c]] = 0]
  /\ UNCHANGED <<redis, engineRunning, disabled, simulate, home, pc, todo, eligible, plan, times, leaked>>

(* sendWithRetry: a failed attempt, whether or not the message went out;   *)
(* after the last, or an error that is final, the whole cycle fails.       *)
DeliverFails(c) ==
  LET l == talk[c].say
      p == home[c] IN
  /\ pc[c] = "talk" /\ l # NoCall
  /\ \E out \in BOOLEAN :
       /\ sent' = IF out THEN [sent EXCEPT ![l] = @ + 1] ELSE sent
       /\ \/ /\ talk[c].tries < Attempts
             /\ talk' = [talk EXCEPT ![c].tries = @ + 1]
             /\ leaked' = IF out THEN leaked \cup {l} ELSE leaked
             /\ UNCHANGED <<engineRunning, disabled, failures, home, pc, todo, eligible, plan, tally>>
          \/ /\ failures' = [failures EXCEPT ![p] = @ + 1]
             /\ disabled' = [disabled EXCEPT ![p] = failures[p] + 1 >= FailLimit]
             /\ leaked' = leaked \cup Uncounted(c) \cup IF out THEN {l} ELSE {}
             /\ Over(c)
  /\ UNCHANGED <<redis, simulate, times>>

(* Simulated messages are reported as delivered if the mode is still on.   *)
EndTalk(c) ==
  /\ pc[c] = "talk" /\ talk[c].group # {} /\ talk[c].left = 0 /\ talk[c].say = NoCall
  /\ tally' = [tally EXCEPT ![c] =
                 [l \in Lines |-> @[l] + IF Simulated(c) THEN talk[c].mock[l] ELSE 0]]
  /\ talk' = [talk EXCEPT ![c].group = {}, ![c].mock = Nothing]
  /\ UNCHANGED <<redis, engine, home, pc, todo, eligible, plan, world>>

-----------------------------------------------------------------------------
(* mutant: a line counts its conversations.                                *)
CountedOnce(c, l) == IF tally[c][l] > 0 THEN 1 ELSE 0

(* incrementQuota for what a line said, simulated or not, and setLastRun.  *)
Counted(c, l) == tally[c][l]

CountLine(c) ==
  LET l == First(todo[c]) IN
  /\ pc[c] = "talk" /\ talk[c].group = {} /\ plan[c] = {}
  /\ IF todo[c] = {} THEN Over(c) /\ UNCHANGED <<quota, rested>>
     ELSE /\ todo' = [todo EXCEPT ![c] = @ \ {l}]
          /\ quota' = [quota EXCEPT ![l] = @ + Counted(c, l)]
          /\ tally' = [tally EXCEPT ![c][l] = 0]
          /\ rested' = rested \ {l}
          /\ UNCHANGED <<engineRunning, home, pc, eligible, plan, talk>>
  /\ UNCHANGED <<recent, used, lock, disabled, failures, simulate, world>>

(* An error of Redis or of the registry ends a cycle; a crash of its       *)
(* process forgets the rest.                                               *)
Fails(c) ==
  /\ pc[c] \notin {"idle", "over", "plan", "persist"} /\ Over(c)
  /\ leaked' = leaked \cup Uncounted(c)
  /\ UNCHANGED <<redis, disabled, failures, simulate, sent, times>>

(* The lock of a plan that failed is released, and the cycle is over.      *)
PlanFails(c) ==
  /\ pc[c] \in {"plan", "persist"} /\ plan' = [plan EXCEPT ![c] = {}]
  /\ Reach(c, "release")
  /\ UNCHANGED <<redis, engine, home, todo, eligible, talk, tally, world>>

-----------------------------------------------------------------------------
(* Time.  The key of the quota names a UTC day and expires at midnight of  *)
(* the server's clock.                                                     *)
LockExpires ==
  /\ times < MaxTimes /\ times' = times + 1
  /\ lock # NoCall /\ lock' = NoCall
  /\ UNCHANGED <<quota, rested, recent, used, engine, call, sent, leaked>>

Rest ==
  /\ times < MaxTimes /\ times' = times + 1
  /\ rested' = Lines
  /\ \E kept \in {<<recent, used>>, <<{}, used>>, <<{}, {}>>} :
       recent' = kept[1] /\ used' = kept[2]
  /\ UNCHANGED <<quota, lock, engine, call, sent, leaked>>

LocalMidnight ==
  /\ times < MaxTimes /\ times' = times + 1
  /\ quota # Nothing /\ quota' = Nothing
  /\ leaked' = leaked \cup {l \in Lines : quota[l] > 0}
  /\ UNCHANGED <<rested, recent, used, lock, engine, call, sent>>

UtcMidnight ==
  /\ times < MaxTimes /\ times' = times + 1
  /\ quota' = Nothing /\ sent' = Nothing
  /\ leaked' = {l \in leaked : \E c \in Calls : l \in eligible[c]}
  /\ UNCHANGED <<rested, recent, used, lock, engine, call>>

Cycle(c) ==
  \/ runCycle(c) \/ filterEligible(c) \/ runGroups(c) \/ buildGroupCandidate(c) \/ persistGroups(c)
  \/ GetLock(c) \/ DelLock(c) \/ runConversation(c) \/ Say(c) \/ Deliver(c) \/ DeliverFails(c)
  \/ EndTalk(c) \/ CountLine(c) \/ Fails(c) \/ PlanFails(c)

WarmupNext ==
  \/ \E c \in Calls : Cycle(c)
  \/ \E p \in Procs : SetSimulation(p)
  \/ Rest \/ LockExpires \/ LocalMidnight \/ UtcMidnight

WarmupSpec == WarmupInit /\ [][WarmupNext]_warmupVars

-----------------------------------------------------------------------------
(* Types.                                                                  *)
Stages == {"idle", "filter", "plan", "persist", "release", "del", "talk", "over"}
Talks  == [group : SUBSET Lines, last : Lines \cup {NoCall}, left : 0..Turns,
           say : Lines \cup {NoCall}, tries : Nat, sim : BOOLEAN, mock : [Lines -> Nat]]

WarmupTypeOK ==
  /\ quota \in [Lines -> Nat] /\ rested \subseteq Lines /\ lock \in Calls \cup {NoCall}
  /\ recent \subseteq SUBSET Lines /\ used \subseteq SUBSET Lines
  /\ engineRunning \in [Procs -> BOOLEAN] /\ disabled \in [Procs -> BOOLEAN]
  /\ failures \in [Procs -> Nat] /\ simulate \in [Procs -> BOOLEAN]
  /\ home \in [Calls -> Procs] /\ pc \in [Calls -> Stages]
  /\ todo \in [Calls -> SUBSET Lines] /\ eligible \in [Calls -> SUBSET Lines]
  /\ plan \in [Calls -> SUBSET SUBSET Lines] /\ talk \in [Calls -> Talks]
  /\ tally \in [Calls -> [Lines -> Nat]]
  /\ sent \in [Lines -> Nat] /\ times \in 0..MaxTimes /\ leaked \subseteq Lines

(* The daily limit means what it says: in a day a line sends less than its *)
(* limit and one conversation, unless messages of it were not counted (a   *)
(* send or a cycle failed, a counter expired early) or two processes had   *)
(* it at once.                                                             *)
QuotaKept == \A l \in Lines \ leaked : sent[l] <= Limit - 1 + (Turns + 1) \div 2

(* A pair that talked lately is put together again only when every line    *)
(* that could have taken its place had talked with the group as well (the  *)
(* comment of planWarmupGroups: it avoids repetitions).                    *)
PairsAvoided ==
  [][\A c \in Calls : \A g \in plan'[c] \ plan[c] :
       Pairs(g) \cap recent # {} =>
         \A l \in eligible[c] \ (UNION plan'[c]) : \E m \in g : {l, m} \in recent]_warmupVars

=============================================================================
