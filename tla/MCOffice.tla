------------------------------ MODULE MCOffice ------------------------------
(***************************************************************************)
(* Instances for TLC of parts that share nothing, in one run: the messages *)
(* that a session missed (HistorySync), the accounts (Accounts), a session *)
(* in a tab (AuthScreen), quick replies (QuickReplies) and the page of the *)
(* queues (QueueDesk).  `part` is the one that moves; the others stay in a *)
(* single initial state.                                                   *)
(***************************************************************************)
EXTENDS Accounts, AuthScreen, HistorySync, QuickReplies, QueueDesk, TLC

CONSTANTS r1, r2, h1, h2, v

VARIABLE part

(* Text 1 has a variable, text 2 has none.                                 *)
MCVariables == <<{v}, {}>>

PartsInit ==
  /\ part \in {"sync", "people", "tab", "quick", "desk"}
  /\ Init /\ SyncInit /\ TabInit /\ QuickInit /\ QueuesInit
  /\ part # "sync" => up
  /\ part # "tab" => stored = 0 /\ key = 0
  /\ part # "quick" => replies[r1] # NoReply /\ chat = h1
  /\ part # "desk" => offered = {}

PartsNext ==
  \/ part = "sync" /\ SyncNext
     /\ UNCHANGED <<part, vars, tabVars, quickVars, queuesVars>>
  \/ part = "people" /\ Next
     /\ UNCHANGED <<part, syncVars, tabVars, quickVars, queuesVars>>
  \/ part = "tab" /\ TabNext
     /\ UNCHANGED <<part, syncVars, vars, quickVars, queuesVars>>
  \/ part = "quick" /\ QuickNext
     /\ UNCHANGED <<part, syncVars, vars, tabVars, queuesVars>>
  \/ part = "desk" /\ QueuesNext
     /\ UNCHANGED <<part, syncVars, vars, tabVars, quickVars>>

PartsSpec ==
  PartsInit /\ [][PartsNext]_<<part, syncVars, vars, tabVars, quickVars, queuesVars>>

SymmOffice == Permutations(Users) \cup Permutations(Replies) \cup Permutations(Inbox)

=============================================================================
