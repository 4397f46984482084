------------------------------ MODULE ChatRows ------------------------------
(***************************************************************************)
(* The row of table chats as far as its life cycle depends on it, and what *)
(* each UPDATE / INSERT of infra/db/chatRepository.js (and the two inline  *)
(* UPDATEs of services/chatService.js) does to such a row.                 *)
(*                                                                         *)
(* A row is its status and its assigned agent (assigned_agent_id and       *)
(* assigned_user_id are always written together).  Timestamps, contact     *)
(* data and the queue are left out: queue membership is the constant       *)
(* InQueue.  A missing row is the record Absent, so that rows are records  *)
(* throughout.                                                             *)
(***************************************************************************)

CONSTANTS Chats,        \* remote numbers of one WhatsApp session: unique (session, remote_number)
          Agents,       \* users with role AGENTE
          Supervisors,  \* users with role SUPERVISOR or ADMIN
          Admins,       \* the ADMINs among them: they alone delete users
          NoAgent,      \* SQL NULL in assigned_agent_id / executed_by_user_id
          Queued,       \* the chats that have a queue_id
          Members       \* Members[c]: the users linked to the queue of chat c

Users == Agents \cup Supervisors

ASSUME RolesAssumption ==
  /\ Agents \cap Supervisors = {}
  /\ Admins \subseteq Supervisors
  /\ NoAgent \notin Agents \cup Supervisors
  /\ Chats # {}

Status == {"UNASSIGNED", "OPEN", "CLOSED"}
Owner  == Users \cup {NoAgent}
Row    == [status : Status \cup {"NONE"}, agent : Owner]

Absent    == [status |-> "NONE", agent |-> NoAgent]
Exists(r) == r.status # "NONE"

(* The shape every handler relies on: an OPEN chat has an agent working on *)
(* it, an UNASSIGNED one has none and waits in the pool.  A CLOSED chat    *)
(* may keep the agent it had (a history message closes it without          *)
(* releasing it).                                                          *)
WellFormed(r) ==
  /\ r.status = "OPEN" => r.agent # NoAgent
  /\ r.status \in {"UNASSIGNED", "NONE"} => r.agent = NoAgent

isUserInQueue(u, c) == c \in Queued => u \in Members[c]

-----------------------------------------------------------------------------
(* What the statements write.  A form named "mutant" is what a bug would   *)
(* make of the definition after it: only the sensitivity checks use it.    *)

assignChatDb(u) == [status |-> "OPEN", agent |-> u]

unassignToPending ==  \* mutant
  [status |-> "PENDING", agent |-> NoAgent]

unassignChatDb == [status |-> "UNASSIGNED", agent |-> NoAgent]

closedRow == [status |-> "CLOSED", agent |-> NoAgent]

bulkClearAgent(r) ==  \* mutant
  [r EXCEPT !.agent = NoAgent]

bulkUnassignChatsByUser(r) ==
  [status |-> IF r.status = "CLOSED" THEN "CLOSED" ELSE "UNASSIGNED", agent |-> NoAgent]

reopenOpen(r, read) ==  \* mutant
  [r EXCEPT !.status = "OPEN"]

(* reopenChat writes the status alone, chosen from the agent it READ.      *)
reopenedRow(r, read) ==
  [r EXCEPT !.status = IF read.agent # NoAgent THEN "OPEN" ELSE "UNASSIGNED"]

touchStatus(r, s) ==  \* mutant
  [r EXCEPT !.status = s]

touchChatOnInbound(r, s) ==
  [status |-> s, agent |-> IF s = "UNASSIGNED" THEN NoAgent ELSE r.agent]

(* INSERT .. ON CONFLICT (session, remote_number) DO UPDATE SET status:    *)
(* the agent of an existing row survives.                                  *)
createChatRecord(r, s) == [status |-> s, agent |-> r.agent]

=============================================================================
