-------------------------- MODULE MCChatLifecycle --------------------------
(* Instances of ChatLifecycle for TLC: a chat in a queue of agent a1 and   *)
(* the supervisor, two agents, two concurrent requests.  Each cfg chooses  *)
(* which operations the requests ask for.                                  *)
EXTENDS ChatLifecycle, TLC

CONSTANTS c1, c2, a1, a2, s1, s2, p1, p2

MCMembers   == c1 :> {a1, a2, s1} @@ c2 :> {a1, s1}
MCMembersA1 == c1 :> {a1, s1}

HandoverOps == {"live", "assign", "unassign", "transfer"}
InboundOps  == {"live", "history", "fromMe", "auto", "autoclose", "close", "reopen"}
RemoveOps   == {"live", "delete", "transfer"}
WaitOps     == {"create", "delete", "close"}

(* Requests are alike, and so are the two agents of queue c1.              *)
SymmProcs == Permutations({p1, p2})
Symm == Permutations({p1, p2}) \cup Permutations({a1, a2})

=============================================================================
