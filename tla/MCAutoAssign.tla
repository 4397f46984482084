---------------------------- MODULE MCAutoAssign ----------------------------
(* Instances of AutoAssign for TLC: two agents with a socket each, and     *)
(* a chat of the queue of both and one of the queue of one.                *)
EXTENDS AutoAssign, TLC

CONSTANTS a1, a2, c1, c2, s1, s2, r1, r2

TwoAgents == s1 :> a1 @@ s2 :> a2

Mixed    == c1 :> {a1, a2} @@ c2 :> {a1}

=============================================================================
