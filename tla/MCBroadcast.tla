---------------------------- MODULE MCBroadcast ----------------------------
(***************************************************************************)
(* Instances for TLC of the two senders that work by themselves, the       *)
(* campaigns and the warm-up, in one run: `part` is the one that moves,    *)
(* and the other stays in its initial state.  The campaign has two         *)
(* messages; the warm-up has two lines, and a cycle in each of two calls   *)
(* that one process or two may make.  In MCPairs four lines have the same. *)
(***************************************************************************)
EXTENDS Broadcast, Warmup, TLC

CONSTANTS m1, m2

VARIABLE part

SymmMessages == Permutations(Messages)

(* The part that does not move has a single initial state, and in the      *)
(* other it is all the same which process makes the first call.            *)
AnyProc == CHOOSE p \in Procs : TRUE
Still == home = [c \in Calls |-> AnyProc]
FirstFixed == home[CHOOSE c \in Calls : TRUE] = AnyProc

PartsInit ==
  /\ part \in {"campaign", "warmup"} /\ Init /\ WarmupInit
  /\ IF part = "campaign" THEN Still ELSE FirstFixed

PartsNext ==
  \/ part = "campaign" /\ Next /\ UNCHANGED <<part, warmupVars>>
  \/ part = "warmup" /\ WarmupNext /\ UNCHANGED <<part, vars>>

PartsSpec == PartsInit /\ [][PartsNext]_<<part, vars, warmupVars>>

-----------------------------------------------------------------------------
(* The warm-up alone, in one process.                                      *)
PairsSpec ==
  /\ part = "warmup" /\ Init /\ WarmupInit /\ Still
  /\ [][WarmupNext /\ UNCHANGED <<part, vars>>]_<<part, vars, warmupVars>>

=============================================================================
