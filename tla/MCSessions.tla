----------------------------- MODULE MCSessions -----------------------------
(***************************************************************************)
(* Instances for TLC of the registry of sessions and of the controllers    *)
(* below it, in one run: `layer` is the one that moves, and the other      *)
(* stays in one initial state.  SocketIsLine is what lets them be checked  *)
(* one by one: the controller is the line the registry is built on.        *)
(***************************************************************************)
EXTENDS WhatsAppService, WhatsAppSocket, TLC

VARIABLE layer

CONSTANTS p1, p2

SymmProcs == Permutations(Procs)

LayersInit ==
  /\ Init /\ SocketInit
  /\ \/ layer = "registry" /\ row = "none"
     \/ layer = "socket" /\ ~listed

LayersNext ==
  \/ layer = "registry" /\ Next /\ UNCHANGED <<layer, socketVars>>
  \/ layer = "socket" /\ SocketNext /\ UNCHANGED <<layer, vars>>

LayersSpec == LayersInit /\ [][LayersNext]_<<layer, vars, socketVars>>

=============================================================================
