----------------------------- MODULE SocketLine -----------------------------
(***************************************************************************)
(* What createWhatsAppSocket promises the registry of sessions about each  *)
(* controller it returns: its line is up, or down for good, or its close   *)
(* is being answered by handlers that will put it up again or give it up.  *)
(* The handlers write, and so insert, the session's row whenever they like.*)
(* WhatsAppSocket implements this and WhatsAppService is built on it.      *)
(***************************************************************************)
CONSTANT Ctls

VARIABLES line,   \* line[k]: of controller k
          listed  \* whatsapp_sessions has the row of the session

lineVars == <<line, listed>>

LineInit == line = [k \in Ctls |-> "none"] /\ listed \in BOOLEAN

Turn(k, from, to) ==
  /\ line[k] = from
  /\ \E l \in to : line' = [line EXCEPT ![k] = l]

(* The first socket of a controller.                                       *)
Make(k) == Turn(k, "none", {"up"}) /\ UNCHANGED listed

(* The socket closes, by itself or by end(); handlers answer it, unless    *)
(* nobody hears of it.                                                     *)
Drop(k) == Turn(k, "up", {"answering", "down"}) /\ UNCHANGED listed

(* They end with a new socket or without one.                              *)
Answer(k) == Turn(k, "answering", {"up", "down"}) /\ listed' \in {listed, TRUE}

WriteRow == listed' = TRUE /\ UNCHANGED line

LineStep == WriteRow \/ \E k \in Ctls : Make(k) \/ Drop(k) \/ Answer(k)

LineSpec == LineInit /\ [][LineStep]_lineVars

=============================================================================
