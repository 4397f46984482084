----------------------------- MODULE MCMessages -----------------------------
(***************************************************************************)
(* Instances for TLC of the messages of a conversation, in the database    *)
(* and on the screen, and of the list of chats beside it, in one run:      *)
(* `place` is the one that moves, and the others stay in one initial       *)
(* state.                                                                  *)
(***************************************************************************)
EXTENDS MessageStore, ConversationScreen, ChatListScreen, TLC

VARIABLE place

Symmetry == Permutations(Handlers)

PlacesInit ==
  /\ Init /\ TalkInit /\ ListInit
  /\ place \in {"store", "screen", "inbox"}
  /\ place # "store" => own = {}
  /\ place # "screen" => ~echo /\ ~fits
  /\ place # "inbox" =>
       /\ me \in Supervisors /\ \A c \in Chats : table[c].status = "CLOSED"
       /\ older = CHOOSE o \in Orders : TRUE

PlacesNext ==
  \/ place = "store" /\ Next /\ UNCHANGED <<place, talkVars, listVars>>
  \/ place = "screen" /\ TalkNext /\ UNCHANGED <<place, vars, listVars>>
  \/ place = "inbox" /\ ListNext /\ UNCHANGED <<place, vars, talkVars>>

PlacesSpec == PlacesInit /\ [][PlacesNext]_<<place, vars, talkVars, listVars>>

=============================================================================
