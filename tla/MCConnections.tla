--------------------------- MODULE MCConnections ---------------------------
(***************************************************************************)
(* Instances for TLC of parts that share nothing, in one run: the page of  *)
(* the connections in a browser (SessionsScreen, two sessions), the rights *)
(* on lines and queues (ChatLines), the foot of a chat where an agent      *)
(* answers (Composer) and the form of a campaign (CampaignForm).  `part`   *)
(* is the one that moves; the others stay in a single initial state.       *)
(***************************************************************************)
EXTENDS ChatLines, Composer, CampaignForm, SessionsScreen, TLC

CONSTANTS a1, a2, s1, p1, p2, q1, q2, l1, l2,  \* ChatLines
          w1, w2,                              \* SessionsScreen
          n1, n2, x1                           \* CampaignForm

VARIABLE part

(* Line l1 has two queues: both agents work in q1, a2 in q2 as well.  l2   *)
(* has none yet.  The number has no chat, one of a1 from before l2 has a   *)
(* queue, one on l1, or one that is closed there.                          *)
TwoLinks     == {<<q1, l1>>, <<q2, l1>>}
ThreeMembers == {<<q1, a1>>, <<q1, a2>>, <<q2, a2>>}
FirstChats   == {NoChat,
                 [line |-> l2, status |-> "OPEN", agent |-> a1, queue |-> NoQueue],
                 [line |-> l1, status |-> "OPEN", agent |-> a1, queue |-> q1],
                 [line |-> l1, status |-> "CLOSED", agent |-> NoAgent, queue |-> q1]}

(* A typed list and the sheet each have a number twice; of the texts only  *)
(* the user's own suits the sheet.                                         *)
TypedLists == {n1 :> 2 @@ n2 :> 0}
SheetRows  == x1 :> (n1 :> 0 @@ n2 :> 2)
SuitsSheet == {<<Own, x1>>}

PartsInit ==
  /\ part \in {"page", "rights", "foot", "form"}
  /\ PageInit /\ LinesInit /\ FootInit /\ FormInit
  /\ part # "page" => \A w \in {w1, w2} : server[w] = "connected"
  /\ part # "rights" => chats[1] = NoChat
  /\ part # "form" => stored = {}

(* The bounds of the requests, the clicks and the edits: nothing more need *)
(* happen.                                                                 *)
Spent ==
  /\ \/ part = "rights" /\ InFlight = {} /\ asked = MaxAsked
     \/ part \in {"foot", "form"}
  /\ UNCHANGED <<part, pageVars, linesVars, footVars, formVars>>

PartsNext ==
  \/ part = "page" /\ PageNext /\ UNCHANGED <<part, linesVars, footVars, formVars>>
  \/ part = "rights" /\ LinesNext /\ UNCHANGED <<part, pageVars, footVars, formVars>>
  \/ part = "foot" /\ FootNext /\ UNCHANGED <<part, pageVars, linesVars, formVars>>
  \/ part = "form" /\ FormNext /\ UNCHANGED <<part, pageVars, linesVars, footVars>>
  \/ Spent

PartsSpec == PartsInit /\ [][PartsNext]_<<part, pageVars, linesVars, footVars, formVars>>

Symm == Permutations({w1, w2}) \cup Permutations({p1, p2})

=============================================================================
