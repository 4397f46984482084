------------------------------- MODULE MCJobs -------------------------------
(***************************************************************************)
(* Instances for TLC of the work that the server does by itself, in one    *)
(* run under fairness: `mover` is the one that moves, and the others stay  *)
(* in their initial states.                                                *)
(*   - the job queue, with more jobs than slots and places together, so    *)
(*     that bursts overfill it and offers are refused;                     *)
(*   - a campaign of two messages that may lose its process once;          *)
(*   - the key store of a WhatsApp session, with as many calls at once as  *)
(*     take a pool's connections and one more.                             *)
(***************************************************************************)
EXTENDS WorkerQueue, AuthState

CONSTANTS
  m1, m2, Messages, MaxAttempts, Batch, Slots, Places, Creator, Troubles, MaxClaims

VARIABLES
  mover,
  row, campaign, open, batch, looping, waiting, running, over, step, seen,
  delivered, lapsed, slow, doubtful, trouble

Campaign == INSTANCE Broadcast WITH Concurrency <- Slots, MaxQueue <- Places

campaignVars == <<row, campaign, open, batch, looping, waiting, running, over, step, seen,
                  delivered, lapsed, slow, doubtful, trouble>>

Moves(m) == mover = m /\ UNCHANGED mover

PartsInit ==
  /\ mover \in {"queue", "campaign", "store"}
  /\ Init /\ Campaign!Init /\ StoreInit

PartsNext ==
  \/ Moves("queue") /\ Next /\ UNCHANGED <<campaignVars, storeVars>>
  \/ Moves("campaign") /\ Campaign!Next /\ UNCHANGED <<vars, storeVars>>
  \/ Moves("store") /\ StoreNext /\ UNCHANGED <<vars, campaignVars>>

(* The fairness of each: FairSpec of its module.                           *)
QueueFair ==
  /\ WF_vars(mover = "queue" /\ RunMicrotask)
  /\ \A j \in Jobs : WF_vars(mover = "queue" /\ Settle(j)) /\ WF_vars(mover = "queue" /\ Finally(j))

InCampaign == mover = "campaign"

CampaignFair ==
  /\ WF_campaignVars(InCampaign /\ Campaign!Insert)
  /\ WF_campaignVars(InCampaign /\ Campaign!Claim)
  /\ WF_campaignVars(InCampaign /\ Campaign!Begin)
  /\ \A j \in Campaign!Claims : /\ WF_campaignVars(InCampaign /\ Campaign!Enqueue(j))
                              /\ WF_campaignVars(InCampaign /\ Campaign!JobStep(j))
  /\ \A b \in Campaign!Claims \cup {Creator} :
       /\ WF_campaignVars(InCampaign /\ Campaign!ReadCounts(b))
       /\ WF_campaignVars(InCampaign /\ Campaign!WriteVerdict(b))
  /\ \A m \in Messages :
       /\ WF_campaignVars(InCampaign /\ Campaign!FallsDue(m))
       /\ WF_campaignVars(InCampaign /\ ~Campaign!InHand(m) /\ Campaign!LeaseRunsOut(m))

StoreFair == \A c \in Calls : WF_storeVars(mover = "store" /\ CallStep(c))

PartsSpec ==
  /\ PartsInit /\ [][PartsNext]_<<mover, vars, campaignVars, storeVars>>
  /\ QueueFair /\ CampaignFair /\ StoreFair

-----------------------------------------------------------------------------
(* The property of the campaign, as Broadcast states it: every message of  *)
(* an inserted campaign ends, sent or failed for good.                     *)
MessagesEnd == Campaign!MessagesEnd

=============================================================================
