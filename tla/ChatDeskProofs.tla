--------------------------- MODULE ChatDeskProofs ---------------------------
(* What follows from the rules of the desk alone.                          *)
EXTENDS ChatDesk, TLAPS

(* The desk keeps the types of its state.                                  *)
THEOREM DeskTypes == Spec => []DeskTypeOK
<1>1. Init => DeskTypeOK
  BY DEF Init, DeskTypeOK, Row, Absent, Status, Owner
<1>2. DeskTypeOK /\ [Next]_vars => DeskTypeOK'
  <2> SUFFICES ASSUME DeskTypeOK, [Next]_vars PROVE DeskTypeOK'
    OBVIOUS
  <2> USE DEF DeskTypeOK
  <2>1. CASE UNCHANGED vars
    BY <2>1 DEF vars
  <2>2. CASE Next
    <3> PICK u \in Owner : /\ by' = u
                           /\ \/ u \in Users /\ ByUser(u)
                              \/ u = NoAgent /\ BySystem
                              \/ \E c \in Chats : Overtaken(c)
      BY <2>2 DEF Next
    <3> DEFINE Rest == users' \in SUBSET Users /\ suspect' \in SUBSET Chats
    <3> DEFINE Good == row' \in [Chats -> Row] /\ Rest
    <3> SUFFICES Good
      OBVIOUS
    <3>1. ASSUME NEW c \in Chats, NEW r \in Row, Replace(c, r) \/ Patch(c, r) PROVE Good
      BY <3>1 DEF Replace, Patch
    <3>2. \A s \in Status, a \in Owner : [status |-> s, agent |-> a] \in Row
      BY DEF Row
    <3>3. CASE u \in Users /\ ByUser(u)
      <4>1. ASSUME NEW c \in Chats, Take(c, u) \/ Begin(c, u) PROVE Good
        BY <4>1, <3>1, <3>2, <3>3 DEF Take, Begin, assignChatDb, Status, Owner
      <4>2. ASSUME NEW c \in Chats, Release(c, u) PROVE Good
        BY <4>2, <3>1, <3>2 DEF Release, unassignChatDb, Status, Owner
      <4>3. ASSUME NEW c \in Chats, Close(c, u) PROVE Good
        BY <4>3, <3>1, <3>2 DEF Close, closedRow, Status, Owner
      <4>4. ASSUME NEW c \in Chats, Reopen(c, u) PROVE Good
        <5>1. reopenedRow(row[c], row[c]) \in Row
          BY DEF reopenedRow, Row, Status
        <5> QED BY <4>4, <5>1, <3>1 DEF Reopen
      <4>5. ASSUME NEW c \in Chats, NEW to \in Users, Transfer(c, u, to) PROVE Good
        BY <4>5, <3>1, <3>2 DEF Transfer, assignChatDb, Status, Owner
      <4>6. ASSUME NEW a \in Users, NEW K \in SUBSET Chats, RemoveUser(a, K) PROVE Good
        <5>1. \A c \in Chats : /\ bulkUnassignChatsByUser(row[c]) \in Row
                               /\ [row[c] EXCEPT !.agent = NoAgent] \in Row
          BY DEF bulkUnassignChatsByUser, Row, Status, Owner
        <5> QED BY <4>6, <5>1 DEF RemoveUser
      <4> QED BY <3>3, <4>1, <4>2, <4>3, <4>4, <4>5, <4>6 DEF ByUser
    <3>4. CASE BySystem
      <4> PICK c \in Chats :
            Expire(c) \/ (\E a \in Agents : Dispatch(c, a)) \/ (\E s \in Status : Arrive(c, s))
        BY <3>4 DEF BySystem
      <4>1. CASE Expire(c)
        BY <4>1, <3>1, <3>2 DEF Expire, closedRow, Status, Owner
      <4>2. ASSUME NEW a \in Agents, Dispatch(c, a) PROVE Good
        BY <4>2, <3>1, <3>2 DEF Dispatch, assignChatDb, Status, Owner, Users
      <4>3. ASSUME NEW s \in Status, Arrive(c, s) PROVE Good
        <5>1. touchChatOnInbound(row[c], s) \in Row /\ createChatRecord(row[c], s) \in Row
          BY DEF touchChatOnInbound, createChatRecord, Row, Owner
        <5> QED BY <4>3, <5>1, <3>1 DEF Arrive
      <4> QED BY <4>1, <4>2, <4>3
    <3>5. ASSUME NEW c \in Chats, Overtaken(c) PROVE Good
      <4> PICK a \in users \cup {NoAgent}, s \in Status :
            row' = [row EXCEPT ![c] = [status |-> s, agent |-> a]]
        BY <3>5 DEF Overtaken
      <4>1. [status |-> s, agent |-> a] \in Row
        BY <3>2 DEF Owner
      <4> QED BY <3>5, <4>1 DEF Overtaken
    <3> QED BY <3>3, <3>4, <3>5
  <2> QED BY <2>1, <2>2
<1> QED BY <1>1, <1>2, PTL DEF Spec

(* The desk never spoils a row: what is not well formed is suspect, and    *)
(* what names a user names one that exists.                                *)
THEOREM DeskIsSound == Spec => []DeskSound
<1>1. Init => DeskSound
  BY DEF Init, DeskSound, WellFormed, Absent
<1>2. DeskTypeOK /\ DeskSound /\ [Next]_vars => DeskSound'
  <2> SUFFICES ASSUME DeskTypeOK, DeskSound, [Next]_vars PROVE DeskSound'
    OBVIOUS
  <2>1. CASE UNCHANGED vars
    BY <2>1 DEF vars, DeskSound, WellFormed
  <2>2. CASE Next
    <3>1. ASSUME NEW c \in Chats, NEW r, Replace(c, r), WellFormed(r), r.agent \in users \cup {NoAgent}
          PROVE  DeskSound'
      BY <3>1 DEF Replace, DeskSound, WellFormed, DeskTypeOK
    <3>2. ASSUME NEW c \in Chats, NEW r, Patch(c, r), WellFormed(row[c]) => WellFormed(r),
                 r.agent \in users \cup {NoAgent}
          PROVE  DeskSound'
      BY <3>2 DEF Patch, DeskSound, WellFormed, DeskTypeOK
    <3>3. \A c \in Chats : row[c] \in Row /\ row[c].agent \in users \cup {NoAgent}
      BY DEF DeskTypeOK, DeskSound
    <3>4. ASSUME NEW u \in Users, NEW c \in Chats,
                 \/ Take(c, u) \/ Begin(c, u) \/ Release(c, u) \/ Close(c, u) \/ Reopen(c, u)
                 \/ \E to \in Users : Transfer(c, u, to)
          PROVE  DeskSound'
      <4>1. u # NoAgent /\ NoAgent \notin users
        BY RolesAssumption DEF Users, DeskTypeOK
      <4>2. CASE Take(c, u) \/ Begin(c, u)
        BY <4>1, <4>2, <3>1 DEF Take, Begin, assignChatDb, WellFormed
      <4>3. CASE Release(c, u) \/ Close(c, u)
        BY <4>3, <3>1 DEF Release, Close, unassignChatDb, closedRow, WellFormed
      <4>4. CASE Reopen(c, u)
        <5>1. /\ WellFormed(reopenedRow(row[c], row[c]))
              /\ reopenedRow(row[c], row[c]).agent = row[c].agent
          BY <3>3 DEF WellFormed, reopenedRow, Row
        <5> QED BY <4>4, <5>1, <3>2, <3>3 DEF Reopen
      <4>5. ASSUME NEW to \in Users, Transfer(c, u, to) PROVE DeskSound'
        BY <4>1, <4>5, <3>1 DEF Transfer, assignChatDb, WellFormed
      <4> QED BY <3>4, <4>2, <4>3, <4>4, <4>5
    <3>5. ASSUME NEW a \in Users, NEW K \in SUBSET Chats, RemoveUser(a, K)
          PROVE  DeskSound'
      <4> DEFINE held == {c \in Chats : row[c].agent = a}
      <4>1. ASSUME NEW c \in Chats PROVE row'[c].agent \in users' \cup {NoAgent}
        BY <3>3, <3>5 DEF RemoveUser, bulkUnassignChatsByUser, Row
      <4>2. ASSUME NEW c \in Chats \ suspect' PROVE WellFormed(row'[c])
        <5>1. CASE c \in K
          BY <5>1, <3>5 DEF RemoveUser, bulkUnassignChatsByUser, WellFormed
        <5>2. CASE c \in held \ K
          <6>1. c \notin suspect /\ row[c].status # "OPEN" /\ row[c].agent = a
            BY <5>2, <3>5 DEF RemoveUser
          <6>2. a # NoAgent
            BY RolesAssumption DEF Users
          <6>3. row[c].status = "CLOSED"
            BY <6>1, <6>2, <3>3 DEF DeskSound, WellFormed, Row, Status
          <6>4. row'[c] = [row[c] EXCEPT !.agent = NoAgent]
            BY <5>2, <3>5 DEF RemoveUser
          <6> QED BY <6>3, <6>4, <3>3 DEF WellFormed, Row
        <5>3. CASE c \notin held \cup K
          BY <5>3, <3>5 DEF RemoveUser, DeskSound
        <5> QED BY <5>1, <5>2, <5>3
      <4> QED BY <4>1, <4>2 DEF DeskSound, WellFormed
    <3>6. ASSUME NEW c \in Chats,
                 Expire(c) \/ (\E a \in Agents : Dispatch(c, a)) \/ (\E s \in Status : Arrive(c, s))
          PROVE  DeskSound'
      <4>1. CASE Expire(c)
        BY <4>1, <3>1 DEF Expire, closedRow, WellFormed
      <4>2. ASSUME NEW a \in Agents, Dispatch(c, a) PROVE DeskSound'
        BY <4>2, <3>1, RolesAssumption DEF Dispatch, assignChatDb, WellFormed
      <4>3. ASSUME NEW s \in Status, Arrive(c, s) PROVE DeskSound'
        <5> DEFINE r == IF row[c].status \in {"OPEN", "CLOSED"}
                        THEN touchChatOnInbound(row[c], s) ELSE createChatRecord(row[c], s)
        <5>1. Patch(c, r)
          BY <4>3 DEF Arrive
        <5>2. WellFormed(row[c]) => WellFormed(r)
          BY <4>3, <3>3 DEF Arrive, WellFormed, touchChatOnInbound, createChatRecord, Row, Status
        <5>3. r.agent \in users \cup {NoAgent}
          BY <3>3 DEF touchChatOnInbound, createChatRecord
        <5> HIDE DEF r
        <5> QED BY <5>1, <5>2, <5>3, <3>2
      <4> QED BY <3>6, <4>1, <4>2, <4>3
    <3>7. ASSUME NEW c \in Chats, Overtaken(c) PROVE DeskSound'
      BY <3>7, <3>3 DEF Overtaken, DeskSound, WellFormed, DeskTypeOK
    <3> HIDE DEF DeskSound
    <3> QED BY <2>2, <3>4, <3>5, <3>6, <3>7 DEF Next, ByUser, BySystem
  <2> QED BY <2>1, <2>2
<1> QED BY <1>1, <1>2, DeskTypes, PTL DEF Spec

(* No agent takes away a chat that another one works on.                   *)
LEMMA StepKeepsAgents == ASSUME DeskTypeOK, [Next]_vars PROVE KeepsAgents
<1> SUFFICES ASSUME NEW c \in Chats,
                    row[c].status = "OPEN", row[c].agent # NoAgent,
                    row'[c].agent # row[c].agent,
                    by' \in Agents, c \notin suspect'
             PROVE  by' = row[c].agent
  BY DEF KeepsAgents
<1>1. by' \in Users /\ by' \notin Admins /\ by' \notin Supervisors /\ by' # NoAgent /\ Next
  BY RolesAssumption DEF Users, vars
<1>2. ASSUME NEW d \in Chats, NEW r, Replace(d, r) \/ Patch(d, r), d # c PROVE FALSE
  BY <1>2 DEF Replace, Patch, DeskTypeOK
<1>3. PICK d \in Chats :
        \/ Take(d, by') \/ Begin(d, by') \/ Release(d, by') \/ Close(d, by') \/ Reopen(d, by')
        \/ \E to \in Users : Transfer(d, by', to)
        \/ Overtaken(d)
  BY <1>1 DEF Next, ByUser
<1>4. CASE Overtaken(d)
  BY <1>4 DEF Overtaken, DeskTypeOK
<1>5. d = c \/ Overtaken(d)
  BY <1>2, <1>3 DEF Take, Begin, Release, Close, Reopen, Transfer
<1>6. CASE Reopen(c, by')
  <2>1. row'[c] = reopenedRow(row[c], row[c])
    BY <1>6 DEF Reopen, Patch, DeskTypeOK
  <2> QED BY <2>1 DEF reopenedRow, DeskTypeOK, Row
<1>7. CASE Take(c, by') \/ Begin(c, by') \/ Release(c, by') \/ Close(c, by')
  BY <1>1, <1>7 DEF Take, Begin, Release, Close, MayEnd, IsSupervisor
<1>8. ASSUME NEW to \in Users, Transfer(c, by', to) PROVE by' = row[c].agent
  BY <1>1, <1>8 DEF Transfer, IsSupervisor
<1> QED BY <1>3, <1>4, <1>5, <1>6, <1>7, <1>8

(* The desk as a whole: whatever happens, agents keep their open chats.    *)
THEOREM DeskKeepsAgents == Spec => [][KeepsAgents]_vars
<1>1. DeskTypeOK /\ [Next]_vars => [KeepsAgents]_vars
  BY StepKeepsAgents
<1> QED BY <1>1, DeskTypes, PTL DEF Spec

=============================================================================
