---------------------------- MODULE OfficeProofs ----------------------------
(***************************************************************************)
(* Theorems about the accounts (Accounts), for any set of users and any    *)
(* number of tokens, requests and failures: a session that was ended stays *)
(* so, and an administrator remains; about the tab (AuthScreen), for any   *)
(* number of clicks and calls: a logout sticks; about the rights to the    *)
(* lines (ChatLines), for any queues, lines, users and requests: who gets  *)
(* a chat had the right to it, and a chat of a line that has a queue gets  *)
(* one; about quick replies (QuickReplies), for any replies, chats and     *)
(* texts: they go out as they were composed; and about the page of the     *)
(* queues (QueueDesk), for any queues and members: its dialog lists the    *)
(* members of its own queue.                                               *)
(***************************************************************************)
EXTENDS Accounts, AuthScreen, ChatLines, QuickReplies, QueueDesk, FiniteSetTheorems, TLAPS

-----------------------------------------------------------------------------
(* Tokens are numbered per user in the order in which logins begin, so a   *)
(* login under way has a number that no signed token has.                  *)
Signed == tokens \cup logins
Of(S, u) == {t \in S : t.who = u}

Numbered ==
  /\ IsFiniteSet(Signed) /\ tokens \cap logins = {}
  /\ \A t \in Signed : t.jti <= Cardinality(Of(Signed, t.who))

(* A request carries a signed token, a logout is about its sender, and the *)
(* places of a request are those of its kind.                              *)
Carried ==
  \A h \in handlers :
    /\ h.by \in tokens
    /\ h.what = "logout" => h.of = h.by.who
    /\ h.at \in {"get", "del"} => h.what = "logout"
    /\ h.at = "erase" => h.what = "delete"
    /\ h.at = "write" => h.what # "delete"

Voided == voided \subseteq tokens /\ \A t \in voided : keys[t.who] # t.jti

(* What a removal has counted is still so unless it is late; and nobody    *)
(* loses the role but by a choice of the form.                             *)
Pending(h) ==
  \/ h.at = "write" /\ Deactivates(h)
  \/ h.at \in {"revoke", "erase"} /\ h.what = "delete"

RolesKept ==
  /\ \A u \in Users : users[u].role = "ADMIN"
  /\ \A u, of \in Users : pages[u].list[of].role = "ADMIN"
  /\ \A u \in Users : pages[u].form # NoForm => pages[u].form.fields.role = "ADMIN"

FieldsKept == \A h \in handlers : ~h.asked => h.fields.role \in {"same", "ADMIN"}

OthersRemain == \A h \in handlers : ~h.late /\ Pending(h) => Administrators \ {h.of} # {}

Kept    == RolesKept /\ FieldsKept /\ OthersRemain /\ Administrators # {}
Guarded == excused \/ Kept

Inv == TypeOK /\ Numbered /\ Carried /\ Voided /\ Guarded

-----------------------------------------------------------------------------
(* What a handler becomes: the same request, at another place.             *)
LEMMA Moved ==
  ASSUME NEW h \in Handler, NEW place \in {"read", "count", "write", "revoke", "get", "del", "erase"},
         NEW overdue \in BOOLEAN
  PROVE  LET g == [h EXCEPT !.late = overdue, !.at = place]
         IN g \in Handler /\ g.by = h.by /\ g.what = h.what /\ g.of = h.of /\ g.fields = h.fields
            /\ g.asked = h.asked /\ g.late = overdue /\ g.at = place
BY DEF Handler

LEMMA MovedAt ==
  ASSUME NEW h \in Handler, NEW place \in {"read", "count", "write", "revoke", "get", "del", "erase"}
  PROVE  LET g == [h EXCEPT !.at = place]
         IN g \in Handler /\ g.by = h.by /\ g.what = h.what /\ g.of = h.of /\ g.fields = h.fields
            /\ g.asked = h.asked /\ g.late = h.late /\ g.at = place
BY DEF Handler

LEMMA MovedLate ==
  ASSUME NEW h \in Handler, NEW overdue \in BOOLEAN
  PROVE  LET g == [h EXCEPT !.late = overdue]
         IN g \in Handler /\ g.by = h.by /\ g.what = h.what /\ g.of = h.of /\ g.fields = h.fields
            /\ g.asked = h.asked /\ g.late = overdue /\ g.at = h.at
BY DEF Handler

LEMMA LateAre ==
  ASSUME NEW S \in SUBSET Handler, NEW of \in Users
  PROVE  \A n \in Late(S, of) : \E g \in S :
           /\ n \in Handler /\ n.by = g.by /\ n.what = g.what /\ n.of = g.of /\ n.fields = g.fields
           /\ n.asked = g.asked /\ n.at = g.at
           /\ n.late = (g.late \/ (g.at # "read" /\ (Removes(g) \/ g.of = of)))
<1> SUFFICES ASSUME NEW n \in Late(S, of)
             PROVE  \E g \in S :
                      /\ n \in Handler /\ n.by = g.by /\ n.what = g.what /\ n.of = g.of
                      /\ n.fields = g.fields /\ n.asked = g.asked /\ n.at = g.at
                      /\ n.late = (g.late \/ (g.at # "read" /\ (Removes(g) \/ g.of = of)))
  OBVIOUS
<1>1. PICK g \in S : n = [g EXCEPT !.late = g.late \/ (g.at # "read" /\ (Removes(g) \/ g.of = of))]
  BY DEF Late
<1> DEFINE l == g.late \/ (g.at # "read" /\ (Removes(g) \/ g.of = of))
<1>2. l \in BOOLEAN
  BY DEF Handler
<1>3. n = [g EXCEPT !.late = l]
  BY <1>1
<1> HIDE DEF l
<1>4. /\ n \in Handler /\ n.by = g.by /\ n.what = g.what /\ n.of = g.of
      /\ n.fields = g.fields /\ n.asked = g.asked /\ n.at = g.at /\ n.late = l
  BY <1>2, <1>3, MovedLate, Zenon
<1>5. QED
  BY <1>4, Zenon DEF l

-----------------------------------------------------------------------------
(* Types.                                                                  *)
LEMMA SentTyped ==
  ASSUME TypeOK, NEW u \in Users, NEW what \in {"update", "delete", "password", "logout"},
         NEW of \in Users, NEW row, NEW told \in BOOLEAN,
         NEW fields \in [role : Roles \cup {"same"}, status : Statuses \cup {"same"},
                         password : BOOLEAN, confirm : BOOLEAN],
         Send(u, what, of, row, fields, told)
  PROVE  handlers' \subseteq Handler /\ requests' \in 0..MaxRequests
<1>1. PICK t \in tokens :
        handlers' = handlers \cup
          {[by |-> t, what |-> what, of |-> of, fields |-> fields, asked |-> told,
            late |-> row # users[of], at |-> IF what = "logout" THEN "get" ELSE "read"]}
  BY DEF Send
<1>2. t \in Token /\ handlers \subseteq Handler
  BY DEF TypeOK
<1>3. handlers' \subseteq Handler
  <2> DEFINE overdue == row # users[of]
             place == IF what = "logout" THEN "get" ELSE "read"
  <2>1. overdue \in BOOLEAN /\ place \in {"read", "get"}
    OBVIOUS
  <2>2. handlers' = handlers \cup {[by |-> t, what |-> what, of |-> of, fields |-> fields,
                                   asked |-> told, late |-> overdue, at |-> place]}
    BY <1>1
  <2> HIDE DEF overdue, place
  <2>3. [by |-> t, what |-> what, of |-> of, fields |-> fields,
         asked |-> told, late |-> overdue, at |-> place] \in Handler
    BY <1>2, <2>1 DEF Handler
  <2>4. QED
    BY <1>2, <2>2, <2>3
<1>4. MaxRequests \in Nat
  BY AccountsAssumption
<1>5. QED
  BY <1>3, <1>4 DEF Send, TypeOK

LEMMA FieldsTyped ==
  LET Fields == [role : Roles \cup {"same"}, status : Statuses \cup {"same"},
                 password : BOOLEAN, confirm : BOOLEAN]
  IN /\ NoFields \in Fields
     /\ \A c \in BOOLEAN : [NoFields EXCEPT !.confirm = c] \in Fields
     /\ \A s \in Statuses : [NoFields EXCEPT !.status = s] \in Fields
     /\ [NoFields EXCEPT !.password = TRUE] \in Fields
     /\ \A f : Payloads(f) \subseteq Fields
BY DEF NoFields, Payloads, Roles, Statuses

LEMMA PlacesTyped ==
  \A h : Proceeds(h) \in {"revoke", "write"} /\ (Proceeds(h) = "write" => h.what # "delete")
BY DEF Proceeds

LEMMA PutTyped ==
  ASSUME TypeOK, NEW h \in handlers, NEW row \in Row, NEW next, next \subseteq Handler,
         Put(h, row, next)
  PROVE  users' \in [Users -> Row] /\ handlers' \subseteq Handler /\ excused' \in BOOLEAN
<1>1. h \in Handler /\ handlers \subseteq Handler /\ users \in [Users -> Row] /\ excused \in BOOLEAN
  BY DEF TypeOK
<1>2. h.of \in Users /\ h.late \in BOOLEAN /\ h.asked \in BOOLEAN
  BY <1>1 DEF Handler
<1>3. Late(handlers \ {h}, h.of) \subseteq Handler
  BY <1>1, <1>2, LateAre, Zenon
<1>4. handlers' \subseteq Handler
  BY <1>1, <1>3 DEF Put
<1>5. users' \in [Users -> Row]
  BY <1>1, <1>2 DEF Put
<1>6. excused' \in BOOLEAN
  BY <1>1, <1>2 DEF Put
<1>7. QED
  BY <1>4, <1>5, <1>6

LEMMA RevokeTyped ==
  ASSUME TypeOK, NEW h \in handlers, AfterRevoke(h)
  PROVE  handlers' \subseteq Handler
<1>1. h \in Handler /\ handlers \subseteq Handler
  BY DEF TypeOK
<1>2. [h EXCEPT !.at = "erase"] \in Handler
  BY <1>1, MovedAt
<1>3. QED
  BY <1>1, <1>2 DEF AfterRevoke, Goes, Ends

LEMMA NextNumber ==
  ASSUME Numbered, NEW u \in Users
  PROVE  Cardinality(Of(Signed, u)) \in Nat
<1>1. Of(Signed, u) \subseteq Signed
  BY DEF Of
<1>2. IsFiniteSet(Of(Signed, u))
  BY <1>1, FS_Subset DEF Numbered
<1>3. QED
  BY <1>2, FS_CardinalityType

LEMMA TypesStay == TypeOK /\ Numbered /\ [Next]_vars => TypeOK'
<1> SUFFICES ASSUME TypeOK, Numbered, [Next]_vars PROVE TypeOK'
  OBVIOUS
<1> USE DEF TypeOK
<1>1. CASE UNCHANGED vars
  BY <1>1 DEF vars
<1>2. ASSUME NEW u \in Users, LoginReads(u) PROVE TypeOK'
  <2>1. Cardinality({t \in tokens \cup logins : t.who = u}) \in Nat
    BY NextNumber, Zenon DEF Of, Signed
  <2>2. [who |-> u, jti |-> Cardinality({t \in tokens \cup logins : t.who = u}) + 1] \in Token
    BY <2>1 DEF Token
  <2>3. logins' \subseteq Token
    BY <1>2, <2>2 DEF LoginReads
  <2>4. QED
    BY <1>2, <2>3 DEF LoginReads
<1>3. ASSUME NEW l \in logins, LoginSets(l) PROVE TypeOK'
  <2>1. l.who \in Users /\ l.jti \in Nat
    BY DEF Token
  <2>2. QED
    BY <1>3, <2>1 DEF LoginSets
<1>4. ASSUME NEW u \in Users, LoadUsers(u) PROVE TypeOK'
  BY <1>4 DEF LoadUsers
<1>5. ASSUME NEW u \in Users, NEW of \in Users, HandleEdit(u, of) PROVE TypeOK'
  <2>1. pages[u].list[of] \in Row
    OBVIOUS
  <2>2. [of |-> of, shown |-> pages[u].list[of], fields |-> FormOf(pages[u].list[of])] \in Form
    BY <2>1 DEF Form, FormOf, Row
  <2>3. pages' \in [Users -> [list : [Users -> Row], form : {NoForm} \cup Form]]
    BY <1>5, <2>2 DEF HandleEdit
  <2>4. QED
    BY <1>5, <2>3 DEF HandleEdit
<1>6. ASSUME NEW u \in Users, SubmitForm(u) PROVE TypeOK'
  <2>1. pages[u].form \in Form
    BY <1>6 DEF SubmitForm
  <2>2. PICK fields \in Payloads(pages[u].form) :
          Send(u, "update", pages[u].form.of, pages[u].form.shown, fields,
               fields.role # pages[u].form.fields.role)
    BY <1>6 DEF SubmitForm
  <2>3. handlers' \subseteq Handler /\ requests' \in 0..MaxRequests
    <3>1. pages[u].form.of \in Users
      BY <2>1 DEF Form
    <3>2. fields \in [role : Roles \cup {"same"}, status : Statuses \cup {"same"},
                     password : BOOLEAN, confirm : BOOLEAN]
      BY FieldsTyped
    <3>3. QED
      BY <2>2, <3>1, <3>2, SentTyped
  <2>4. pages' \in [Users -> [list : [Users -> Row], form : {NoForm} \cup Form]]
    BY <1>6 DEF SubmitForm
  <2>5. QED
    BY <1>6, <2>3, <2>4 DEF SubmitForm, Unchanged
<1>7. ASSUME NEW u \in Users, NEW of \in Users, HandleToggleStatus(u, of) PROVE TypeOK'
  <2> DEFINE fields == [NoFields EXCEPT !.status =
                          IF pages[u].list[of].status = "ACTIVE" THEN "INACTIVE" ELSE "ACTIVE"]
  <2>1. fields \in [role : Roles \cup {"same"}, status : Statuses \cup {"same"},
                   password : BOOLEAN, confirm : BOOLEAN]
    BY FieldsTyped DEF Statuses
  <2>2. Send(u, "update", of, pages[u].list[of], fields, FALSE)
    BY <1>7 DEF HandleToggleStatus
  <2> HIDE DEF fields
  <2>3. handlers' \subseteq Handler /\ requests' \in 0..MaxRequests
    BY <2>1, <2>2, SentTyped
  <2>4. QED
    BY <1>7, <2>3 DEF HandleToggleStatus, Unchanged
<1>8. ASSUME NEW u \in Users, NEW of \in Users, ConfirmDeleteUser(u, of) PROVE TypeOK'
  <2> DEFINE fields == [NoFields EXCEPT !.confirm = (pages[u].list[of].status = "ACTIVE")]
  <2>1. fields \in [role : Roles \cup {"same"}, status : Statuses \cup {"same"},
                   password : BOOLEAN, confirm : BOOLEAN]
    BY FieldsTyped
  <2>2. Send(u, "delete", of, pages[u].list[of], fields, FALSE)
    BY <1>8 DEF ConfirmDeleteUser
  <2> HIDE DEF fields
  <2>3. handlers' \subseteq Handler /\ requests' \in 0..MaxRequests
    BY <2>1, <2>2, SentTyped
  <2>4. QED
    BY <1>8, <2>3 DEF ConfirmDeleteUser, Unchanged
<1>9. ASSUME NEW u \in Users, ChangePassword(u) PROVE TypeOK'
  <2>1. handlers' \subseteq Handler /\ requests' \in 0..MaxRequests
    BY <1>9, FieldsTyped, SentTyped DEF ChangePassword
  <2>2. QED
    BY <1>9, <2>1 DEF ChangePassword, Unchanged
<1>10. ASSUME NEW u \in Users, LogOut(u) PROVE TypeOK'
  <2>1. handlers' \subseteq Handler /\ requests' \in 0..MaxRequests
    BY <1>10, FieldsTyped, SentTyped DEF LogOut
  <2>2. QED
    BY <1>10, <2>1 DEF LogOut, Unchanged
<1>11. ASSUME NEW h \in handlers, Read(h) PROVE TypeOK'
  <2>1. handlers' \subseteq Handler
    <3> DEFINE overdue == h.late /\ ~Removes(h)
               place == IF Removes(h) /\ users[h.of].role = "ADMIN" THEN "count" ELSE Proceeds(h)
    <3>1. overdue \in BOOLEAN
      BY DEF Handler
    <3>2. place \in {"read", "count", "write", "revoke", "get", "del", "erase"}
      BY PlacesTyped
    <3>3. \/ handlers' = handlers \ {h}
          \/ handlers' = (handlers \ {h}) \cup {[h EXCEPT !.late = overdue, !.at = place]}
      BY <1>11 DEF Read, Ends
    <3> HIDE DEF overdue, place
    <3>4. [h EXCEPT !.late = overdue, !.at = place] \in Handler
      <4>1. h \in Handler
        OBVIOUS
      <4>2. QED
        BY <3>1, <3>2, <4>1 DEF Handler
    <3>5. QED
      BY <3>3, <3>4
  <2>2. QED
    BY <1>11, <2>1 DEF Read
<1>12. ASSUME NEW h \in handlers, Count(h) PROVE TypeOK'
  <2>1. [h EXCEPT !.at = Proceeds(h)] \in Handler
    <3>1. h \in Handler
      OBVIOUS
    <3>2. Proceeds(h) \in {"read", "count", "write", "revoke", "get", "del", "erase"}
      BY PlacesTyped
    <3>3. QED
      BY <3>1, <3>2, MovedAt, Zenon
  <2>2. handlers' \subseteq Handler
    BY <1>12, <2>1 DEF Count, Goes, Ends
  <2>3. QED
    BY <1>12, <2>2 DEF Count
<1>13. ASSUME NEW h \in handlers, UpdateUser(h) PROVE TypeOK'
  <2>1. CASE users[h.of].status = "GONE"
    BY <1>13, <2>1 DEF UpdateUser, Ends
  <2>2. CASE users[h.of].status # "GONE"
    <3> DEFINE next == IF Revokes(h) THEN {[h EXCEPT !.at = "revoke"]} ELSE {}
    <3>1. Written(h) \in Row
      BY DEF Written, Row, Handler
    <3>2. next \subseteq Handler
      <4>1. h \in Handler
        OBVIOUS
      <4>2. [h EXCEPT !.at = "revoke"] \in Handler
        BY <4>1, MovedAt
      <4>3. QED
        BY <4>2
    <3>3. Put(h, Written(h), next)
      BY <1>13, <2>2 DEF UpdateUser
    <3> HIDE DEF next
    <3>4. users' \in [Users -> Row] /\ handlers' \subseteq Handler /\ excused' \in BOOLEAN
      BY <3>1, <3>2, <3>3, PutTyped
    <3>5. QED
      BY <1>13, <3>4 DEF UpdateUser
  <2>3. QED
    BY <2>1, <2>2
<1>14. ASSUME NEW h \in handlers, ForceLogout(h) PROVE TypeOK'
  <2>1. handlers' \subseteq Handler
    BY <1>14, RevokeTyped DEF ForceLogout
  <2>2. QED
    BY <1>14, <2>1 DEF ForceLogout, Sessions
<1>15. ASSUME NEW h \in handlers, ForceLogoutFails(h) PROVE TypeOK'
  <2>1. handlers' \subseteq Handler
    BY <1>15, RevokeTyped DEF ForceLogoutFails
  <2>2. trouble' \in 0..MaxTrouble
    <3>1. MaxTrouble \in Nat
      BY AccountsAssumption
    <3>2. QED
      BY <1>15, <3>1 DEF ForceLogoutFails
  <2>3. QED
    BY <1>15, <2>1, <2>2 DEF ForceLogoutFails
<1>16. ASSUME NEW h \in handlers, LogoutGet(h) PROVE TypeOK'
  <2>1. [h EXCEPT !.at = "del"] \in Handler
    BY MovedAt
  <2>2. handlers' \subseteq Handler
    BY <1>16, <2>1 DEF LogoutGet, Goes, Ends
  <2>3. QED
    BY <1>16, <2>2 DEF LogoutGet
<1>17. ASSUME NEW h \in handlers, LogoutDel(h) PROVE TypeOK'
  <2>1. h.by \in Token
    BY DEF Handler
  <2>2. QED
    BY <1>17, <2>1 DEF LogoutDel, Ends
<1>18. ASSUME NEW h \in handlers, DeleteUserHard(h) PROVE TypeOK'
  <2>1. CASE users[h.of].status = "GONE"
    BY <1>18, <2>1 DEF DeleteUserHard, Ends
  <2>2. CASE users[h.of].status # "GONE"
    <3>1. [users[h.of] EXCEPT !.status = "GONE"] \in Row
      <4>1. users[h.of] \in Row
        BY DEF Handler
      <4>2. QED
        BY <4>1 DEF Row
    <3>2. Put(h, [users[h.of] EXCEPT !.status = "GONE"], {})
      BY <1>18, <2>2 DEF DeleteUserHard
    <3>3. users' \in [Users -> Row] /\ handlers' \subseteq Handler /\ excused' \in BOOLEAN
      BY <3>1, <3>2, PutTyped
    <3>4. QED
      BY <1>18, <3>3 DEF DeleteUserHard
  <2>3. QED
    BY <2>1, <2>2
<1>19. QED
  BY <1>1, <1>2, <1>3, <1>4, <1>5, <1>6, <1>7, <1>8, <1>9, <1>10, <1>11, <1>12, <1>13, <1>14,
     <1>15, <1>16, <1>17, <1>18 DEF Next

-----------------------------------------------------------------------------
(* Numbers of tokens.                                                      *)
LEMMA SignedMoves ==
  [Next]_vars => \/ UNCHANGED <<tokens, logins>>
                 \/ \E u \in Users : LoginReads(u)
                 \/ \E l \in logins : LoginSets(l)
BY Zenon DEF Next, vars, LoadUsers, HandleEdit, SubmitForm, HandleToggleStatus, ConfirmDeleteUser,
   ChangePassword, LogOut, Unchanged, Read, Count, UpdateUser, ForceLogout, ForceLogoutFails,
   LogoutGet, LogoutDel, DeleteUserHard

LEMMA NumberedStays == TypeOK /\ Numbered /\ [Next]_vars => Numbered'
<1> SUFFICES ASSUME TypeOK, Numbered, [Next]_vars PROVE Numbered'
  OBVIOUS
<1>1. CASE UNCHANGED <<tokens, logins>>
  BY <1>1 DEF Numbered, Signed, Of
<1>2. ASSUME NEW u \in Users, LoginReads(u) PROVE Numbered'
  <2> DEFINE n == Cardinality(Of(Signed, u))
             t == [who |-> u, jti |-> n + 1]
  <2>1. n \in Nat
    BY NextNumber
  <2>2. logins' = logins \cup {t} /\ tokens' = tokens
    BY <1>2 DEF LoginReads, Of, Signed
  <2>3. t.who = u /\ t.jti = n + 1
    OBVIOUS
  <2> HIDE DEF t
  <2>4. t \notin Signed
    BY <2>1, <2>3 DEF Numbered
  <2>5. Signed' = Signed \cup {t}
    BY <2>2 DEF Signed
  <2>6. IsFiniteSet(Signed')
    BY <2>5, FS_AddElement DEF Numbered
  <2>7. Of(Signed', u) = Of(Signed, u) \cup {t} /\ t \notin Of(Signed, u)
    BY <2>3, <2>4, <2>5 DEF Of
  <2>8. \A v : v # u => Of(Signed', v) = Of(Signed, v)
    BY <2>3, <2>5 DEF Of
  <2>9. Cardinality(Of(Signed', u)) = n + 1
    <3>1. IsFiniteSet(Of(Signed, u))
      BY FS_Subset DEF Numbered, Of
    <3>2. QED
      BY <2>7, <3>1, FS_AddElement
  <2>10. \A s \in Signed' : s.jti <= Cardinality(Of(Signed', s.who))
    <3>1. TAKE s \in Signed'
    <3>2. CASE s = t
      BY <2>1, <2>3, <2>9, <3>2
    <3>3. CASE s # t /\ s.who = u
      <4>1. s \in Signed /\ s.jti <= n
        BY <2>5, <3>3 DEF Numbered
      <4>2. s.jti \in Nat
        BY <4>1 DEF TypeOK, Signed, Token
      <4> HIDE DEF n
      <4>3. QED
        BY <2>1, <2>9, <3>3, <4>1, <4>2
    <3>4. CASE s # t /\ s.who # u
      BY <2>5, <2>8, <3>4 DEF Numbered
    <3>5. QED
      BY <3>2, <3>3, <3>4
  <2>11. tokens' \cap logins' = {}
    BY <2>2, <2>4 DEF Numbered, Signed
  <2>12. QED
    BY <2>6, <2>10, <2>11 DEF Numbered
<1>3. ASSUME NEW l \in logins, LoginSets(l) PROVE Numbered'
  <2>1. Signed' = Signed
    BY <1>3 DEF LoginSets, Signed
  <2>2. tokens' \cap logins' = {}
    BY <1>3 DEF LoginSets, Numbered
  <2>3. QED
    BY <2>1, <2>2 DEF Numbered, Of
<1>4. QED
  BY <1>1, <1>2, <1>3, SignedMoves

LEMMA TokensStay == [Next]_vars => tokens \subseteq tokens'
BY SignedMoves DEF LoginReads, LoginSets

-----------------------------------------------------------------------------
(* A request under way was under way before, or has just been sent.        *)
SameRequest(n, g) ==
  n.by = g.by /\ n.what = g.what /\ n.of = g.of /\ n.fields = g.fields /\ n.asked = g.asked

Continues(n, g) ==
  /\ SameRequest(n, g)
  /\ n.at \in {"get", "del"} => g.at \in {"get", "del"}
  /\ n.at = "erase" => g.at = "erase" \/ g.what = "delete"
  /\ n.at = "write" => g.at = "write" \/ g.what # "delete"

Fresh(n) ==
  /\ n.by \in tokens
  /\ n.what = "logout" => n.of = n.by.who
  /\ n.at \in {"read", "get"} /\ (n.at = "get" => n.what = "logout")

LEMMA SentIsFresh ==
  ASSUME NEW u, NEW what, NEW of, NEW row, NEW told, NEW fields,
         Send(u, what, of, row, fields, told), what = "logout" => of = u
  PROVE  \A n \in handlers' : n \in handlers \/ (Fresh(n) /\ n.fields = fields /\ n.asked = told)
<1>1. PICK t \in tokens :
        /\ t.who = u
        /\ handlers' = handlers \cup
             {[by |-> t, what |-> what, of |-> of, fields |-> fields, asked |-> told,
               late |-> row # users[of], at |-> IF what = "logout" THEN "get" ELSE "read"]}
  BY DEF Send
<1>2. QED
  BY <1>1 DEF Fresh

LEMMA MovedContinues ==
  ASSUME TypeOK, NEW h \in handlers, NEW place \in {"read", "count", "write", "revoke", "get", "del", "erase"},
         place \in {"get", "del"} => h.at \in {"get", "del"},
         place = "erase" => h.at = "erase" \/ h.what = "delete",
         place = "write" => h.what # "delete"
  PROVE  Continues([h EXCEPT !.at = place], h)
<1>1. h \in Handler
  BY DEF TypeOK
<1>2. LET g == [h EXCEPT !.at = place]
      IN g.by = h.by /\ g.what = h.what /\ g.of = h.of /\ g.fields = h.fields
         /\ g.asked = h.asked /\ g.at = place
  BY <1>1 DEF Handler
<1>3. QED
  BY <1>2 DEF Continues, SameRequest

LEMMA PutContinues ==
  ASSUME TypeOK, NEW h \in handlers, NEW row, NEW next, Put(h, row, next),
         \A n \in next : Continues(n, h)
  PROVE  \A n \in handlers' : \E g \in handlers : Continues(n, g)
<1>1. handlers \ {h} \in SUBSET Handler /\ h.of \in Users
  BY DEF TypeOK, Handler
<1>2. \A n \in Late(handlers \ {h}, h.of) : \E g \in handlers : Continues(n, g)
  <2>1. TAKE n \in Late(handlers \ {h}, h.of)
  <2>2. PICK g \in handlers \ {h} :
          n.by = g.by /\ n.what = g.what /\ n.of = g.of /\ n.fields = g.fields
          /\ n.asked = g.asked /\ n.at = g.at
    BY <1>1, LateAre
  <2>3. Continues(n, g)
    BY <2>2 DEF Continues, SameRequest
  <2>4. QED
    BY <2>3
<1>3. \A g \in handlers : Continues(g, g)
  BY DEF Continues, SameRequest
<1>4. \A n \in handlers' : n \in handlers \/ n \in Late(handlers \ {h}, h.of) \/ n \in next
  BY DEF Put
<1>5. QED
  BY <1>2, <1>3, <1>4

LEMMA RevokeContinues ==
  ASSUME TypeOK, NEW h \in handlers, AfterRevoke(h)
  PROVE  \A n \in handlers' : \E g \in handlers : Continues(n, g)
<1>1. h.what = "delete" => Continues([h EXCEPT !.at = "erase"], h)
  BY MovedContinues
<1>2. \A g \in handlers : Continues(g, g)
  BY DEF Continues, SameRequest
<1>3. \A n \in handlers' : n \in handlers \/ (h.what = "delete" /\ n = [h EXCEPT !.at = "erase"])
  BY DEF AfterRevoke, Goes, Ends
<1>4. QED
  BY <1>1, <1>2, <1>3

LEMMA HandlersAre ==
  ASSUME TypeOK, [Next]_vars
  PROVE  \A n \in handlers' : Fresh(n) \/ \E g \in handlers : Continues(n, g)
<1> DEFINE Goal == \A n \in handlers' : Fresh(n) \/ \E g \in handlers : Continues(n, g)
<1>0. \A g \in handlers : Continues(g, g)
  BY DEF Continues, SameRequest
<1>1. CASE UNCHANGED handlers
  BY <1>0, <1>1
<1>2. ASSUME NEW u \in Users, SubmitForm(u) PROVE Goal
  BY <1>0, <1>2, SentIsFresh DEF SubmitForm
<1>3. ASSUME NEW u \in Users, NEW of \in Users, HandleToggleStatus(u, of) PROVE Goal
  <2>1. PICK fields : Send(u, "update", of, pages[u].list[of], fields, FALSE)
    BY <1>3 DEF HandleToggleStatus
  <2>2. QED
    BY <1>0, <2>1, SentIsFresh
<1>4. ASSUME NEW u \in Users, NEW of \in Users, ConfirmDeleteUser(u, of) PROVE Goal
  <2>1. PICK fields : Send(u, "delete", of, pages[u].list[of], fields, FALSE)
    BY <1>4 DEF ConfirmDeleteUser
  <2>2. QED
    BY <1>0, <2>1, SentIsFresh
<1>5. ASSUME NEW u \in Users, ChangePassword(u) PROVE Goal
  <2>1. PICK fields : Send(u, "password", u, users[u], fields, FALSE)
    BY <1>5 DEF ChangePassword
  <2>2. QED
    BY <1>0, <2>1, SentIsFresh
<1>6. ASSUME NEW u \in Users, LogOut(u) PROVE Goal
  <2>1. Send(u, "logout", u, users[u], NoFields, FALSE)
    BY <1>6 DEF LogOut
  <2>2. QED
    BY <1>0, <2>1, SentIsFresh
<1>7. ASSUME NEW h \in handlers, Read(h) PROVE Goal
  <2> DEFINE overdue == h.late /\ ~Removes(h)
             place == IF Removes(h) /\ users[h.of].role = "ADMIN" THEN "count" ELSE Proceeds(h)
             next == [h EXCEPT !.late = overdue, !.at = place]
  <2>1. \A n \in handlers' : n \in handlers \/ n = next
    BY <1>7 DEF Read, Ends
  <2>2. place \in {"count", "revoke", "write"} /\ (place = "write" => h.what # "delete")
    BY PlacesTyped
  <2>3. h \in Handler
    BY DEF TypeOK
  <2> HIDE DEF overdue, place
  <2>4. next.by = h.by /\ next.what = h.what /\ next.of = h.of /\ next.fields = h.fields
        /\ next.asked = h.asked /\ next.at = place
    BY <2>3 DEF Handler
  <2>5. Continues(next, h)
    BY <2>2, <2>4 DEF Continues, SameRequest
  <2>6. QED
    BY <1>0, <2>1, <2>5
<1>8. ASSUME NEW h \in handlers, Count(h) PROVE Goal
  <2>1. Continues([h EXCEPT !.at = Proceeds(h)], h)
    <3>1. Proceeds(h) \in {"revoke", "write"} /\ (Proceeds(h) = "write" => h.what # "delete")
      BY PlacesTyped
    <3>2. QED
      BY <3>1, MovedContinues
  <2>2. \A n \in handlers' : n \in handlers \/ n = [h EXCEPT !.at = Proceeds(h)]
    BY <1>8 DEF Count, Goes, Ends
  <2>3. QED
    BY <1>0, <2>1, <2>2
<1>9. ASSUME NEW h \in handlers, UpdateUser(h) PROVE Goal
  <2>1. CASE users[h.of].status = "GONE"
    BY <1>0, <1>9, <2>1 DEF UpdateUser, Ends
  <2>2. CASE users[h.of].status # "GONE"
    <3>1. Continues([h EXCEPT !.at = "revoke"], h)
      BY MovedContinues
    <3>2. \A n \in IF Revokes(h) THEN {[h EXCEPT !.at = "revoke"]} ELSE {} : Continues(n, h)
      BY <3>1
    <3>3. Put(h, Written(h), IF Revokes(h) THEN {[h EXCEPT !.at = "revoke"]} ELSE {})
      BY <1>9, <2>2 DEF UpdateUser
    <3>4. QED
      BY <3>2, <3>3, PutContinues
  <2>3. QED
    BY <2>1, <2>2
<1>10. ASSUME NEW h \in handlers, ForceLogout(h) \/ ForceLogoutFails(h) PROVE Goal
  BY <1>10, RevokeContinues DEF ForceLogout, ForceLogoutFails
<1>11. ASSUME NEW h \in handlers, LogoutGet(h) PROVE Goal
  <2>1. h.at = "get" => Continues([h EXCEPT !.at = "del"], h)
    BY MovedContinues
  <2>2. \A n \in handlers' : n \in handlers \/ n = [h EXCEPT !.at = "del"]
    BY <1>11 DEF LogoutGet, Goes, Ends
  <2>3. QED
    BY <1>0, <1>11, <2>1, <2>2 DEF LogoutGet
<1>12. ASSUME NEW h \in handlers, LogoutDel(h) PROVE Goal
  BY <1>0, <1>12 DEF LogoutDel, Ends
<1>13. ASSUME NEW h \in handlers, DeleteUserHard(h) PROVE Goal
  <2>1. CASE users[h.of].status = "GONE"
    BY <1>0, <1>13, <2>1 DEF DeleteUserHard, Ends
  <2>2. CASE users[h.of].status # "GONE"
    <3>1. Put(h, [users[h.of] EXCEPT !.status = "GONE"], {})
      BY <1>13, <2>2 DEF DeleteUserHard
    <3>2. QED
      BY <3>1, PutContinues
  <2>3. QED
    BY <2>1, <2>2
<1>14. QED
  BY <1>1, <1>2, <1>3, <1>4, <1>5, <1>6, <1>7, <1>8, <1>9, <1>10, <1>11, <1>12, <1>13
  DEF Next, vars, LoginReads, LoginSets, LoadUsers, HandleEdit

LEMMA CarriedStays == TypeOK /\ Carried /\ [Next]_vars => Carried'
<1> SUFFICES ASSUME TypeOK, Carried, [Next]_vars PROVE Carried'
  OBVIOUS
<1>1. SUFFICES ASSUME NEW n \in handlers'
               PROVE  /\ n.by \in tokens'
                      /\ n.what = "logout" => n.of = n.by.who
                      /\ n.at \in {"get", "del"} => n.what = "logout"
                      /\ n.at = "erase" => n.what = "delete"
                      /\ n.at = "write" => n.what # "delete"
  BY DEF Carried
<1>2. tokens \subseteq tokens'
  BY TokensStay
<1>3. CASE Fresh(n)
  BY <1>2, <1>3 DEF Fresh
<1>4. ASSUME NEW g \in handlers, Continues(n, g)
      PROVE  /\ n.by \in tokens'
             /\ n.what = "logout" => n.of = n.by.who
             /\ n.at \in {"get", "del"} => n.what = "logout"
             /\ n.at = "erase" => n.what = "delete"
             /\ n.at = "write" => n.what # "delete"
  BY <1>2, <1>4 DEF Carried, Continues, SameRequest
<1>5. QED
  BY <1>3, <1>4, HandlersAre

-----------------------------------------------------------------------------
(* Sessions that were ended.                                               *)
LEMMA VoidedStays == TypeOK /\ Numbered /\ Carried /\ Voided /\ [Next]_vars => Voided'
<1> SUFFICES ASSUME TypeOK, Numbered, Carried, Voided, [Next]_vars PROVE Voided'
  OBVIOUS
<1>1. tokens \subseteq tokens'
  BY TokensStay
<1>2. keys \in [Users -> Nat] /\ voided \subseteq Token /\ tokens \subseteq Token
  BY DEF TypeOK
<1>3. CASE UNCHANGED <<keys, voided>>
  BY <1>1, <1>3 DEF Voided
<1>4. ASSUME NEW l \in logins, LoginSets(l) PROVE Voided'
  <2>1. l \in Token /\ l \notin tokens
    BY DEF TypeOK, Numbered
  <2>2. \A t \in voided : t.who = l.who => t.jti # l.jti
    BY <1>2, <2>1 DEF Voided, Token
  <2>3. \A t \in voided : keys'[t.who] = IF t.who = l.who THEN l.jti ELSE keys[t.who]
    BY <1>2, <1>4 DEF LoginSets, Token
  <2>4. voided' = voided
    BY <1>4 DEF LoginSets
  <2>5. QED
    BY <1>1, <2>2, <2>3, <2>4 DEF Voided
<1>5. ASSUME NEW u \in Users, keys' = [keys EXCEPT ![u] = 0], voided \subseteq voided',
             \A t \in voided' : t \in voided \/ (t \in tokens /\ t.who = u)
      PROVE  Voided'
  <2>1. \A t \in voided' : t \in Token /\ t \in tokens'
    BY <1>1, <1>2, <1>5 DEF Voided
  <2>2. \A t \in voided' : keys'[t.who] = IF t.who = u THEN 0 ELSE keys[t.who]
    BY <1>2, <1>5, <2>1 DEF Token
  <2>3. \A t \in voided' : t.jti # 0
    BY <2>1 DEF Token
  <2>4. QED
    BY <1>5, <2>1, <2>2, <2>3 DEF Voided
<1>6. ASSUME NEW h \in handlers, ForceLogout(h) PROVE Voided'
  <2>1. h.of \in Users
    BY DEF TypeOK, Handler
  <2>2. QED
    BY <1>5, <1>6, <2>1 DEF ForceLogout, Sessions
<1>7. ASSUME NEW h \in handlers, LogoutDel(h) PROVE Voided'
  <2>1. h.of \in Users
    BY DEF TypeOK, Handler
  <2>2. h.by \in tokens /\ h.by.who = h.of
    BY <1>7 DEF Carried, LogoutDel
  <2>3. QED
    BY <1>5, <1>7, <2>1, <2>2 DEF LogoutDel
<1>8. QED
  <2>1. \/ UNCHANGED <<keys, voided>>
        \/ \E l \in logins : LoginSets(l)
        \/ \E h \in handlers : ForceLogout(h) \/ LogoutDel(h)
    BY Zenon DEF Next, vars, LoginReads, LoadUsers, HandleEdit, SubmitForm, HandleToggleStatus,
       ConfirmDeleteUser, ChangePassword, LogOut, Unchanged, Read, Count, UpdateUser,
       ForceLogoutFails, LogoutGet, DeleteUserHard
  <2>2. QED
    BY <1>3, <1>4, <1>6, <1>7, <2>1

-----------------------------------------------------------------------------
(* Administrators.                                                         *)
LEMMA RemovalIs ==
  \A h : /\ Pending(h) => h.at # "read" /\ Removes(h)
         /\ h.at \in {"read", "count", "get", "del"} => ~Pending(h)
BY DEF Pending, Removes, Deactivates

LEMMA PagesStay ==
  ASSUME RolesKept, UNCHANGED <<users, pages>>
  PROVE  RolesKept'
BY DEF RolesKept

(* One handler goes to a place where it removes nobody it has not counted. *)
LEMMA GoingKeeps ==
  ASSUME Kept, UNCHANGED users, RolesKept',
         \A n \in handlers' :
           \/ n \in handlers
           \/ ~Pending(n) /\ (~n.asked => n.fields.role \in {"same", "ADMIN"})
           \/ \E g \in handlers :
                SameRequest(n, g) /\ n.late = g.late
                /\ (Pending(n) => Pending(g) \/ Administrators \ {g.of} # {})
  PROVE  Kept'
<1>1. Administrators' = Administrators
  BY DEF Kept, Administrators
<1>2. FieldsKept'
  BY DEF Kept, FieldsKept, SameRequest
<1>3. OthersRemain'
  BY <1>1 DEF Kept, OthersRemain, SameRequest
<1>4. QED
  BY <1>1, <1>2, <1>3 DEF Kept

LEMMA SentKeeps ==
  ASSUME Kept, NEW u, NEW what, NEW of, NEW row, NEW told, NEW fields,
         Send(u, what, of, row, fields, told), what = "logout" => of = u,
         ~told => fields.role \in {"same", "ADMIN"}, UNCHANGED users, RolesKept'
  PROVE  Kept'
<1>1. \A n \in handlers' : n \in handlers \/ (Fresh(n) /\ n.fields = fields /\ n.asked = told)
  BY SentIsFresh
<1>2. \A n : Fresh(n) => ~Pending(n)
  BY RemovalIs DEF Fresh
<1>3. QED
  BY <1>1, <1>2, GoingKeeps

LEMMA PutKeeps ==
  ASSUME TypeOK, Kept, NEW h \in handlers, NEW row \in Row, NEW next, Put(h, row, next),
         row.role = "ADMIN", UNCHANGED pages,
         row = users[h.of] \/ row.status = "ACTIVE" \/ Administrators \ {h.of} # {},
         \A n \in next : SameRequest(n, h) /\ ~Pending(n)
  PROVE  Kept'
<1>1. h.of \in Users /\ users \in [Users -> Row] /\ handlers \ {h} \in SUBSET Handler
  BY DEF TypeOK, Handler
<1>2. users' = [users EXCEPT ![h.of] = row]
  BY DEF Put
<1>3. RolesKept'
  BY <1>1, <1>2 DEF Kept, RolesKept
<1>4. CASE row = users[h.of]
  <2>1. users' = users
    BY <1>1, <1>2, <1>4
  <2>2. \A n \in handlers' : n \in handlers \/ (~Pending(n) /\ (~n.asked => n.fields.role \in {"same", "ADMIN"}))
    BY <1>4 DEF Put, Kept, FieldsKept, SameRequest
  <2>3. QED
    BY <1>3, <2>1, <2>2, GoingKeeps
<1>5. CASE row # users[h.of]
  <2>1. handlers' = Late(handlers \ {h}, h.of) \cup next
    BY <1>5 DEF Put
  <2>2. \A n \in Late(handlers \ {h}, h.of) : \E g \in handlers :
           SameRequest(n, g) /\ (Pending(n) => n.late)
    <3>1. TAKE n \in Late(handlers \ {h}, h.of)
    <3>2. PICK g \in handlers \ {h} :
            /\ n.by = g.by /\ n.what = g.what /\ n.of = g.of /\ n.fields = g.fields
            /\ n.asked = g.asked /\ n.at = g.at
            /\ n.late = (g.late \/ (g.at # "read" /\ (Removes(g) \/ g.of = h.of)))
      BY <1>1, LateAre
    <3>3. Pending(n) => Pending(g)
      BY <3>2 DEF Pending, Deactivates
    <3>4. Pending(g) => n.late
      BY <3>2, RemovalIs
    <3>5. QED
      BY <3>2, <3>3, <3>4 DEF SameRequest
  <2>3. \A n \in handlers' : \E g \in handlers : SameRequest(n, g) /\ (Pending(n) => n.late)
    BY <2>1, <2>2
  <2>4. FieldsKept'
    BY <2>3 DEF Kept, FieldsKept, SameRequest
  <2>5. OthersRemain'
    BY <2>3 DEF OthersRemain
  <2>6. Administrators' # {}
    <3>1. CASE row.status = "ACTIVE"
      <4>1. h.of \in Administrators'
        BY <1>1, <1>2, <3>1 DEF Administrators
      <4>2. QED
        BY <4>1
    <3>2. CASE Administrators \ {h.of} # {}
      <4>1. PICK x \in Administrators : x # h.of
        BY <3>2
      <4>2. x \in Administrators'
        BY <1>1, <1>2, <4>1 DEF Administrators
      <4>3. QED
        BY <4>2
    <3>3. QED
      BY <1>5, <3>1, <3>2
  <2>7. QED
    BY <1>3, <2>4, <2>5, <2>6 DEF Kept
<1>6. QED
  BY <1>4, <1>5

LEMMA GuardedStays == TypeOK /\ Carried /\ Guarded /\ [Next]_vars => Guarded'
<1> SUFFICES ASSUME TypeOK, Carried, Guarded, [Next]_vars, ~excused' PROVE Kept'
  BY DEF Guarded
<1>0. Kept
  <2>1. excused => excused'
    BY DEF Next, vars, LoginReads, LoginSets, LoadUsers, HandleEdit, SubmitForm, HandleToggleStatus,
       ConfirmDeleteUser, ChangePassword, LogOut, Unchanged, Read, Count, UpdateUser, ForceLogout,
       ForceLogoutFails, LogoutGet, LogoutDel, DeleteUserHard, Put
  <2>2. QED
    BY <2>1 DEF Guarded
<1>1. CASE UNCHANGED <<users, pages, handlers>>
  BY <1>0, <1>1 DEF Kept, RolesKept, FieldsKept, OthersRemain, Administrators
<1>2. ASSUME NEW u \in Users, LoadUsers(u) PROVE Kept'
  <2>1. RolesKept'
    BY <1>0, <1>2 DEF LoadUsers, Kept, RolesKept, TypeOK
  <2>2. QED
    BY <1>0, <1>2, <2>1, GoingKeeps DEF LoadUsers
<1>3. ASSUME NEW u \in Users, NEW of \in Users, HandleEdit(u, of) PROVE Kept'
  <2>1. RolesKept'
    BY <1>0, <1>3 DEF HandleEdit, Kept, RolesKept, TypeOK, FormOf
  <2>2. QED
    BY <1>0, <1>3, <2>1, GoingKeeps DEF HandleEdit
<1>4. ASSUME NEW u \in Users, SubmitForm(u) PROVE Kept'
  <2>1. PICK fields \in Payloads(pages[u].form) :
          Send(u, "update", pages[u].form.of, pages[u].form.shown, fields,
               fields.role # pages[u].form.fields.role)
    BY <1>4 DEF SubmitForm
  <2>2. pages[u].form.fields.role = "ADMIN"
    BY <1>0, <1>4 DEF SubmitForm, Kept, RolesKept
  <2>3. RolesKept'
    BY <1>0, <1>4 DEF SubmitForm, Unchanged, Kept, RolesKept, TypeOK
  <2>4. UNCHANGED users
    BY <1>4 DEF SubmitForm, Unchanged
  <2>5. QED
    BY <1>0, <2>1, <2>2, <2>3, <2>4, SentKeeps
<1>5. ASSUME NEW u \in Users, NEW of \in Users, HandleToggleStatus(u, of) PROVE Kept'
  <2> DEFINE s == IF pages[u].list[of].status = "ACTIVE" THEN "INACTIVE" ELSE "ACTIVE"
             fields == [NoFields EXCEPT !.status = s]
  <2>1. Send(u, "update", of, pages[u].list[of], fields, FALSE) /\ UNCHANGED <<users, pages>>
    BY <1>5 DEF HandleToggleStatus, Unchanged
  <2>2. fields.role = "same"
    BY DEF NoFields
  <2> HIDE DEF fields
  <2>3. RolesKept'
    BY <1>0, <2>1, PagesStay DEF Kept
  <2>4. QED
    BY <1>0, <2>1, <2>2, <2>3, SentKeeps
<1>6. ASSUME NEW u \in Users, NEW of \in Users, ConfirmDeleteUser(u, of) PROVE Kept'
  <2> DEFINE fields == [NoFields EXCEPT !.confirm = (pages[u].list[of].status = "ACTIVE")]
  <2>1. Send(u, "delete", of, pages[u].list[of], fields, FALSE) /\ UNCHANGED <<users, pages>>
    BY <1>6 DEF ConfirmDeleteUser, Unchanged
  <2>2. fields.role = "same"
    BY DEF NoFields
  <2> HIDE DEF fields
  <2>3. RolesKept'
    BY <1>0, <2>1, PagesStay DEF Kept
  <2>4. QED
    BY <1>0, <2>1, <2>2, <2>3, SentKeeps
<1>7. ASSUME NEW u \in Users, ChangePassword(u) PROVE Kept'
  <2> DEFINE fields == [NoFields EXCEPT !.password = TRUE]
  <2>1. Send(u, "password", u, users[u], fields, FALSE) /\ UNCHANGED <<users, pages>>
    BY <1>7 DEF ChangePassword, Unchanged
  <2>2. fields.role = "same"
    BY DEF NoFields
  <2> HIDE DEF fields
  <2>3. RolesKept'
    BY <1>0, <2>1, PagesStay DEF Kept
  <2>4. QED
    BY <1>0, <2>1, <2>2, <2>3, SentKeeps
<1>8. ASSUME NEW u \in Users, LogOut(u) PROVE Kept'
  <2>1. Send(u, "logout", u, users[u], NoFields, FALSE) /\ UNCHANGED <<users, pages>>
    BY <1>8 DEF LogOut, Unchanged
  <2>2. NoFields.role = "same"
    BY DEF NoFields
  <2>3. RolesKept'
    BY <1>0, <2>1, PagesStay DEF Kept
  <2>4. QED
    BY <1>0, <2>1, <2>2, <2>3, SentKeeps
<1>9. ASSUME NEW h \in handlers, Read(h) PROVE Kept'
  <2> DEFINE overdue == h.late /\ ~Removes(h)
             place == IF Removes(h) /\ users[h.of].role = "ADMIN" THEN "count" ELSE Proceeds(h)
             next == [h EXCEPT !.late = overdue, !.at = place]
  <2>1. /\ \A n \in handlers' : n \in handlers \/ n = next
        /\ UNCHANGED <<users, pages>>
    BY <1>9 DEF Read, Ends
  <2>2. h \in Handler /\ h.of \in Users
    BY DEF TypeOK, Handler
  <2>3. place = IF Removes(h) THEN "count" ELSE "write"
    BY <1>0, <2>2 DEF Proceeds, Removes, Kept, RolesKept
  <2> HIDE DEF overdue, place
  <2>4. next.what = h.what /\ next.fields = h.fields /\ next.asked = h.asked /\ next.at = place
    BY <2>2 DEF Handler
  <2>5. ~Pending(next)
    BY <2>3, <2>4 DEF Pending, Removes, Deactivates
  <2>6. ~next.asked => next.fields.role \in {"same", "ADMIN"}
    BY <1>0, <2>4 DEF Kept, FieldsKept
  <2>7. RolesKept'
    BY <1>0, <2>1, PagesStay DEF Kept
  <2>8. QED
    BY <1>0, <2>1, <2>5, <2>6, <2>7, GoingKeeps
<1>10. ASSUME NEW h \in handlers, Count(h) PROVE Kept'
  <2> DEFINE next == [h EXCEPT !.at = Proceeds(h)]
  <2>1. /\ \A n \in handlers' : n \in handlers \/ (n = next /\ ~(CountActiveAdminsExcluding(h.of) < 1))
        /\ UNCHANGED <<users, pages>>
    BY <1>10 DEF Count, Goes, Ends
  <2>2. h \in Handler
    BY DEF TypeOK
  <2>3. SameRequest(next, h) /\ next.late = h.late
    BY <2>2 DEF Handler, SameRequest
  <2>4. ~(CountActiveAdminsExcluding(h.of) < 1) => Administrators \ {h.of} # {}
    BY FS_EmptySet DEF CountActiveAdminsExcluding
  <2>5. RolesKept'
    BY <1>0, <2>1, PagesStay DEF Kept
  <2> HIDE DEF next
  <2>6. QED
    BY <1>0, <2>1, <2>3, <2>4, <2>5, GoingKeeps
<1>11. ASSUME NEW h \in handlers, UpdateUser(h) PROVE Kept'
  <2>1. CASE users[h.of].status = "GONE"
    <3>1. (\A n \in handlers' : n \in handlers) /\ UNCHANGED <<users, pages>>
      BY <1>11, <2>1 DEF UpdateUser, Ends
    <3>2. QED
      BY <1>0, <3>1, PagesStay, GoingKeeps DEF Kept
  <2>2. CASE users[h.of].status # "GONE"
    <3> DEFINE next == IF Revokes(h) THEN {[h EXCEPT !.at = "revoke"]} ELSE {}
    <3>1. Put(h, Written(h), next) /\ h.at = "write" /\ UNCHANGED pages
      BY <1>11, <2>2 DEF UpdateUser
    <3>2. h \in Handler /\ users[h.of] \in Row
      BY DEF TypeOK, Handler
    <3>3. ~h.late /\ ~h.asked
      BY <3>1 DEF Put
    <3>4. Written(h) \in Row /\ Written(h).role = "ADMIN"
      BY <1>0, <3>2, <3>3 DEF Written, Row, Handler, Kept, RolesKept, FieldsKept, TypeOK
    <3>5. \/ Written(h) = users[h.of] \/ Written(h).status = "ACTIVE"
          \/ Administrators \ {h.of} # {}
      <4>1. CASE h.fields.status = "same"
        <5>1. Written(h).status = users[h.of].status /\ users[h.of].role = "ADMIN"
          BY <1>0, <3>2, <4>1 DEF Written, Kept, RolesKept, Handler
        <5>2. QED
          BY <3>2, <3>4, <5>1 DEF Row
      <4>2. CASE h.fields.status = "ACTIVE"
        BY <4>2 DEF Written
      <4>3. CASE h.fields.status = "INACTIVE"
        BY <1>0, <3>1, <3>3, <4>3 DEF Kept, OthersRemain, Pending, Deactivates
      <4>4. QED
        BY <3>2, <4>1, <4>2, <4>3 DEF Handler, Statuses
    <3>6. \A n \in next : SameRequest(n, h) /\ ~Pending(n)
      <4>1. LET n == [h EXCEPT !.at = "revoke"] IN SameRequest(n, h) /\ n.at = "revoke"
        BY <3>2 DEF SameRequest, Handler
      <4>2. h.what # "delete"
        BY <3>1 DEF Carried
      <4>3. QED
        BY <4>1, <4>2 DEF Pending, SameRequest
    <3> HIDE DEF next
    <3>7. QED
      BY <1>0, <3>1, <3>4, <3>5, <3>6, PutKeeps
  <2>3. QED
    BY <2>1, <2>2
<1>12. ASSUME NEW h \in handlers, ForceLogout(h) \/ ForceLogoutFails(h) PROVE Kept'
  <2> DEFINE next == [h EXCEPT !.at = "erase"]
  <2>1. /\ h.at = "revoke" /\ UNCHANGED <<users, pages>>
        /\ \A n \in handlers' : n \in handlers \/ (n = next /\ h.what = "delete")
    BY <1>12 DEF ForceLogout, ForceLogoutFails, AfterRevoke, Goes, Ends
  <2>2. h \in Handler
    BY DEF TypeOK
  <2>3. SameRequest(next, h) /\ next.late = h.late
    BY <2>2 DEF Handler, SameRequest
  <2>4. h.what = "delete" => Pending(h)
    BY <2>1 DEF Pending
  <2>5. RolesKept'
    BY <1>0, <2>1, PagesStay DEF Kept
  <2> HIDE DEF next
  <2>6. QED
    BY <1>0, <2>1, <2>3, <2>4, <2>5, GoingKeeps
<1>13. ASSUME NEW h \in handlers, LogoutGet(h) PROVE Kept'
  <2> DEFINE next == [h EXCEPT !.at = "del"]
  <2>1. /\ UNCHANGED <<users, pages>>
        /\ \A n \in handlers' : n \in handlers \/ n = next
    BY <1>13 DEF LogoutGet, Goes, Ends
  <2>2. h \in Handler
    BY DEF TypeOK
  <2>3. SameRequest(next, h) /\ next.late = h.late /\ next.at = "del"
    BY <2>2 DEF Handler, SameRequest
  <2>4. ~Pending(next)
    BY <2>3, RemovalIs
  <2>5. RolesKept'
    BY <1>0, <2>1, PagesStay DEF Kept
  <2> HIDE DEF next
  <2>6. QED
    BY <1>0, <2>1, <2>3, <2>4, <2>5, GoingKeeps
<1>14. ASSUME NEW h \in handlers, LogoutDel(h) PROVE Kept'
  <2>1. (\A n \in handlers' : n \in handlers) /\ UNCHANGED <<users, pages>>
    BY <1>14 DEF LogoutDel, Ends
  <2>2. QED
    BY <1>0, <2>1, PagesStay, GoingKeeps DEF Kept
<1>15. ASSUME NEW h \in handlers, DeleteUserHard(h) PROVE Kept'
  <2>1. CASE users[h.of].status = "GONE"
    <3>1. (\A n \in handlers' : n \in handlers) /\ UNCHANGED <<users, pages>>
      BY <1>15, <2>1 DEF DeleteUserHard, Ends
    <3>2. QED
      BY <1>0, <3>1, PagesStay, GoingKeeps DEF Kept
  <2>2. CASE users[h.of].status # "GONE"
    <3> DEFINE row == [users[h.of] EXCEPT !.status = "GONE"]
    <3>1. Put(h, row, {}) /\ h.at = "erase" /\ UNCHANGED pages
      BY <1>15, <2>2 DEF DeleteUserHard
    <3>2. users[h.of] \in Row /\ users[h.of].role = "ADMIN"
      BY <1>0 DEF TypeOK, Handler, Kept, RolesKept
    <3>3. row \in Row /\ row.role = "ADMIN"
      BY <3>2 DEF Row
    <3>4. Administrators \ {h.of} # {}
      <4>1. ~h.late /\ h.what = "delete"
        BY <3>1 DEF Put, Carried
      <4>2. QED
        BY <1>0, <3>1, <4>1 DEF Kept, OthersRemain, Pending
    <3> HIDE DEF row
    <3>5. QED
      BY <1>0, <3>1, <3>3, <3>4, PutKeeps
  <2>3. QED
    BY <2>1, <2>2
<1>16. QED
  BY <1>1, <1>2, <1>3, <1>4, <1>5, <1>6, <1>7, <1>8, <1>9, <1>10, <1>11, <1>12, <1>13, <1>14, <1>15
  DEF Next, vars, LoginReads, LoginSets

-----------------------------------------------------------------------------
LEMMA InvInit == Init => Inv
<1> SUFFICES ASSUME Init PROVE Inv
  OBVIOUS
<1> DEFINE first == [role |-> "ADMIN", status |-> "ACTIVE"]
<1>1. first \in Row
  BY DEF Row, Roles, Statuses
<1>2. tokens \subseteq Token
  BY DEF Init, Token
<1>3. TypeOK
  <2>1. MaxRequests \in Nat /\ MaxTrouble \in Nat
    BY AccountsAssumption
  <2>2. users \in [Users -> Row]
    BY <1>1 DEF Init
  <2>3. pages \in [Users -> [list : [Users -> Row], form : {NoForm} \cup Form]]
    BY <2>2 DEF Init
  <2>4. keys \in [Users -> Nat] /\ handlers \subseteq Handler /\ excused \in BOOLEAN
    BY DEF Init
  <2>5. logins \subseteq Token /\ voided \subseteq Token
    BY DEF Init
  <2>6. requests \in 0..MaxRequests /\ trouble \in 0..MaxTrouble
    BY <2>1 DEF Init
  <2>7. QED
    BY <1>2, <2>2, <2>3, <2>4, <2>5, <2>6 DEF TypeOK
<1>4. Numbered
  <2> DEFINE f == [u \in Users |-> [who |-> u, jti |-> 1]]
  <2>1. Signed = {[who |-> u, jti |-> 1] : u \in Users} /\ tokens \cap logins = {}
    BY DEF Init, Signed
  <2>2. IsFiniteSet(Signed)
    <3>1. IsFiniteSet({[who |-> u, jti |-> 1] : u \in Users})
      <4>1. f \in [Users -> Signed] /\ \A t \in Signed : \E u \in Users : f[u] = t
        BY <2>1
      <4>2. f \in Surjection(Users, Signed)
        BY <4>1 DEF Surjection
      <4>3. QED
        BY <2>1, <4>2, FS_Surjection, AccountsAssumption
    <3>2. QED
      BY <2>1, <3>1
  <2>3. \A t \in Signed : t.jti <= Cardinality(Of(Signed, t.who))
    <3>1. TAKE t \in Signed
    <3>2. t.jti = 1 /\ t \in Of(Signed, t.who)
      BY <2>1 DEF Of
    <3>3. Of(Signed, t.who) \subseteq {t}
      BY <2>1 DEF Of
    <3>4. Of(Signed, t.who) = {t}
      BY <3>2, <3>3
    <3>5. Cardinality(Of(Signed, t.who)) = 1
      BY <3>4, FS_Singleton
    <3>6. QED
      BY <3>2, <3>5
  <2>4. QED
    BY <2>1, <2>2, <2>3 DEF Numbered
<1>5. Carried /\ Voided
  BY DEF Init, Carried, Voided
<1>6. Guarded
  <2>1. RolesKept /\ FieldsKept /\ OthersRemain
    BY DEF Init, RolesKept, FieldsKept, OthersRemain
  <2>2. Administrators # {}
    BY AccountsAssumption DEF Init, Administrators
  <2>3. QED
    BY <2>1, <2>2 DEF Guarded, Kept
<1>7. QED
  BY <1>3, <1>4, <1>5, <1>6 DEF Inv

(* The inductive invariant of the accounts: tokens are numbered in the     *)
(* order of their logins, requests carry signed tokens, no key is that of  *)
(* a session that was ended, and what a removal has counted is still so    *)
(* unless it is late.                                                      *)
THEOREM Invariant == Spec => []Inv
<1>1. Init => Inv
  BY InvInit
<1>2. Inv /\ [Next]_vars => Inv'
  BY TypesStay, NumberedStays, CarriedStays, VoidedStays, GuardedStays DEF Inv
<1>3. QED
  BY <1>1, <1>2, PTL DEF Spec

(* Type correctness of the accounts, their pages, sessions and requests.   *)
THEOREM Typed == Spec => []TypeOK
<1>1. Inv => TypeOK
  BY DEF Inv
<1>2. QED
  BY <1>1, Invariant, PTL

(* A session that a logout, a new password, a deactivation or a deletion   *)
(* ended authenticates no request again, for any number of users, logins   *)
(* and handlers under way.                                                 *)
THEOREM RevocationsHold == Spec => []RevocationHolds
<1>1. Inv => RevocationHolds
  BY DEF Inv, Voided, RevocationHolds, Valid
<1>2. QED
  BY <1>1, Invariant, PTL

(* An active administrator remains, but for a choice of the form and for   *)
(* removals that were late.                                                *)
THEOREM AdministratorsRemain == Spec => []AnAdministratorRemains
<1>1. Inv => AnAdministratorRemains
  BY DEF Inv, Guarded, Kept, AnAdministratorRemains
<1>2. QED
  BY <1>1, Invariant, PTL

-----------------------------------------------------------------------------
(* The tab (AuthScreen).  Tokens are signed with growing numbers; the user *)
(* logs out of signed ones, and the server has no key for those.           *)
UnderWay == calls \cup late

TokensMade ==
  /\ {shown, stored, key} \subseteq 0..made /\ out \subseteq 1..made
  /\ \A c \in UnderWay : c.token \in 0..made

LoggedOut ==
  /\ key \notin out
  /\ \A c \in UnderWay : c.what = "logout" => c.token # None /\ (c.answer # "none" => c.token # key)

(* What is shown is stored; a session that is only stored, or shown after  *)
(* its logout, is about to be asked for, or is asked for and not approved. *)
ShownIsStored == shown # None => stored = shown

Asking(token, answers) ==
  \E c \in calls : c.what = "me" /\ c.token = token /\ c.answer \in answers

StoredIsAsked == shown = None /\ stored # None => due \/ Asking(stored, Answers)
ShownIsAsked  == shown \in out => due \/ Asking(shown, {"none", "401"})

TabInv ==
  TabTypeOK /\ TokensMade /\ LoggedOut /\ ShownIsStored /\ StoredIsAsked /\ ShownIsAsked

-----------------------------------------------------------------------------
LEMMA CallIs ==
  ASSUME NEW what, NEW token, Calls(what, token)
  PROVE  LET c == [what |-> what, token |-> token, answer |-> "none"]
         IN c.what = what /\ c.token = token /\ c.answer = "none" /\ calls' = calls \cup {c}
BY DEF Calls

LEMMA HandledIs ==
  ASSUME NEW c \in Call, made \in Nat
  PROVE  LET n == Handled(c)
         IN /\ n \in Call /\ n.what = c.what
            /\ n.token = IF c.what = "login" THEN made + 1 ELSE c.token
            /\ n.answer = IF c.what = "login" \/ c.token = key THEN "ok" ELSE "401"
<1>1. CASE c.what = "login"
  <2> DEFINE token == made + 1
  <2>1. Handled(c) = [c EXCEPT !.answer = "ok", !.token = token] /\ token \in Nat
    BY <1>1 DEF Handled
  <2> HIDE DEF token
  <2>2. Handled(c) \in Call
    BY <2>1 DEF Call, Answers
  <2>3. Handled(c).what = c.what /\ Handled(c).token = token /\ Handled(c).answer = "ok"
    BY <2>1 DEF Call
  <2>4. QED
    BY <1>1, <2>2, <2>3 DEF token
<1>2. CASE c.what # "login"
  <2> DEFINE answer == IF c.token = key THEN "ok" ELSE "401"
  <2>1. Handled(c) = [c EXCEPT !.answer = answer] /\ answer \in Answers
    BY <1>2 DEF Handled, Answers
  <2> HIDE DEF answer
  <2>2. Handled(c) \in Call /\ Handled(c).what = c.what /\ Handled(c).token = c.token
        /\ Handled(c).answer = answer
    BY <2>1 DEF Call
  <2>3. QED
    BY <1>2, <2>2 DEF answer
<1>3. QED
  BY <1>1, <1>2

LEMMA Clicked ==
  ASSUME Click, clicks \in 0..MaxClicks
  PROVE  clicks' \in 0..MaxClicks
<1>1. MaxClicks \in Nat
  BY TabAssumption
<1>2. QED
  BY <1>1 DEF Click

(* What is under way was before, has just been sent, or has been handled.  *)
Begun(c) ==
  /\ c \in Call /\ c.answer = "none"
  /\ \/ c.what \in {"login", "me", "work"} /\ c.token \in {None, stored, shown}
     \/ c.what = "logout" /\ c.token = shown /\ shown # None

Served(c) ==
  \E b \in UnderWay :
    /\ Serve(b) /\ b.answer = "none" /\ c \in Call /\ c.what = b.what /\ c.answer # "none"
    /\ c.token = IF b.what = "login" THEN made' ELSE b.token

LEMMA CallsAre ==
  TabTypeOK /\ [TabNext]_tabVars => \A c \in UnderWay' : c \in UnderWay \/ Begun(c) \/ Served(c)
<1> SUFFICES ASSUME TabTypeOK, [TabNext]_tabVars, NEW c \in UnderWay'
             PROVE  c \in UnderWay \/ Begun(c) \/ Served(c)
  OBVIOUS
<1>1. {shown, stored} \subseteq Nat /\ UnderWay \subseteq Call
  BY DEF TabTypeOK, UnderWay
<1>2. CASE UNCHANGED tabVars \/ EndsElsewhere \/ SocketAuthError
  BY <1>2 DEF tabVars, EndsElsewhere, SocketAuthError, UnderWay
<1>3. CASE Bootstrap \/ Login \/ LogoutRemote \/ AuthorizedFetch
  BY <1>1, <1>3 DEF Bootstrap, Login, LogoutRemote, AuthorizedFetch, Calls, UnderWay, Begun, Call,
     Kinds, Answers, None
<1>4. CASE Reload
  BY <1>4 DEF Reload, UnderWay
<1>5. ASSUME NEW b \in calls \cup late, Serve(b) PROVE c \in UnderWay \/ Begun(c) \/ Served(c)
  <2>1. b \in Call /\ made \in Nat
    BY <1>1 DEF UnderWay, TabTypeOK
  <2>2. c \in UnderWay \/ c = Handled(b)
    BY <1>5 DEF Serve, UnderWay
  <2>3. c = Handled(b) => Served(c)
    BY <1>5, <2>1, HandledIs DEF Serve, Served, UnderWay
  <2>4. QED
    BY <2>2, <2>3
<1>6. ASSUME NEW b \in calls, Answer(b) \/ Fails(b) PROVE c \in UnderWay \/ Begun(c) \/ Served(c)
  BY <1>6 DEF Answer, Fails, UnderWay
<1>7. QED
  BY <1>2, <1>3, <1>4, <1>5, <1>6 DEF TabNext

LEMMA BecomesIs ==
  ASSUME NEW token, Becomes(token)
  PROVE  shown' = token /\ stored' = token /\ (due \in BOOLEAN => due' \in BOOLEAN)
BY DEF Becomes

LEMMA TabTypesStay == TabTypeOK /\ [TabNext]_tabVars => TabTypeOK'
<1> SUFFICES ASSUME TabTypeOK, [TabNext]_tabVars PROVE TabTypeOK'
  OBVIOUS
<1>1. (calls \cup late)' \subseteq Call
  BY CallsAre DEF TabTypeOK, UnderWay, Begun, Served
<1>2. {shown, stored, key, made}' \subseteq Nat /\ due' \in BOOLEAN /\ out' \subseteq Nat
  <2> USE DEF TabTypeOK
  <2>1. CASE UNCHANGED tabVars
    <3>1. UNCHANGED <<shown, stored, due, key, made, out>>
      BY <2>1 DEF tabVars, tab, server
    <3>2. QED
      BY <3>1
  <2>2. CASE Bootstrap \/ Login \/ LogoutRemote \/ AuthorizedFetch \/ Reload
    <3>1. UNCHANGED <<stored, key, made, out>> /\ shown' \in {shown, None}
      BY <2>2 DEF Bootstrap, Login, LogoutRemote, AuthorizedFetch, Reload, tab, server
    <3>2. due' \in BOOLEAN
      BY <2>2 DEF Bootstrap, Login, LogoutRemote, AuthorizedFetch, Reload, tab
    <3>3. QED
      BY <3>1, <3>2 DEF None
  <2>3. ASSUME NEW c \in calls \cup late, Serve(c)
        PROVE  {shown, stored, key, made}' \subseteq Nat /\ due' \in BOOLEAN /\ out' \subseteq Nat
    <3>0. made \in Nat /\ key \in Nat /\ None \in Nat
      BY DEF None
    <3>1. made' \in Nat /\ key' \in Nat
      BY <2>3, <3>0 DEF Serve
    <3>2. UNCHANGED <<shown, stored, due, out>>
      BY <2>3 DEF Serve, tab
    <3>3. QED
      BY <3>1, <3>2
  <2>4. ASSUME NEW c \in calls, Answer(c) \/ Fails(c)
        PROVE  {shown, stored, key, made}' \subseteq Nat /\ due' \in BOOLEAN /\ out' \subseteq Nat
    <3>1. c.token \in Nat
      BY DEF Call
    <3>2. UNCHANGED tab \/ \E token \in Nat : Becomes(token)
      BY <2>4, <3>1 DEF Answer, Fails, None
    <3>3. shown' \in Nat /\ stored' \in Nat /\ due' \in BOOLEAN
      BY <3>2, BecomesIs DEF tab
    <3>4. UNCHANGED <<key, made>> /\ out' \subseteq Nat
      BY <2>4, <3>1 DEF Answer, Fails, server
    <3>5. QED
      BY <3>3, <3>4
  <2>5. CASE EndsElsewhere
    BY <2>5 DEF EndsElsewhere, tab, None
  <2>6. CASE SocketAuthError
    BY <2>6 DEF SocketAuthError, Becomes, server, None
  <2>7. QED
    BY <2>1, <2>2, <2>3, <2>4, <2>5, <2>6 DEF TabNext
<1>3. clicks' \in 0..MaxClicks
  <2>1. UNCHANGED clicks \/ Click
    BY DEF TabNext, tabVars, Bootstrap, Login, LogoutRemote, AuthorizedFetch, Reload, Serve, Answer,
       Fails, EndsElsewhere, SocketAuthError
  <2>2. QED
    BY <2>1, Clicked DEF TabTypeOK
<1>4. QED
  BY <1>1, <1>2, <1>3 DEF TabTypeOK

-----------------------------------------------------------------------------
(* Tokens, and the key after a logout.                                     *)
LEMMA MadeGrows == TabTypeOK /\ [TabNext]_tabVars => made' \in Nat /\ made <= made'
<1> SUFFICES ASSUME TabTypeOK, [TabNext]_tabVars PROVE made' \in Nat /\ made <= made'
  OBVIOUS
<1>1. made' \in {made, made + 1} /\ made \in Nat
  BY DEF TabTypeOK, TabNext, tabVars, server, Bootstrap, Login, LogoutRemote, AuthorizedFetch,
     Reload, Serve, Answer, Fails, EndsElsewhere, SocketAuthError
<1>2. QED
  BY <1>1

(* The key is unchanged, none, or a new number.                            *)
LEMMA KeyMoves ==
  TabTypeOK /\ [TabNext]_tabVars => key' \in {key, None} \/ (key' = made + 1 /\ made' = made + 1)
BY DEF TabNext, tabVars, server, Bootstrap, Login, LogoutRemote, AuthorizedFetch, Reload, Serve,
   Answer, Fails, EndsElsewhere, SocketAuthError, None

LEMMA TokensMadeStays == TabTypeOK /\ TokensMade /\ LoggedOut /\ [TabNext]_tabVars => TokensMade'
<1> SUFFICES ASSUME TabTypeOK, TokensMade, LoggedOut, [TabNext]_tabVars PROVE TokensMade'
  OBVIOUS
<1>1. made \in Nat /\ made' \in Nat /\ made <= made'
  BY MadeGrows DEF TabTypeOK
<1>2. 0..made \subseteq 0..made' /\ 1..made \subseteq 1..made' /\ None \in 0..made
  BY <1>1 DEF None
<1>3. key' \in 0..made'
  BY <1>1, <1>2, KeyMoves DEF TokensMade
<1>4. \A c \in UnderWay' : c.token \in 0..made'
  <2>1. \A c \in UnderWay : c.token \in 0..made'
    BY <1>2 DEF TokensMade
  <2>2. \A c : Begun(c) => c.token \in 0..made'
    BY <1>2 DEF TokensMade, Begun
  <2>3. \A c : Served(c) => c.token \in 0..made'
    <3>1. \A b \in UnderWay : b.token \in 0..made' /\ made' \in 0..made'
      BY <1>1, <1>2 DEF TokensMade
    <3>2. QED
      BY <3>1 DEF Served
  <2>4. QED
    BY <2>1, <2>2, <2>3, CallsAre
<1>5. shown' \in 0..made' /\ stored' \in 0..made'
  <2>1. \/ shown' \in {shown, None} /\ stored' \in {stored, None}
        \/ \E c \in calls : Becomes(c.token)
    BY DEF TabNext, tabVars, tab, Bootstrap, Login, LogoutRemote, AuthorizedFetch, Reload, Serve,
       Answer, Fails, EndsElsewhere, SocketAuthError, Becomes
  <2>2. \A c \in calls : c.token \in 0..made
    BY DEF TokensMade, UnderWay
  <2>3. QED
    BY <1>2, <2>1, <2>2 DEF TokensMade, Becomes
<1>6. out' \subseteq 1..made'
  <2>1. out' = out \/ \E c \in calls : c.what = "logout" /\ out' = out \cup {c.token}
    BY DEF TabNext, tabVars, Bootstrap, Login, LogoutRemote, AuthorizedFetch, Reload, Serve, Answer,
       Fails, EndsElsewhere, SocketAuthError
  <2>2. ASSUME NEW c \in calls, c.what = "logout" PROVE c.token \in 1..made'
    <3>1. c.token \in 0..made /\ c.token # 0
      BY <2>2 DEF TokensMade, LoggedOut, UnderWay, None
    <3>2. c.token \in 1..made
      BY <1>1, <3>1
    <3>3. QED
      BY <1>2, <3>2
  <2>3. out \subseteq 1..made'
    BY <1>2 DEF TokensMade
  <2>4. ASSUME NEW c \in calls, c.what = "logout", out' = out \cup {c.token} PROVE out' \subseteq 1..made'
    BY <2>2, <2>3, <2>4, Zenon
  <2>5. QED
    BY <2>1, <2>3, <2>4
<1>7. QED
  BY <1>3, <1>4, <1>5, <1>6 DEF TokensMade

LEMMA LoggedOutStays == TabTypeOK /\ TokensMade /\ LoggedOut /\ [TabNext]_tabVars => LoggedOut'
<1> SUFFICES ASSUME TabTypeOK, TokensMade, LoggedOut, [TabNext]_tabVars PROVE LoggedOut'
  OBVIOUS
<1>1. made \in Nat /\ out \subseteq 1..made /\ \A c \in UnderWay : c.token \in 0..made
  BY DEF TabTypeOK, TokensMade
(* No token that was signed is the key unless it is already.               *)
<1>2. \A t \in 1..made : t # key => t # key'
  BY <1>1, KeyMoves DEF None
<1>3. key' \notin out'
  <2>1. key' \notin out
    <3>1. \A t \in out : t \in 1..made /\ t # key
      BY <1>1 DEF LoggedOut
    <3>2. QED
      BY <1>2, <3>1
  <2>2. \/ out' = out
        \/ key' = key /\ \E c \in calls : c.what = "logout" /\ c.answer # "none" /\ out' = out \cup {c.token}
    BY DEF TabNext, tabVars, server, Bootstrap, Login, LogoutRemote, AuthorizedFetch, Reload, Serve,
       Answer, Fails, EndsElsewhere, SocketAuthError
  <2>3. QED
    BY <2>1, <2>2 DEF LoggedOut, UnderWay
<1>4. \A c \in UnderWay' : c.what = "logout" => c.token # None /\ (c.answer # "none" => c.token # key')
  <2> SUFFICES ASSUME NEW c \in UnderWay', c.what = "logout"
               PROVE  c.token # None /\ (c.answer # "none" => c.token # key')
    OBVIOUS
  <2>1. CASE c \in UnderWay
    <3>1. c.token \in 0..made /\ c.token # None /\ (c.answer # "none" => c.token # key)
      BY <1>1, <2>1 DEF LoggedOut
    <3>2. c.token \in 1..made
      BY <1>1, <3>1 DEF None
    <3>3. QED
      BY <1>2, <3>1, <3>2
  <2>2. CASE Begun(c)
    BY <2>2 DEF Begun
  <2>3. CASE Served(c)
    <3>1. PICK b \in UnderWay : Serve(b) /\ b.what = "logout" /\ c.token = b.token
      BY <2>3 DEF Served
    <3>2. b.token # None
      BY <3>1 DEF LoggedOut
    <3>3. b.token # key'
      BY <3>1, <3>2 DEF Serve
    <3>4. QED
      BY <3>1, <3>2, <3>3
  <2>4. QED
    BY <2>1, <2>2, <2>3, CallsAre
<1>5. QED
  BY <1>3, <1>4 DEF LoggedOut

-----------------------------------------------------------------------------
(* What is shown.                                                          *)
LEMMA ShownIsStoredStays == TabTypeOK /\ ShownIsStored /\ [TabNext]_tabVars => ShownIsStored'
BY DEF ShownIsStored, TabNext, tabVars, tab, Bootstrap, Login, LogoutRemote, AuthorizedFetch, Reload,
   Serve, Answer, Fails, EndsElsewhere, SocketAuthError, Becomes, None

LEMMA AskedStays ==
  TabInv /\ TokensMade' /\ [TabNext]_tabVars => StoredIsAsked' /\ ShownIsAsked'
<1> SUFFICES ASSUME TabInv, TokensMade', [TabNext]_tabVars PROVE StoredIsAsked' /\ ShownIsAsked'
  OBVIOUS
<1>0. None \notin out /\ None \notin out'
  BY DEF TabInv, TabTypeOK, TokensMade, None
<1>1. ASSUME calls \subseteq calls', UNCHANGED <<shown, stored, out>>, due => due'
      PROVE  StoredIsAsked' /\ ShownIsAsked'
  BY <1>1 DEF TabInv, StoredIsAsked, ShownIsAsked, Asking
<1>2. CASE UNCHANGED tabVars \/ EndsElsewhere \/ Login \/ LogoutRemote \/ AuthorizedFetch
  BY <1>1, <1>2 DEF tabVars, tab, EndsElsewhere, Login, LogoutRemote, AuthorizedFetch, Calls
<1>3. CASE Bootstrap
  <2>1. UNCHANGED <<shown, stored, out>>
    BY <1>3 DEF Bootstrap
  <2>2. CASE stored = None
    <3>1. shown = None
      BY <2>2 DEF TabInv, ShownIsStored
    <3>2. QED
      BY <1>0, <2>1, <2>2, <3>1 DEF StoredIsAsked, ShownIsAsked
  <2>3. CASE stored # None
    <3>1. Calls("me", stored)
      BY <1>3, <2>3 DEF Bootstrap
    <3>2. [what |-> "me", token |-> stored, answer |-> "none"] \in calls'
      BY <3>1 DEF Calls
    <3>3. Asking(stored, Answers)' /\ Asking(stored, {"none", "401"})'
      BY <2>1, <3>2 DEF Asking, Answers
    <3>4. shown \in out => shown = stored
      BY <1>0 DEF TabInv, ShownIsStored
    <3>5. QED
      BY <2>1, <3>3, <3>4 DEF StoredIsAsked, ShownIsAsked
  <2>4. QED
    BY <2>2, <2>3
<1>4. CASE Reload
  BY <1>4 DEF Reload, StoredIsAsked, ShownIsAsked
<1>5. ASSUME NEW c \in calls \cup late, Serve(c) PROVE StoredIsAsked' /\ ShownIsAsked'
  <2>1. UNCHANGED <<shown, stored, due, out>>
    BY <1>5 DEF Serve, tab
  <2>2. c \in Call /\ made \in Nat
    BY DEF TabInv, TabTypeOK
  <2>3. c.what = "me" => /\ Handled(c).what = "me" /\ Handled(c).token = c.token
                         /\ Handled(c).answer = IF c.token = key THEN "ok" ELSE "401"
    BY <2>2, HandledIs
  <2>4. \A b \in calls : b \in calls' \/ (b = c /\ Handled(c) \in calls')
    BY <1>5 DEF Serve
  <2>5. \A token : Asking(token, Answers) => Asking(token, Answers)'
    BY <2>3, <2>4 DEF Asking, Answers
  <2>6. \A token : token # key /\ Asking(token, {"none", "401"}) => Asking(token, {"none", "401"})'
    BY <2>3, <2>4 DEF Asking
  <2>7. shown \in out => shown # key
    BY DEF TabInv, LoggedOut
  <2>8. QED
    BY <2>1, <2>5, <2>6, <2>7 DEF TabInv, StoredIsAsked, ShownIsAsked
(* What is shown becomes None, or the token of an answer.                  *)
<1>6. ASSUME Becomes(None) PROVE StoredIsAsked' /\ ShownIsAsked'
  BY <1>0, <1>6 DEF Becomes, StoredIsAsked, ShownIsAsked
<1>7. ASSUME NEW c \in calls, c.answer = "ok", calls' = calls \ {c}, UNCHANGED out, Becomes(c.token)
      PROVE  StoredIsAsked' /\ ShownIsAsked'
  <2>1. shown' = c.token /\ stored' = c.token
    BY <1>7 DEF Becomes
  <2>0. (due => due') /\ (c.token # shown => due')
    BY <1>7 DEF Becomes
  <2>2. StoredIsAsked'
    BY <2>1 DEF StoredIsAsked
  <2>3. CASE shown' # shown
    <3>1. c.token # shown
      BY <2>1, <2>3
    <3>2. due'
      BY <2>0, <3>1
    <3>3. QED
      BY <2>2, <3>2 DEF ShownIsAsked
  <2>4. CASE shown' = shown
    <3>1. due => due'
      BY <2>0
    <3>2. Asking(shown, {"none", "401"}) => Asking(shown, {"none", "401"})'
      BY <1>7, <2>4 DEF Asking
    <3>3. QED
      BY <1>7, <2>2, <2>4, <3>1, <3>2 DEF TabInv, ShownIsAsked
  <2>5. QED
    BY <2>2, <2>3, <2>4 DEF ShownIsAsked
<1>8. ASSUME NEW c \in calls, c.what # "me", calls' = calls \ {c}, UNCHANGED <<tab, out>>
      PROVE  StoredIsAsked' /\ ShownIsAsked'
  <2>1. UNCHANGED <<shown, stored, due, out>>
    BY <1>8 DEF tab
  <2>2. \A token, answers : Asking(token, answers) => \E b \in calls' :
           b.what = "me" /\ b.token = token /\ b.answer \in answers
    BY <1>8 DEF Asking
  <2>3. QED
    BY <2>1, <2>2 DEF TabInv, StoredIsAsked, ShownIsAsked, Asking
<1>9. ASSUME NEW c \in calls, Answer(c) PROVE StoredIsAsked' /\ ShownIsAsked'
  <2>1. CASE Becomes(None)
    BY <1>6, <2>1
  <2>2. CASE c.answer = "ok" /\ c.what \in {"me", "login"} /\ Becomes(c.token)
    BY <1>7, <1>9, <2>2 DEF Answer
  <2>3. CASE c.answer = "ok" /\ c.what = "work" /\ UNCHANGED tab
    BY <1>8, <1>9, <2>3 DEF Answer
  <2>4. QED
    BY <1>9, <2>1, <2>2, <2>3 DEF Answer
<1>10. ASSUME NEW c \in calls, Fails(c) PROVE StoredIsAsked' /\ ShownIsAsked'
  BY <1>6, <1>8, <1>10 DEF Fails
<1>11. CASE SocketAuthError
  BY <1>6, <1>11 DEF SocketAuthError
<1>12. QED
  BY <1>2, <1>3, <1>4, <1>5, <1>9, <1>10, <1>11 DEF TabNext

LEMMA TabInvInit == TabInit => TabInv
<1> SUFFICES ASSUME TabInit PROVE TabInv
  OBVIOUS
<1>1. MaxClicks \in Nat
  BY TabAssumption
<1>2. TabTypeOK
  BY <1>1 DEF TabInit, TabTypeOK, None
<1>3. TokensMade /\ LoggedOut
  BY DEF TabInit, TokensMade, LoggedOut, UnderWay, None
<1>4. ShownIsStored /\ StoredIsAsked /\ ShownIsAsked
  BY DEF TabInit, ShownIsStored, StoredIsAsked, ShownIsAsked
<1>5. QED
  BY <1>2, <1>3, <1>4 DEF TabInv

(* The inductive invariant of the tab: the server has no key for a session *)
(* that was logged out of, and one that is stored or shown all the same is *)
(* about to be asked for, or is asked for and not approved.                *)
THEOREM TabInvariant == TabSpec => []TabInv
<1>1. TabInit => TabInv
  BY TabInvInit
<1>2. TabInv /\ [TabNext]_tabVars => TabInv'
  BY TabTypesStay, TokensMadeStays, LoggedOutStays, ShownIsStoredStays, AskedStays DEF TabInv
<1>3. QED
  BY <1>1, <1>2, PTL DEF TabSpec

(* A tab at rest shows no session that its user has logged out of, and     *)
(* keeps none in storage, in whatever order answers come.                  *)
THEOREM LogoutsStick == TabSpec => []LogoutSticks
<1>1. TabInv => LogoutSticks
  <2> SUFFICES ASSUME TabInv, calls = {}, ~due PROVE {shown, stored} \cap out = {}
    BY DEF LogoutSticks
  <2>1. \A token, answers : ~Asking(token, answers)
    BY DEF Asking
  <2>2. shown \notin out
    BY <2>1 DEF TabInv, ShownIsAsked
  <2>3. stored = None \/ stored = shown
    BY <2>1 DEF TabInv, StoredIsAsked, ShownIsStored
  <2>4. None \notin out
    BY DEF TabInv, TabTypeOK, TokensMade, None
  <2>5. QED
    BY <2>2, <2>3, <2>4
<1>2. QED
  BY <1>1, TabInvariant, PTL

-----------------------------------------------------------------------------
(* The lines: types.                                                       *)
Steps == {"idle", "list", "score", "allowed", "queue", "write", "read", "actor", "target", "origin",
          "conflict", "resolve", "record", "setQueue", "link", "adopt"}
Asks  == [op : {"none", "create", "take", "transfer", "inbound", "link"}, user : Staff \cup {NoAgent},
          chat : Ids \cup {1}, to : Staff \cup {NoAgent}, line : Lines \cup {NoLine},
          queue : Queues \cup {NoQueue}]
Finds == [chat : Rows, lines : SUBSET Lines, line : Lines \cup {NoLine}, queue : Queues \cup {NoQueue}]
Pasts == [linked : SUBSET (Queues \X Lines), member : SUBSET (Queues \X Agents)]

RequestsTyped ==
  /\ at \in [Procs -> Steps] /\ ask \in [Procs -> Asks] /\ found \in [Procs -> Finds]
  /\ had \in [Procs -> Pasts] /\ turned \subseteq Procs

RightsTyped ==
  /\ linked \subseteq Queues \X Lines /\ member \subseteq Queues \X Agents
  /\ active \subseteq Queues /\ live \subseteq Lines

LinesTypeOK ==
  /\ RightsTyped /\ RequestsTyped /\ chats \in [Ids -> Rows] /\ stray \subseteq Ids
  /\ asked \in 0..MaxAsked /\ changes \in 0..MaxChanges

(* What copies may hold are rows.                                          *)
PastTyped == past \in [Ids -> SUBSET Rows]

(* The unique key of a session and a number.                               *)
OnePerLine ==
  /\ \A k \in Ids : chats[k] = NoChat \/ chats[k].line \in Lines
  /\ \A j, k \in Ids : chats[j] # NoChat /\ chats[j].line = chats[k].line => j = k

(* What a request goes by: it saw the queue that it gives a chat, or asks  *)
(* about, on the line and its user or agent in the queue; and the chat has *)
(* that queue unless it turned.                                            *)
CreateSound(p) ==
  /\ at[p] \in {"list", "score", "allowed", "queue"} => ask[p].op = "create"
  /\ at[p] = "write" => ask[p].op \in {"create", "take", "transfer"}
  /\ ask[p].op = "create" =>
       /\ ask[p].user \in Staff
       /\ at[p] \in {"allowed", "queue", "write"} => LineOf(p) \in Lines
       /\ at[p] = "write" =>
            /\ found[p].queue \in Queues /\ <<found[p].queue, LineOf(p)>> \in had[p].linked
            /\ ask[p].user \in Supervisors \/ <<found[p].queue, ask[p].user>> \in had[p].member

TakeSound(p) ==
  /\ at[p] \in {"read", "actor"} => ask[p].op \in {"take", "transfer"}
  /\ at[p] \in {"target", "origin", "conflict"} => ask[p].op = "transfer"
  /\ ask[p].op \in {"take", "transfer"} =>
       /\ ask[p].chat \in Ids \ Unused /\ ask[p].to \in Staff
       /\ ask[p].op = "take" => ask[p].to = ask[p].user
       /\ at[p] # "read" /\ p \notin turned => chats[ask[p].chat].queue = found[p].chat.queue
       /\ at[p] = "actor" => ask[p].user \in Agents
       /\ \/ at[p] \in {"origin", "conflict"}
          \/ at[p] = "write" /\ (ask[p].op = "transfer" \/ ask[p].to \in Agents)
          => found[p].chat.queue = NoQueue \/ <<found[p].chat.queue, ask[p].to>> \in had[p].member

InboundSound(p) ==
  /\ at[p] \in {"resolve", "record", "setQueue"} => ask[p].op = "inbound"
  /\ ask[p].op = "inbound" =>
       /\ ask[p].line \in Lines
       /\ at[p] = "setQueue" => ask[p].chat \in Ids \ Unused /\ found[p].queue \in Queues

LinkSound(p) ==
  /\ at[p] \in {"link", "adopt"} => ask[p].op = "link"
  /\ ask[p].op = "link" => ask[p].line \in Lines /\ ask[p].queue \in Queues

PastSound(p) ==
  /\ at[p] = "idle" => ask[p] = NoRequest /\ p \notin turned
  /\ at[p] # "idle" => linked \subseteq had[p].linked /\ member \subseteq had[p].member

RequestSound(p) == CreateSound(p) /\ TakeSound(p) /\ InboundSound(p) /\ LinkSound(p) /\ PastSound(p)

(* A chat without a queue on a line that has one waits for a request that  *)
(* will give it one.                                                       *)
Awaited(k) ==
  \E p \in Procs : \/ at[p] = "adopt" /\ ask[p].line = chats[k].line
                   \/ at[p] = "setQueue" /\ ask[p].chat = k

OrphansAwaited ==
  \A k \in Ids \ (stray \cup Unused) :
    chats[k].queue = NoQueue /\ Serving(chats[k].line) # {} => Awaited(k)

LinesInv ==
  LinesTypeOK /\ OnePerLine /\ (\A p \in Procs : RequestSound(p)) /\ OrphansAwaited

-----------------------------------------------------------------------------
(* Constants, and the values that requests begin and end with.             *)
LEMMA LineConstants ==
  /\ IsFiniteSet(Lines) /\ NoQueue \notin Queues /\ NoLine \notin Lines
  /\ Agents \cap Supervisors = {} /\ NoAgent \notin Staff /\ Agents \subseteq Staff
  /\ MaxAsked \in Nat /\ MaxChanges \in Nat
BY LinesAssumption DEF Staff

LEMMA NothingsTyped ==
  NoChat \in Rows /\ NoRequest \in Asks /\ NothingRead \in Finds /\ NoHistory \in Pasts
BY DEF NoChat, NoRequest, NothingRead, NoHistory, Rows, Asks, Finds, Pasts

LEMMA RequestTyped ==
  ASSUME RequestsTyped, NEW p \in Procs
  PROVE  at[p] \in Steps /\ ask[p] \in Asks /\ found[p] \in Finds /\ had[p] \in Pasts
BY DEF RequestsTyped

LEMMA AskFields ==
  ASSUME RequestsTyped, NEW p \in Procs
  PROVE  /\ ask[p].user \in Staff \cup {NoAgent} /\ ask[p].to \in Staff \cup {NoAgent}
         /\ ask[p].chat \in Ids \cup {1} /\ ask[p].line \in Lines \cup {NoLine}
         /\ ask[p].queue \in Queues \cup {NoQueue}
         /\ found[p].chat \in Rows /\ found[p].lines \subseteq Lines
         /\ found[p].line \in Lines \cup {NoLine} /\ found[p].queue \in Queues \cup {NoQueue}
         /\ had[p].linked \subseteq Queues \X Lines /\ had[p].member \subseteq Queues \X Agents
BY RequestTyped DEF Asks, Finds, Pasts

(* ... and how requests go on and end.                                     *)
LEMMA FoundTyped ==
  ASSUME RequestsTyped, NEW p \in Procs, NEW f \in Finds, found' = [found EXCEPT ![p] = f]
  PROVE  found' \in [Procs -> Finds] /\ found'[p] = f /\ \A d \in Procs : d # p => found'[d] = found[d]
BY DEF RequestsTyped

LEMMA Ended ==
  ASSUME RequestsTyped, NEW p \in Procs, End(p)
  PROVE  /\ at'[p] = "idle" /\ ask'[p] = NoRequest /\ found'[p] = NothingRead
         /\ \A d \in Procs : d # p => /\ at'[d] = at[d] /\ ask'[d] = ask[d]
                                      /\ found'[d] = found[d] /\ had'[d] = had[d]
         /\ turned' \subseteq Procs => RequestsTyped'
BY NothingsTyped DEF End, RequestsTyped, Steps

LEMMA Finished ==
  ASSUME RequestsTyped, NEW p \in Procs, Finish(p) \/ FinishTurning(p)
  PROVE  RequestsTyped' /\ p \notin turned' /\ turned \ {p} \subseteq turned' /\ End(p)
<1>1. End(p) /\ turned' \subseteq Procs /\ p \notin turned' /\ turned \ {p} \subseteq turned'
  BY DEF Finish, FinishTurning, InFlight, RequestsTyped
<1> QED BY <1>1, Ended

-----------------------------------------------------------------------------
(* Requests step by step: of the other requests nothing changes but what   *)
(* they have seen.                                                         *)
StartsSomething(p) ==
  StartCreate(p) \/ StartTake(p) \/ StartTransfer(p) \/ StartInbound(p) \/ StartLink(p)

LEMMA Started ==
  ASSUME LinesTypeOK, NEW p \in Procs, NEW r \in Asks, NEW first \in Steps, Start(p, r, first)
  PROVE  /\ at[p] = "idle" /\ at'[p] = first /\ ask'[p] = r
         /\ had'[p] = [linked |-> linked, member |-> member]
         /\ \A d \in Procs : d # p => at'[d] = at[d] /\ ask'[d] = ask[d] /\ had'[d] = had[d]
         /\ UNCHANGED <<rights, chats, found, turned, stray, changes>>
         /\ LinesTypeOK'
<1>1. [linked |-> linked, member |-> member] \in Pasts
  BY DEF LinesTypeOK, RightsTyped, Pasts
<1>2. asked' \in 0..MaxAsked
  BY LineConstants DEF Start, LinesTypeOK
<1>3. RequestsTyped'
  BY <1>1 DEF Start, LinesTypeOK, RequestsTyped
<1>4. UNCHANGED <<rights, chats, found, turned, stray, changes>>
  BY DEF Start
<1>5. /\ at[p] = "idle" /\ at'[p] = first /\ ask'[p] = r
      /\ had'[p] = [linked |-> linked, member |-> member]
      /\ \A d \in Procs : d # p => at'[d] = at[d] /\ ask'[d] = ask[d] /\ had'[d] = had[d]
  BY DEF Start, LinesTypeOK, RequestsTyped
<1> QED BY <1>2, <1>3, <1>4, <1>5 DEF LinesTypeOK, RightsTyped, rights

(* Which request it is, and where it begins.                               *)
LEMMA Beginnings ==
  ASSUME LinesTypeOK, NEW p \in Procs, StartsSomething(p)
  PROVE  \E r \in Asks, first \in Steps :
           /\ Start(p, r, first)
           /\ \/ /\ r.op = "create" /\ r.user \in Staff
                 /\ first = IF r.line = NoLine THEN "list" ELSE "allowed"
              \/ r.op = "take" /\ first = "read" /\ r.chat \in Ids \ Unused /\ r.to \in Staff /\ r.to = r.user
              \/ r.op = "transfer" /\ first = "read" /\ r.chat \in Ids \ Unused /\ r.to \in Agents
              \/ r.op = "inbound" /\ first = "resolve" /\ r.line \in Lines
              \/ r.op = "link" /\ first = "link" /\ r.line \in Lines /\ r.queue \in Queues
<1>1. CASE StartCreate(p)
  <2>1. PICK u \in Staff, l \in Lines \cup {NoLine}, q \in Queues \cup {NoQueue} :
          Start(p, [NoRequest EXCEPT !.op = "create", !.user = u, !.line = l, !.queue = q],
                IF l = NoLine THEN "list" ELSE "allowed")
    BY <1>1 DEF StartCreate
  <2> DEFINE r == [NoRequest EXCEPT !.op = "create", !.user = u, !.line = l, !.queue = q]
             first == IF l = NoLine THEN "list" ELSE "allowed"
  <2>2. r \in Asks /\ r.op = "create" /\ r.user = u /\ r.line = l
    BY NothingsTyped DEF Asks
  <2>3. first \in Steps
    BY DEF Steps
  <2>4. Start(p, r, first) /\ first = IF r.line = NoLine THEN "list" ELSE "allowed"
    BY <2>1, <2>2
  <2> HIDE DEF r, first
  <2> QED BY <2>2, <2>3, <2>4
<1>2. CASE StartTake(p)
  <2>1. PICK u \in Staff, k \in Ids \ Unused :
          Start(p, [NoRequest EXCEPT !.op = "take", !.user = u, !.chat = k, !.to = u], "read")
    BY <1>2 DEF StartTake
  <2> DEFINE r == [NoRequest EXCEPT !.op = "take", !.user = u, !.chat = k, !.to = u]
  <2>2. r \in Asks /\ r.op = "take" /\ r.user = u /\ r.chat = k /\ r.to = u /\ "read" \in Steps
    BY NothingsTyped DEF Asks, Steps
  <2>3. Start(p, r, "read")
    BY <2>1
  <2> HIDE DEF r
  <2> QED BY <2>2, <2>3
<1>3. CASE StartTransfer(p)
  <2>1. PICK u \in Staff, k \in Ids \ Unused, a \in Agents, l \in Lines \cup {NoLine} :
          Start(p, [NoRequest EXCEPT !.op = "transfer", !.user = u, !.chat = k, !.to = a, !.line = l], "read")
    BY <1>3 DEF StartTransfer
  <2> DEFINE r == [NoRequest EXCEPT !.op = "transfer", !.user = u, !.chat = k, !.to = a, !.line = l]
  <2>2. r \in Asks /\ r.op = "transfer" /\ r.chat = k /\ r.to = a /\ "read" \in Steps
    BY NothingsTyped, LineConstants DEF Asks, Steps
  <2>3. Start(p, r, "read")
    BY <2>1
  <2> HIDE DEF r
  <2> QED BY <2>2, <2>3
<1>4. CASE StartInbound(p)
  <2>1. PICK l \in Lines : Start(p, [NoRequest EXCEPT !.op = "inbound", !.line = l], "resolve")
    BY <1>4 DEF StartInbound
  <2> DEFINE r == [NoRequest EXCEPT !.op = "inbound", !.line = l]
  <2>2. r \in Asks /\ r.op = "inbound" /\ r.line = l /\ "resolve" \in Steps
    BY NothingsTyped DEF Asks, Steps
  <2>3. Start(p, r, "resolve")
    BY <2>1
  <2> HIDE DEF r
  <2> QED BY <2>2, <2>3
<1>5. CASE StartLink(p)
  <2>1. PICK q \in Queues, l \in Lines :
          Start(p, [NoRequest EXCEPT !.op = "link", !.line = l, !.queue = q], "link")
    BY <1>5 DEF StartLink
  <2> DEFINE r == [NoRequest EXCEPT !.op = "link", !.line = l, !.queue = q]
  <2>2. r \in Asks /\ r.op = "link" /\ r.line = l /\ r.queue = q /\ "link" \in Steps
    BY NothingsTyped DEF Asks, Steps
  <2>3. Start(p, r, "link")
    BY <2>1
  <2> HIDE DEF r
  <2> QED BY <2>2, <2>3
<1> QED BY <1>1, <1>2, <1>3, <1>4, <1>5 DEF StartsSomething

LEMMA EndsSound ==
  ASSUME RequestsTyped, NEW p \in Procs, End(p), p \notin turned'
  PROVE  RequestSound(p)'
<1>1. at'[p] = "idle" /\ ask'[p] = NoRequest
  BY Ended
<1>2. ask'[p].op = "none"
  BY <1>1 DEF NoRequest
<1> QED BY <1>1, <1>2 DEF RequestSound, CreateSound, TakeSound, InboundSound, LinkSound, PastSound

(* A request that reads on.                                                *)
Reading(p) ==
  \/ ListConnections(p) \/ ScoreConnections(p) \/ ConnectionAllowed(p) \/ ChooseQueue(p)
  \/ ReadChat(p) \/ CheckQueue(p) \/ CheckConflict(p) \/ ResolveQueue(p)

GoesOn(p, l, f) ==
  /\ at' = [at EXCEPT ![p] = l] /\ found' = [found EXCEPT ![p] = f] /\ UNCHANGED <<ask, had>>
  /\ turned' \in {turned, turned \cup {p}}

LEMMA WentOn ==
  ASSUME LinesTypeOK, NEW p \in Procs, NEW l \in Steps, NEW f \in Finds, GoesOn(p, l, f), Reads
  PROVE  /\ at'[p] = l /\ ask'[p] = ask[p] /\ found'[p] = f /\ had'[p] = had[p]
         /\ chats' = chats
         /\ LineOf(p)' = IF ask[p].line = NoLine THEN f.line ELSE ask[p].line
         /\ at[p] # "idle" /\ l # "idle" /\ PastSound(p) => PastSound(p)'
<1>1. /\ at'[p] = l /\ ask'[p] = ask[p] /\ found'[p] = f /\ had'[p] = had[p]
      /\ chats' = chats /\ UNCHANGED rights
  <2>1. at' = [at EXCEPT ![p] = l] /\ UNCHANGED <<ask, had>> /\ found' = [found EXCEPT ![p] = f]
    BY DEF GoesOn
  <2>2. chats' = chats /\ UNCHANGED rights
    BY DEF Reads
  <2>3. at'[p] = l /\ found'[p] = f
    BY <2>1 DEF LinesTypeOK, RequestsTyped
  <2> QED BY <2>1, <2>2, <2>3
<1>2. LineOf(p)' = IF ask[p].line = NoLine THEN f.line ELSE ask[p].line
  BY <1>1 DEF LineOf
<1>3. at[p] # "idle" /\ l # "idle" /\ PastSound(p) => PastSound(p)'
  BY <1>1 DEF PastSound, rights
<1> QED BY <1>1, <1>2, <1>3

LEMMA SameFound ==
  ASSUME RequestsTyped, NEW p \in Procs, UNCHANGED found
  PROVE  found' = [found EXCEPT ![p] = found[p]] /\ found[p] \in Finds
BY DEF RequestsTyped

(* createOrReopenChat, until it writes.                                    *)
LEMMA CreateReads ==
  ASSUME LinesTypeOK, NEW p \in Procs, RequestSound(p),
         ListConnections(p) \/ ScoreConnections(p) \/ ConnectionAllowed(p) \/ ChooseQueue(p)
  PROVE  /\ Reads
         /\ \/ Finish(p)
            \/ \E l \in Steps \ {"idle"}, f \in Finds : GoesOn(p, l, f) /\ RequestSound(p)'
<1> USE DEF LinesTypeOK
<1>r. /\ at[p] \in {"list", "score", "allowed", "queue"} /\ ask[p].op = "create"
      /\ PastSound(p) /\ ask[p].user \in Staff
  BY DEF ListConnections, ScoreConnections, ConnectionAllowed, ChooseQueue, RequestSound, CreateSound
(* What a request that creates has to show when it goes on.                *)
<1>s. ASSUME NEW l \in {"score", "allowed", "queue", "write"}, NEW f \in Finds, GoesOn(p, l, f), Reads,
             l # "score" => (IF ask[p].line = NoLine THEN f.line ELSE ask[p].line) \in Lines,
             l = "write" =>
               /\ f.queue \in Queues
               /\ <<f.queue, IF ask[p].line = NoLine THEN f.line ELSE ask[p].line>> \in had[p].linked
               /\ ask[p].user \in Supervisors \/ <<f.queue, ask[p].user>> \in had[p].member
      PROVE  l \in Steps \ {"idle"} /\ RequestSound(p)'
  <2>1. l \in Steps \ {"idle"}
    BY DEF Steps
  <2>2. /\ at'[p] = l /\ ask'[p] = ask[p] /\ found'[p] = f /\ had'[p] = had[p] /\ PastSound(p)'
        /\ LineOf(p)' = IF ask[p].line = NoLine THEN f.line ELSE ask[p].line
    BY <1>r, <1>s, <2>1, WentOn
  <2>3. CreateSound(p)'
    BY <1>r, <1>s, <2>2 DEF CreateSound
  <2>4. TakeSound(p)' /\ InboundSound(p)' /\ LinkSound(p)'
    BY <1>r, <2>2 DEF TakeSound, InboundSound, LinkSound
  <2> QED BY <2>1, <2>2, <2>3, <2>4 DEF RequestSound
<1>1. CASE ListConnections(p)
  <2>0. Reads
    BY <1>1 DEF ListConnections
  <2>1. SUFFICES ASSUME ~Finish(p)
                 PROVE  \E l \in Steps \ {"idle"}, f \in Finds : GoesOn(p, l, f) /\ RequestSound(p)'
    BY <2>0
  <2>2. PICK S \in SUBSET Lines : found' = [found EXCEPT ![p].lines = S] /\ Goto(p, "score")
    BY <1>1, <2>1 DEF ListConnections
  <2> DEFINE f == [found[p] EXCEPT !.lines = S]
  <2>3. f \in Finds /\ found' = [found EXCEPT ![p] = f]
    BY <2>2, RequestTyped DEF Finds
  <2>4. GoesOn(p, "score", f)
    BY <2>2, <2>3 DEF GoesOn, Goto
  <2> HIDE DEF f
  <2> QED BY <2>0, <2>3, <2>4, <1>s
<1>2. CASE ScoreConnections(p)
  <2>0. Reads
    BY <1>2 DEF ScoreConnections
  <2>1. SUFFICES ASSUME ~Finish(p)
                 PROVE  \E l \in Steps \ {"idle"}, f \in Finds : GoesOn(p, l, f) /\ RequestSound(p)'
    BY <2>0
  <2>2. PICK l \in scoreSession(found[p].lines) :
          found' = [found EXCEPT ![p].lines = {}, ![p].line = l] /\ Goto(p, "allowed")
    BY <1>2, <2>1 DEF ScoreConnections
  <2>3. l \in Lines
    BY <2>2 DEF scoreSession, RightsTyped
  <2> DEFINE f == [found[p] EXCEPT !.lines = {}, !.line = l]
  <2>4. f \in Finds /\ found' = [found EXCEPT ![p] = f] /\ f.line = l
    BY <2>2, <2>3, RequestTyped DEF Finds
  <2>5. GoesOn(p, "allowed", f)
    BY <2>2, <2>4 DEF GoesOn, Goto
  <2>6. (IF ask[p].line = NoLine THEN f.line ELSE ask[p].line) \in Lines
    BY <2>3, <2>4, AskFields
  <2> HIDE DEF f
  <2> QED BY <2>0, <2>4, <2>5, <2>6, <1>s
<1>3. CASE ConnectionAllowed(p)
  <2>0. Reads
    BY <1>3 DEF ConnectionAllowed
  <2>1. SUFFICES ASSUME ~Finish(p)
                 PROVE  \E l \in Steps \ {"idle"}, f \in Finds : GoesOn(p, l, f) /\ RequestSound(p)'
    BY <2>0
  <2>2. Goto(p, "queue") /\ UNCHANGED found /\ at[p] = "allowed"
    BY <1>3, <2>1 DEF ConnectionAllowed
  <2>3. GoesOn(p, "queue", found[p]) /\ found[p] \in Finds
    BY <2>2, SameFound DEF GoesOn, Goto
  <2>4. (IF ask[p].line = NoLine THEN found[p].line ELSE ask[p].line) \in Lines
    BY <1>r, <2>2 DEF RequestSound, CreateSound, LineOf
  <2> QED BY <2>0, <2>3, <2>4, <1>s
<1>4. CASE ChooseQueue(p)
  <2>0. Reads
    BY <1>4 DEF ChooseQueue
  <2>1. SUFFICES ASSUME ~Finish(p)
                 PROVE  \E l \in Steps \ {"idle"}, f \in Finds : GoesOn(p, l, f) /\ RequestSound(p)'
    BY <2>0
  <2>2. at[p] = "queue" /\ \E q \in QueuesFor(ask[p].user, LineOf(p)) :
                             found' = [found EXCEPT ![p].queue = q] /\ Goto(p, "write")
    BY <1>4, <2>1 DEF ChooseQueue
  <2>3. PICK q \in QueuesFor(ask[p].user, LineOf(p)) : found' = [found EXCEPT ![p].queue = q] /\ Goto(p, "write")
    BY <2>2
  <2>4. /\ q \in Queues /\ <<q, LineOf(p)>> \in linked
        /\ ask[p].user \in Supervisors \/ <<q, ask[p].user>> \in member
    BY <2>3 DEF QueuesFor, Serving, RightsTyped
  <2>5. linked \subseteq had[p].linked /\ member \subseteq had[p].member /\ LineOf(p) \in Lines
    BY <1>r, <2>2 DEF RequestSound, PastSound, CreateSound
  <2> DEFINE f == [found[p] EXCEPT !.queue = q]
  <2>6. f \in Finds /\ found' = [found EXCEPT ![p] = f] /\ f.queue = q /\ f.line = found[p].line
    BY <2>3, <2>4, RequestTyped DEF Finds
  <2>7. GoesOn(p, "write", f)
    BY <2>3, <2>6 DEF GoesOn, Goto
  <2>8. (IF ask[p].line = NoLine THEN f.line ELSE ask[p].line) = LineOf(p)
    BY <2>6 DEF LineOf
  <2> HIDE DEF f
  <2>9. /\ f.queue \in Queues /\ <<f.queue, LineOf(p)>> \in had[p].linked
        /\ ask[p].user \in Supervisors \/ <<f.queue, ask[p].user>> \in had[p].member
    BY <2>4, <2>5, <2>6
  <2>10. "write" \in Steps \ {"idle"} /\ RequestSound(p)'
    BY <2>0, <2>5, <2>6, <2>7, <2>8, <2>9, <1>s
  <2> QED BY <2>6, <2>7, <2>10
<1> QED BY <1>1, <1>2, <1>3, <1>4

(* assignChat and reassignChat, until they write.                          *)
LEMMA TakeReads ==
  ASSUME LinesTypeOK, PastTyped, NEW p \in Procs, RequestSound(p), ReadChat(p) \/ CheckQueue(p) \/ CheckConflict(p)
  PROVE  /\ Reads
         /\ \/ Finish(p)
            \/ \E l \in Steps \ {"idle"}, f \in Finds : GoesOn(p, l, f) /\ RequestSound(p)'
<1> USE DEF LinesTypeOK
<1>r. /\ ask[p].op \in {"take", "transfer"} /\ PastSound(p) /\ at[p] # "idle"
      /\ ask[p].chat \in Ids \ Unused /\ ask[p].to \in Staff
      /\ ask[p].op = "take" => ask[p].to = ask[p].user
      /\ at[p] # "read" /\ p \notin turned => chats[ask[p].chat].queue = found[p].chat.queue
  BY DEF ReadChat, CheckQueue, CheckConflict, RequestSound, TakeSound
<1>s. ASSUME NEW l \in {"actor", "target", "origin", "conflict", "write"}, NEW f \in Finds,
             GoesOn(p, l, f), Reads, chats[ask[p].chat].queue = f.chat.queue \/ p \in turned',
             l \in {"target", "origin", "conflict"} => ask[p].op = "transfer",
             l = "actor" => ask[p].user \in Agents,
             \/ l \in {"origin", "conflict"}
             \/ l = "write" /\ (ask[p].op = "transfer" \/ ask[p].to \in Agents)
             => f.chat.queue = NoQueue \/ <<f.chat.queue, ask[p].to>> \in had[p].member
      PROVE  l \in Steps \ {"idle"} /\ RequestSound(p)'
  <2>1. l \in Steps \ {"idle"}
    BY DEF Steps
  <2>2. /\ at'[p] = l /\ ask'[p] = ask[p] /\ found'[p] = f /\ had'[p] = had[p] /\ PastSound(p)'
        /\ chats' = chats
    BY <1>r, <1>s, <2>1, WentOn
  <2>3. Unused' = Unused
    BY <2>2 DEF Unused
  <2>4. TakeSound(p)'
    BY <1>r, <1>s, <2>2, <2>3 DEF TakeSound
  <2>5. CreateSound(p)' /\ InboundSound(p)' /\ LinkSound(p)'
    BY <1>r, <2>2 DEF CreateSound, InboundSound, LinkSound
  <2> QED BY <2>1, <2>2, <2>4, <2>5 DEF RequestSound
<1>1. CASE ReadChat(p)
  <2>0. Reads
    BY <1>1 DEF ReadChat
  <2>1. SUFFICES ASSUME ~Finish(p)
                 PROVE  \E l \in Steps \ {"idle"}, f \in Finds : GoesOn(p, l, f) /\ RequestSound(p)'
    BY <2>0
  <2> DEFINE l == IF ask[p].user \in Agents THEN "actor" ELSE IF ask[p].op = "take" THEN "write" ELSE "target"
  <2>2. PICK read \in getChatById(ask[p].chat) :
          /\ found' = [found EXCEPT ![p].chat = read] /\ at' = [at EXCEPT ![p] = l]
          /\ turned' = (IF read.queue = chats[ask[p].chat].queue THEN turned ELSE turned \cup {p})
          /\ UNCHANGED <<ask, had>>
    BY <1>1, <2>1 DEF ReadChat
  <2> DEFINE f == [found[p] EXCEPT !.chat = read]
  <2>3. read \in Rows
    BY <1>r DEF getChatById, PastTyped
  <2>4. f \in Finds /\ found' = [found EXCEPT ![p] = f] /\ f.chat = read
    BY <2>2, <2>3, RequestTyped DEF Finds
  <2>5. chats[ask[p].chat].queue = f.chat.queue \/ p \in turned'
    BY <2>2, <2>4
  <2>6. l \in {"actor", "target", "write"} /\ (l = "actor" => ask[p].user \in Agents)
    OBVIOUS
  <2>7. l = "target" => ask[p].op = "transfer"
    BY <1>r
  <2>8. l = "write" => ask[p].op = "take" /\ ask[p].to \notin Agents
    BY <1>r
  <2> HIDE DEF l, f
  <2>9. GoesOn(p, l, f)
    BY <2>2, <2>4 DEF GoesOn
  <2> QED BY <1>r, <2>0, <2>4, <2>5, <2>6, <2>7, <2>8, <2>9, <1>s
<1>2. CASE CheckQueue(p)
  <2>0. Reads /\ at[p] \in {"actor", "target", "origin"}
    BY <1>2 DEF CheckQueue
  <2>1. SUFFICES ASSUME ~Finish(p)
                 PROVE  \E l \in Steps \ {"idle"}, f \in Finds : GoesOn(p, l, f) /\ RequestSound(p)'
    BY <2>0
  <2>2. InQueue(Checked(p), found[p].chat.queue) /\ Goto(p, AfterCheck(p)) /\ UNCHANGED found
    BY <1>2, <2>1 DEF CheckQueue
  <2>3. GoesOn(p, AfterCheck(p), found[p]) /\ found[p] \in Finds
    BY <2>2, SameFound DEF GoesOn, Goto
  <2>4. member \subseteq had[p].member
    BY <1>r DEF PastSound
  <2>5. chats[ask[p].chat].queue = found[p].chat.queue \/ p \in turned'
    BY <1>r, <2>0, <2>2 DEF Goto
  <2>6. CASE at[p] = "actor"
    <3>1. Checked(p) = ask[p].user /\ AfterCheck(p) = IF ask[p].op = "take" THEN "write" ELSE "target"
      BY <2>6 DEF Checked, AfterCheck
    <3>2. CASE ask[p].op = "take"
      <4>1. found[p].chat.queue = NoQueue \/ <<found[p].chat.queue, ask[p].to>> \in had[p].member
        BY <1>r, <2>2, <2>4, <3>1, <3>2 DEF InQueue
      <4> QED BY <2>0, <2>3, <2>5, <3>1, <3>2, <4>1, <1>s
    <3>3. CASE ask[p].op = "transfer"
      BY <2>0, <2>3, <2>5, <3>1, <3>3, <1>s
    <3> QED BY <1>r, <3>2, <3>3
  <2>7. CASE at[p] = "target"
    <3>1. Checked(p) = ask[p].to /\ AfterCheck(p) \in {"conflict", "origin"} /\ ask[p].op = "transfer"
      BY <2>7 DEF Checked, AfterCheck, RequestSound, TakeSound
    <3>2. found[p].chat.queue = NoQueue \/ <<found[p].chat.queue, ask[p].to>> \in had[p].member
      BY <2>2, <2>4, <3>1 DEF InQueue
    <3> QED BY <2>0, <2>3, <2>5, <3>1, <3>2, <1>s
  <2>8. CASE at[p] = "origin"
    <3>1. AfterCheck(p) = "conflict" /\ ask[p].op = "transfer"
      BY <2>8 DEF AfterCheck, RequestSound, TakeSound
    <3>2. found[p].chat.queue = NoQueue \/ <<found[p].chat.queue, ask[p].to>> \in had[p].member
      BY <2>8, <3>1 DEF RequestSound, TakeSound
    <3> QED BY <2>0, <2>3, <2>5, <3>1, <3>2, <1>s
  <2> QED BY <2>0, <2>6, <2>7, <2>8
<1>3. CASE CheckConflict(p)
  <2>0. Reads /\ at[p] = "conflict"
    BY <1>3 DEF CheckConflict
  <2>1. SUFFICES ASSUME ~Finish(p)
                 PROVE  \E l \in Steps \ {"idle"}, f \in Finds : GoesOn(p, l, f) /\ RequestSound(p)'
    BY <2>0
  <2>2. Goto(p, "write") /\ UNCHANGED found
    BY <1>3, <2>1 DEF CheckConflict
  <2>3. GoesOn(p, "write", found[p]) /\ found[p] \in Finds
    BY <2>2, SameFound DEF GoesOn, Goto
  <2>4. /\ ask[p].op = "transfer" /\ (chats[ask[p].chat].queue = found[p].chat.queue \/ p \in turned')
        /\ found[p].chat.queue = NoQueue \/ <<found[p].chat.queue, ask[p].to>> \in had[p].member
    BY <1>r, <2>0, <2>2 DEF Goto, RequestSound, TakeSound
  <2> QED BY <2>0, <2>3, <2>4, <1>s
<1> QED BY <1>1, <1>2, <1>3

LEMMA InboundReads ==
  ASSUME LinesTypeOK, NEW p \in Procs, RequestSound(p), ResolveQueue(p)
  PROVE  /\ Reads
         /\ \E l \in Steps \ {"idle"}, f \in Finds : GoesOn(p, l, f) /\ RequestSound(p)'
<1> USE DEF LinesTypeOK
<1>1. Reads /\ Goto(p, "record") /\ at[p] = "resolve" /\ ask[p].op = "inbound" /\ ask[p].line \in Lines
  BY DEF ResolveQueue, RequestSound, InboundSound
<1>2. PICK q \in Queues \cup {NoQueue} : found' = [found EXCEPT ![p].queue = q]
  BY DEF ResolveQueue, Serving, RightsTyped
<1> DEFINE f == [found[p] EXCEPT !.queue = q]
<1>3. f \in Finds /\ found' = [found EXCEPT ![p] = f]
  BY <1>2, RequestTyped DEF Finds
<1>4. GoesOn(p, "record", f) /\ "record" \in Steps \ {"idle"}
  BY <1>1, <1>3 DEF GoesOn, Goto, Steps
<1> HIDE DEF f
<1>5. at'[p] = "record" /\ ask'[p] = ask[p] /\ PastSound(p)'
  BY <1>1, <1>3, <1>4, WentOn DEF RequestSound
<1>6. CreateSound(p)' /\ TakeSound(p)' /\ InboundSound(p)' /\ LinkSound(p)'
  BY <1>1, <1>5 DEF CreateSound, TakeSound, InboundSound, LinkSound
<1> QED BY <1>1, <1>3, <1>4, <1>5, <1>6 DEF RequestSound

LEMMA ReadsOn ==
  ASSUME LinesTypeOK, PastTyped, NEW p \in Procs, RequestSound(p), Reading(p)
  PROVE  /\ Reads
         /\ \/ Finish(p)
            \/ \E l \in Steps \ {"idle"}, f \in Finds : GoesOn(p, l, f) /\ RequestSound(p)'
BY CreateReads, TakeReads, InboundReads DEF Reading

-----------------------------------------------------------------------------
(* What is written.  A number that has no chat on a line has an id left,   *)
(* since it has as many ids as there are lines and one chat on each.       *)
LEMMA RoomLeft ==
  ASSUME LinesTypeOK, OnePerLine, NEW l \in Lines, ChatsOn(l) = {}
  PROVE  (CHOOSE k \in Ids : k \in Unused) \in Unused /\ Unused \subseteq Ids /\ Unused # {}
<1>1. ASSUME Unused = {} PROVE FALSE
  <2> DEFINE f == [k \in Ids |-> chats[k].line]
             T == Lines \ {l}
  <2>1. \A k \in Ids : chats[k] # NoChat /\ chats[k].line \in T
    BY <1>1 DEF Unused, OnePerLine, ChatsOn
  <2>2. f \in [Ids -> T]
    BY <2>1
  <2>3. IsFiniteSet(T) /\ Cardinality(T) = Cardinality(Lines) - 1 /\ Cardinality(Lines) \in Nat
    BY LineConstants, FS_RemoveElement, FS_CardinalityType
  <2>4. IsFiniteSet(Ids) /\ Cardinality(Ids) = Cardinality(Lines)
    <3>1. Cardinality(Lines) \in Nat
      BY <2>3
    <3>2. IsFiniteSet(1..Cardinality(Lines)) /\ Cardinality(1..Cardinality(Lines)) = Cardinality(Lines)
      BY <3>1, FS_Interval
    <3> QED BY <3>2 DEF Ids
  <2>5. Cardinality(T) < Cardinality(Ids)
    BY <2>3, <2>4
  <2> HIDE DEF T
  <2>6. \E j, k \in Ids : j # k /\ f[j] = f[k]
    <3> HIDE DEF f
    <3> QED BY <2>2, <2>3, <2>4, <2>5, FS_PigeonHole
  <2> QED BY <2>1, <2>6 DEF OnePerLine
<1> QED BY <1>1 DEF Unused

RowsFollow(p) ==
  /\ chats' \in [Ids -> Rows] /\ OnePerLine'
  /\ \A k \in Ids \ Unused : /\ chats'[k] # NoChat
                             /\ chats'[k].queue # chats[k].queue => InFlight \ {p} \subseteq turned'

LEMMA RowWritten ==
  ASSUME LinesTypeOK, OnePerLine, NEW p \in Procs, NEW k \in Ids, NEW row \in Rows, row.line \in Lines,
         \A j \in Ids \ {k} : chats[j].line # row.line, chats' = [chats EXCEPT ![k] = row],
         k \notin Unused /\ row.queue # chats[k].queue => InFlight \ {p} \subseteq turned'
  PROVE  RowsFollow(p)
<1>1. chats' \in [Ids -> Rows] /\ chats'[k] = row /\ \A j \in Ids \ {k} : chats'[j] = chats[j]
  BY DEF LinesTypeOK
<1>2. row # NoChat
  BY LineConstants DEF NoChat
<1>3. OnePerLine'
  BY <1>1, <1>2 DEF OnePerLine
<1> QED BY <1>1, <1>2, <1>3 DEF RowsFollow, Unused

LEMMA RowsUntouched ==
  ASSUME LinesTypeOK, OnePerLine, NEW p \in Procs, chats' = chats
  PROVE  RowsFollow(p)
BY DEF RowsFollow, LinesTypeOK, OnePerLine, Unused

LEMMA UsedHasLine ==
  ASSUME OnePerLine, NEW k \in Ids \ Unused
  PROVE  chats[k] # NoChat /\ chats[k].line \in Lines
BY DEF OnePerLine, Unused

(* A turn is noticed by all others.                                        *)
LEMMA TurnNoticed ==
  ASSUME NEW p \in Procs, FinishTurning(p)
  PROVE  InFlight \ {p} \subseteq turned'
BY DEF FinishTurning

LEMMA CreateWrites ==
  ASSUME LinesTypeOK, OnePerLine, NEW p \in Procs, RequestSound(p), createOrReopenChat(p)
  PROVE  /\ RowsFollow(p) /\ (Finish(p) \/ FinishTurning(p)) /\ UNCHANGED <<rights, asked, changes>>
         /\ \/ UNCHANGED <<chats, stray>>
            \/ \E k \in Ids, row \in Rows :
                 /\ chats' = [chats EXCEPT ![k] = row] /\ stray' = stray \ {k}
                 /\ row.line = LineOf(p) /\ row.queue = found[p].queue /\ row.agent = ask[p].user
                 /\ found[p].queue \in Queues
<1> USE DEF LinesTypeOK
<1>0. /\ at[p] = "write" /\ ask[p].op = "create" /\ UNCHANGED <<rights, asked, changes>>
      /\ LineOf(p) \in Lines /\ found[p].queue \in Queues /\ ask[p].user \in Staff
  BY DEF createOrReopenChat, RequestSound, CreateSound
<1> DEFINE l == LineOf(p)
           q == found[p].queue
           new == ChatsOn(l) = {}
           k == CHOOSE k \in Ids : k \in IF new THEN Unused ELSE ChatsOn(l)
           row0 == IF new THEN createChatForConnection(l, q) ELSE reopenChatRecord(chats[k], q)
           row == [row0 EXCEPT !.agent = ask[p].user]
<1>1. CASE Refuse(p)
  BY <1>0, <1>1, RowsUntouched DEF Refuse
<1>2. CASE /\ chats' = [chats EXCEPT ![k] = row] /\ stray' = stray \ {k}
           /\ IF new \/ q = chats[k].queue THEN Finish(p) ELSE FinishTurning(p)
  <2>1. k \in Ids /\ (new => k \in Unused) /\ (~new => k \in ChatsOn(l) /\ k \notin Unused)
    <3>1. CASE new
      <4>1. k = CHOOSE j \in Ids : j \in Unused
        BY <3>1
      <4>2. l \in Lines /\ ChatsOn(l) = {}
        BY <1>0, <3>1
      <4> HIDE DEF k
      <4> QED BY <3>1, <4>1, <4>2, RoomLeft
    <3>2. CASE ~new
      <4>1. k = CHOOSE j \in Ids : j \in ChatsOn(l)
        BY <3>2
      <4>2. ChatsOn(l) \subseteq Ids /\ \E j \in Ids : j \in ChatsOn(l)
        BY <3>2 DEF ChatsOn
      <4>3. k \in ChatsOn(l)
        <5> HIDE DEF k, l
        <5> QED BY <4>1, <4>2
      <4>4. chats[k] # NoChat
        BY <1>0, <4>3, LineConstants DEF ChatsOn, NoChat
      <4> HIDE DEF k, l
      <4> QED BY <3>2, <4>2, <4>3, <4>4 DEF Unused
    <3> QED BY <3>1, <3>2
  <2>2. row0 \in Rows /\ row0.line = l /\ row0.queue = q
    <3>1. CASE new
      <4> HIDE DEF k, l, q
      <4>1. row0 = createChatForConnection(l, q)
        BY <3>1
      <4>2. l \in Lines /\ q \in Queues
        BY <1>0 DEF l, q
      <4> QED BY <4>1, <4>2, NothingsTyped DEF createChatForConnection, Rows
    <3>2. CASE ~new
      <4>1. row0 = reopenChatRecord(chats[k], q)
        BY <3>2
      <4>2. chats[k] \in Rows /\ chats[k].line = l /\ q \in Queues
        BY <1>0, <2>1, <3>2 DEF ChatsOn
      <4> HIDE DEF row0, k, l, q
      <4> QED BY <4>1, <4>2 DEF reopenChatRecord, Rows
    <3> QED BY <3>1, <3>2
  <2>3. row \in Rows /\ row.line = l /\ row.queue = q /\ row.agent = ask[p].user
    <3> HIDE DEF row0, l, q
    <3> QED BY <1>0, <2>2 DEF Rows
  <2>4. \A j \in Ids \ {k} : chats[j].line # l
    <3>1. CASE new
      BY <3>1 DEF ChatsOn
    <3>2. CASE ~new
      <4>1. chats[k].line = l /\ chats[k] # NoChat /\ k \in Ids
        BY <2>1, <3>2 DEF ChatsOn, Unused
      <4> HIDE DEF k, l
      <4> QED BY <4>1 DEF OnePerLine
    <3> QED BY <3>1, <3>2
  <2>5. k \notin Unused /\ q # chats[k].queue => InFlight \ {p} \subseteq turned'
    <3> HIDE DEF k, l, q
    <3> QED BY <1>2, <2>1, TurnNoticed
  <2>6. l \in Lines
    BY <1>0
  <2>7. chats' = [chats EXCEPT ![k] = row] /\ stray' = stray \ {k} /\ (Finish(p) \/ FinishTurning(p))
    BY <1>2
  <2>8. RowsFollow(p)
    <3> HIDE DEF k, l, q, row, row0
    <3> QED BY <2>1, <2>3, <2>4, <2>5, <2>6, <2>7, RowWritten
  <2>9. row.line = LineOf(p) /\ row.queue = found[p].queue
    BY <2>3
  <2> HIDE DEF k, row, l, q
  <2> QED BY <1>0, <2>1, <2>3, <2>7, <2>8, <2>9
<1>3. \/ Refuse(p)
      \/ /\ chats' = [chats EXCEPT ![k] = row] /\ stray' = stray \ {k}
         /\ IF new \/ q = chats[k].queue THEN Finish(p) ELSE FinishTurning(p)
  BY DEF createOrReopenChat
<1> QED BY <1>1, <1>2, <1>3

LEMMA TakeWrites ==
  ASSUME LinesTypeOK, OnePerLine, NEW p \in Procs, RequestSound(p), reassignChat(p)
  PROVE  /\ RowsFollow(p) /\ Finish(p) /\ UNCHANGED <<rights, asked, changes>>
         /\ \/ UNCHANGED <<chats, stray>>
            \/ \E row \in Rows :
                 /\ chats' = [chats EXCEPT ![ask[p].chat] = row] /\ row.agent = ask[p].to
                 /\ row.queue = chats[ask[p].chat].queue /\ stray \subseteq stray' /\ stray' \subseteq Ids
                 /\ row.line = chats[ask[p].chat].line \/ Serving(row.line) = {} \/ row.queue # NoQueue
                                                       \/ ask[p].chat \in stray'
<1> USE DEF LinesTypeOK
<1> DEFINE k == ask[p].chat
           moving == ask[p].op = "transfer" /\ TargetLine(p) # found[p].chat.line
           l == IF moving THEN TargetLine(p) ELSE chats[k].line
           row == [chats[k] EXCEPT !.line = l, !.status = "OPEN", !.agent = ask[p].to]
<1>0. /\ at[p] = "write" /\ ask[p].op \in {"take", "transfer"} /\ UNCHANGED <<rights, asked, changes>>
      /\ k \in Ids \ Unused /\ ask[p].to \in Staff
  BY DEF reassignChat, RequestSound, TakeSound
<1>1. chats[k] \in Rows /\ chats[k].line \in Lines /\ chats[k] # NoChat
  BY <1>0, UsedHasLine
<1>2. l \in Lines
  BY <1>1, AskFields DEF TargetLine
<1>3. CASE Refuse(p)
  BY <1>0, <1>3, RowsUntouched DEF Refuse
<1>4. CASE /\ ChatsOn(l) \ {k} = {} /\ Finish(p)
           /\ chats' = [chats EXCEPT ![k].line = l, ![k].status = "OPEN", ![k].agent = ask[p].to]
           /\ stray' = IF moving /\ chats[k].queue = NoQueue /\ Serving(l) # {} THEN stray \cup {k} ELSE stray
  <2>1. chats' = [chats EXCEPT ![k] = row]
    <3> HIDE DEF k, l
    <3> QED BY <1>4
  <2>2. row \in Rows /\ row.line = l /\ row.queue = chats[k].queue /\ row.agent = ask[p].to
    <3> HIDE DEF k, l
    <3> QED BY <1>0, <1>1, <1>2 DEF Rows
  <2>3. \A j \in Ids \ {k} : chats[j].line # row.line
    BY <1>4, <2>2 DEF ChatsOn
  <2>4. k \in Ids /\ stray \subseteq stray' /\ stray' \subseteq Ids
    BY <1>0, <1>4
  <2>5. row.line = chats[k].line \/ Serving(row.line) = {} \/ row.queue # NoQueue \/ k \in stray'
    BY <1>4, <2>2
  <2>6. RowsFollow(p)
    <3>1. row.line \in Lines
      BY <1>2, <2>2
    <3> HIDE DEF k, l, row
    <3> QED BY <2>1, <2>2, <2>3, <2>4, <3>1, RowWritten
  <2> HIDE DEF l, row, moving
  <2> QED BY <1>0, <1>4, <2>1, <2>2, <2>4, <2>5, <2>6
<1> QED BY <1>3, <1>4 DEF reassignChat


(* A chat that is not stray and not new is left without a queue only as it *)
(* was, and not by the request that would have given it one.               *)
OrphansFollow(p) ==
  \A k \in Ids \ (stray' \cup Unused') :
    chats'[k].queue = NoQueue /\ Serving(chats'[k].line) # {} =>
      /\ k \notin stray \cup Unused /\ chats[k].queue = NoQueue /\ chats'[k].line = chats[k].line
      /\ ~(at[p] = "adopt" /\ ask[p].line = chats[k].line)
      /\ ~(at[p] = "setQueue" /\ ask[p].chat = k)

LEMMA CreateFollows ==
  ASSUME LinesTypeOK, OnePerLine, NEW p \in Procs, RequestSound(p), createOrReopenChat(p)
  PROVE  OrphansFollow(p) /\ stray' \subseteq Ids
<1>0. at[p] = "write" /\ stray \subseteq Ids /\ chats \in [Ids -> Rows]
  BY DEF createOrReopenChat, LinesTypeOK
<1>1. CASE UNCHANGED <<chats, stray>>
  BY <1>0, <1>1 DEF OrphansFollow, Unused
<1>2. CASE \E k \in Ids, row \in Rows : /\ chats' = [chats EXCEPT ![k] = row] /\ stray' = stray \ {k}
                                        /\ row.queue \in Queues
  <2>1. PICK k \in Ids, row \in Rows : /\ chats' = [chats EXCEPT ![k] = row] /\ stray' = stray \ {k}
                                       /\ row.queue \in Queues
    BY <1>2
  <2>2. chats'[k].queue # NoQueue /\ \A j \in Ids \ {k} : chats'[j] = chats[j]
    BY <1>0, <2>1, LineConstants
  <2> QED BY <1>0, <2>1, <2>2 DEF OrphansFollow, Unused
<1> QED BY <1>1, <1>2, CreateWrites

LEMMA TakeFollows ==
  ASSUME LinesTypeOK, OnePerLine, NEW p \in Procs, RequestSound(p), reassignChat(p)
  PROVE  OrphansFollow(p) /\ stray' \subseteq Ids
<1>0. /\ at[p] = "write" /\ stray \subseteq Ids /\ chats \in [Ids -> Rows] /\ ask[p].chat \in Ids \ Unused
  BY DEF reassignChat, LinesTypeOK, RequestSound, TakeSound
<1>1. CASE UNCHANGED <<chats, stray>>
  BY <1>0, <1>1 DEF OrphansFollow, Unused
<1>2. CASE ~UNCHANGED <<chats, stray>>
  <2>1. PICK row \in Rows :
          /\ chats' = [chats EXCEPT ![ask[p].chat] = row]
          /\ row.queue = chats[ask[p].chat].queue /\ stray \subseteq stray' /\ stray' \subseteq Ids
          /\ row.line = chats[ask[p].chat].line \/ Serving(row.line) = {} \/ row.queue # NoQueue
                                                \/ ask[p].chat \in stray'
    BY <1>2, TakeWrites
  <2>2. chats'[ask[p].chat] = row /\ \A j \in Ids \ {ask[p].chat} : chats'[j] = chats[j]
    BY <1>0, <2>1
  <2> QED BY <1>0, <2>1, <2>2 DEF OrphansFollow, Unused
<1> QED BY <1>1, <1>2

(* A message writes the chat of its line, or makes it.                     *)
LEMMA InboundWrites ==
  ASSUME LinesTypeOK, OnePerLine, NEW p \in Procs, RequestSound(p), RecordInbound(p)
  PROVE  /\ RowsFollow(p) /\ stray' \subseteq Ids /\ UNCHANGED <<rights, asked, changes>>
         /\ \A j \in Ids : chats'[j].agent \in {NoAgent, chats[j].agent}
         /\ \/ (Finish(p) \/ FinishTurning(p)) /\ OrphansFollow(p)
            \/ \E k \in Ids \ Unused :
                 /\ at' = [at EXCEPT ![p] = "setQueue"] /\ ask' = [ask EXCEPT ![p].chat = k]
                 /\ UNCHANGED <<found, had, turned, stray>> /\ found[p].queue \in Queues
                 /\ Unused' = Unused
                 /\ \A j \in Ids : chats'[j].queue = chats[j].queue /\ chats'[j].line = chats[j].line
<1> USE DEF LinesTypeOK
<1> DEFINE l == ask[p].line
           q == found[p].queue
           new == ChatsOn(l) = {}
<1>0. at[p] = "record" /\ UNCHANGED <<rights, asked, changes>> /\ l \in Lines /\ q \in Queues \cup {NoQueue}
  BY AskFields DEF RecordInbound, RequestSound, InboundSound
<1>1. PICK k \in IF new THEN {CHOOSE k \in Unused : TRUE} ELSE ChatsOn(l) :
        LET upsert == new \/ chats[k].status = "UNASSIGNED"
            queue == IF upsert /\ q # NoQueue THEN q ELSE chats[k].queue IN
        /\ chats' = [chats EXCEPT ![k] =
                       [line |-> l, queue |-> queue,
                        status |-> IF ~new /\ @.status = "OPEN" THEN "OPEN" ELSE "UNASSIGNED",
                        agent |-> IF ~new /\ @.status = "OPEN" THEN @.agent ELSE NoAgent]]
        /\ IF ~upsert /\ queue = NoQueue /\ q # NoQueue
           THEN /\ at' = [at EXCEPT ![p] = "setQueue"]
                /\ ask' = [ask EXCEPT ![p].chat = k]
                /\ UNCHANGED <<found, had, turned, stray>>
           ELSE /\ IF new \/ queue = chats[k].queue THEN Finish(p) ELSE FinishTurning(p)
                /\ stray' = IF queue = NoQueue /\ Serving(l) # {} THEN stray \cup {k} ELSE stray
  BY Zenon DEF RecordInbound
<1> DEFINE upsert == new \/ chats[k].status = "UNASSIGNED"
           queue == IF upsert /\ q # NoQueue THEN q ELSE chats[k].queue
           row == [line |-> l, queue |-> queue,
                   status |-> IF ~new /\ chats[k].status = "OPEN" THEN "OPEN" ELSE "UNASSIGNED",
                   agent |-> IF ~new /\ chats[k].status = "OPEN" THEN chats[k].agent ELSE NoAgent]
           waits == ~upsert /\ queue = NoQueue /\ q # NoQueue
<1>2. k \in Ids /\ (new => k \in Unused) /\ (~new => k \notin Unused /\ chats[k].line = l)
  <2>1. CASE new
    <3>1. k = CHOOSE j \in Unused : TRUE
      BY <1>1, <2>1
    <3>2. Unused \subseteq Ids /\ Unused # {}
      BY <1>0, <2>1, RoomLeft
    <3>3. k \in Unused
      BY <3>1, <3>2
    <3> HIDE DEF new
    <3> QED BY <2>1, <3>2, <3>3
  <2>2. CASE ~new
    <3>1. k \in Ids /\ chats[k].line = l
      BY <1>1, <2>2 DEF ChatsOn
    <3>2. chats[k] # NoChat
      BY <1>0, <3>1, LineConstants DEF NoChat
    <3> HIDE DEF new
    <3> QED BY <2>2, <3>1, <3>2 DEF Unused
  <2> QED BY <2>1, <2>2
<1>3. chats' = [chats EXCEPT ![k] = row]
  BY <1>1, <1>2
<1>4. /\ waits => /\ at' = [at EXCEPT ![p] = "setQueue"] /\ ask' = [ask EXCEPT ![p].chat = k]
                  /\ UNCHANGED <<found, had, turned, stray>>
      /\ ~waits => /\ IF new \/ queue = chats[k].queue THEN Finish(p) ELSE FinishTurning(p)
                   /\ stray' = IF queue = NoQueue /\ Serving(l) # {} THEN stray \cup {k} ELSE stray
  BY <1>1
<1>5. chats[k] \in Rows
  BY <1>2
<1>6. queue \in Queues \cup {NoQueue} /\ (waits => ~new /\ chats[k].queue = NoQueue /\ q \in Queues)
  <2>1. chats[k].queue \in Queues \cup {NoQueue}
    BY <1>5 DEF Rows
  <2> HIDE DEF new, q
  <2> QED BY <1>0, <2>1
<1>7. row \in Rows /\ row.line = l /\ row.queue = queue /\ row.agent \in {NoAgent, chats[k].agent}
  <2>1. chats[k].agent \in Staff \cup {NoAgent}
    BY <1>5 DEF Rows
  <2> HIDE DEF new, queue, l, q
  <2> QED BY <1>0, <1>6, <2>1 DEF Rows
<1>8. \A j \in Ids \ {k} : chats[j].line # l
  <2>1. CASE new
    BY <2>1 DEF ChatsOn
  <2>2. CASE ~new
    <3>1. chats[k].line = l /\ chats[k] # NoChat /\ k \in Ids
      BY <1>2, <2>2 DEF Unused
    <3> HIDE DEF l
    <3> QED BY <3>1 DEF OnePerLine
  <2> QED BY <2>1, <2>2
<1> HIDE DEF new, queue, l, q, row, waits
<1>9. k \notin Unused /\ row.queue # chats[k].queue => InFlight \ {p} \subseteq turned'
  <2>1. CASE waits
    BY <1>6, <1>7, <2>1 DEF waits
  <2>2. CASE ~waits
    BY <1>2, <1>4, <1>7, <2>2, TurnNoticed
  <2> QED BY <2>1, <2>2
<1>10. RowsFollow(p)
  BY <1>0, <1>2, <1>3, <1>7, <1>8, <1>9, RowWritten
<1>11. chats'[k] = row /\ \A j \in Ids \ {k} : chats'[j] = chats[j]
  BY <1>2, <1>3
<1>14. \A j \in Ids : chats'[j].agent \in {NoAgent, chats[j].agent}
  BY <1>7, <1>11
<1>12. CASE waits
  <2>1. k \in Ids \ Unused /\ chats[k].line = l /\ row.queue = chats[k].queue
    BY <1>2, <1>6, <1>7, <1>12 DEF waits
  <2>2. \A j \in Ids : chats'[j].queue = chats[j].queue /\ chats'[j].line = chats[j].line
    BY <1>7, <1>11, <2>1
  <2>3. row # NoChat
    BY <1>0, <1>7, LineConstants DEF NoChat
  <2>4. Unused' = Unused
    BY <1>11, <2>1, <2>3 DEF Unused
  <2>5. found[p].queue \in Queues
    BY <1>6, <1>12 DEF q
  <2>6. stray' \subseteq Ids
    BY <1>4, <1>12
  <2> QED BY <1>0, <1>4, <1>10, <1>14, <1>12, <2>1, <2>2, <2>4, <2>5, <2>6
<1>13. CASE ~waits
  <2>1. Finish(p) \/ FinishTurning(p)
    BY <1>4, <1>13
  <2>2. stray' = IF queue = NoQueue /\ Serving(l) # {} THEN stray \cup {k} ELSE stray
    BY <1>4, <1>13
  <2>3. \A j \in Ids \ {k} : j \notin Unused' <=> j \notin Unused
    BY <1>11 DEF Unused
  <2>4. OrphansFollow(p)
    BY <1>0, <1>7, <1>11, <2>2, <2>3 DEF OrphansFollow
  <2> QED BY <1>0, <1>2, <1>10, <1>14, <2>1, <2>2, <2>4
<1> QED BY <1>12, <1>13

LEMMA QueueWrites ==
  ASSUME LinesTypeOK, OnePerLine, NEW p \in Procs, RequestSound(p), SetChatQueue(p)
  PROVE  /\ RowsFollow(p) /\ stray' \subseteq Ids /\ UNCHANGED <<rights, asked, changes>>
         /\ FinishTurning(p) /\ OrphansFollow(p)
<1> USE DEF LinesTypeOK
<1> DEFINE k == ask[p].chat
           row == [chats[k] EXCEPT !.queue = found[p].queue]
<1>0. /\ at[p] = "setQueue" /\ UNCHANGED <<rights, asked, changes>> /\ FinishTurning(p)
      /\ stray' = stray \ {k} /\ k \in Ids \ Unused /\ found[p].queue \in Queues
  BY DEF SetChatQueue, RequestSound, InboundSound
<1>1. chats[k] \in Rows /\ chats[k].line \in Lines /\ chats[k] # NoChat
  BY <1>0, UsedHasLine
<1>2. chats' = [chats EXCEPT ![k] = row]
  BY DEF SetChatQueue
<1>3. row \in Rows /\ row.line = chats[k].line /\ row.queue \in Queues
  <2> HIDE DEF k
  <2> QED BY <1>0, <1>1 DEF Rows
<1>4. \A j \in Ids \ {k} : chats[j].line # row.line
  <2> HIDE DEF k, row
  <2> QED BY <1>0, <1>1, <1>3 DEF OnePerLine
<1>5. chats'[k] = row /\ \A j \in Ids \ {k} : chats'[j] = chats[j]
  BY <1>0, <1>2
<1>6. RowsFollow(p)
  <2>1. InFlight \ {p} \subseteq turned'
    BY <1>0, TurnNoticed
  <2> HIDE DEF k, row
  <2> QED BY <1>0, <1>1, <1>2, <1>3, <1>4, <2>1, RowWritten
<1>7. OrphansFollow(p)
  <2>1. row.queue # NoQueue
    BY <1>3, LineConstants
  <2> HIDE DEF row
  <2> QED BY <1>0, <1>5, <2>1 DEF OrphansFollow, Unused
<1> HIDE DEF row
<1> QED BY <1>0, <1>6, <1>7

(* The migration writes every chat of the line that has no queue, or fails. *)
LEMMA MigrationWrites ==
  ASSUME LinesTypeOK, OnePerLine, NEW p \in Procs, RequestSound(p), setQueueForSessionMissingQueue(p)
  PROVE  /\ RowsFollow(p) /\ stray' \subseteq Ids /\ UNCHANGED <<rights, asked, changes>>
         /\ (Finish(p) \/ FinishTurning(p)) /\ OrphansFollow(p)
<1> USE DEF LinesTypeOK
<1> DEFINE q == ask[p].queue
           l == ask[p].line
           none == {k \in Ids : Orphan(k, l)}
<1>0. at[p] = "adopt" /\ UNCHANGED <<rights, asked, changes>> /\ l \in Lines /\ q \in Queues
  BY DEF setQueueForSessionMissingQueue, RequestSound, LinkSound
<1>1. CASE /\ chats' = [k \in Ids |-> IF k \in none THEN [chats[k] EXCEPT !.queue = q] ELSE chats[k]]
           /\ stray' = stray \ none
           /\ IF none = {} THEN Finish(p) ELSE FinishTurning(p)
  <2>1. \A k \in none : k \in Ids /\ chats[k].line = l /\ chats[k].queue = NoQueue /\ chats[k] # NoChat
    BY <1>0, LineConstants DEF Orphan, NoChat
  <2>2. \A k \in Ids \ none : chats'[k] = chats[k]
    BY <1>1
  <2>3. \A k \in none : /\ chats'[k] \in Rows /\ chats'[k].line = l /\ chats'[k].queue = q
                        /\ chats'[k] # NoChat
    <3> SUFFICES ASSUME NEW k \in none
                 PROVE  /\ chats'[k] \in Rows /\ chats'[k].line = l /\ chats'[k].queue = q
                        /\ chats'[k] # NoChat
      OBVIOUS
    <3>1. chats'[k] = [chats[k] EXCEPT !.queue = q] /\ chats[k] \in Rows /\ chats[k].line = l
      BY <1>1, <2>1
    <3> HIDE DEF l, q, none
    <3>2. chats'[k] \in Rows /\ chats'[k].line = l /\ chats'[k].queue = q
      BY <1>0, <3>1 DEF Rows
    <3> QED BY <1>0, <3>2, LineConstants DEF NoChat
  <2>4. chats' \in [Ids -> Rows]
    <3>1. \A k \in Ids : chats'[k] \in Rows
      BY <2>2, <2>3
    <3>2. chats' = [k \in Ids |-> chats'[k]]
      BY <1>1
    <3> HIDE DEF none
    <3> QED BY <3>1, <3>2
  <2> HIDE DEF none, l, q
  <2>5. OnePerLine'
    <3>1. \A k \in Ids : chats'[k].line = chats[k].line /\ (chats'[k] = NoChat <=> chats[k] = NoChat)
      BY <2>1, <2>2, <2>3
    <3>2. \A k \in Ids : chats'[k] = NoChat \/ chats'[k].line \in Lines
      BY <3>1 DEF OnePerLine
    <3>3. \A j, k \in Ids : chats'[j] # NoChat /\ chats'[j].line = chats'[k].line => j = k
      BY <3>1 DEF OnePerLine
    <3> QED BY <3>2, <3>3 DEF OnePerLine
  <2>6. none # {} => InFlight \ {p} \subseteq turned'
    BY <1>1, TurnNoticed
  <2>7. \A k \in Ids \ Unused : /\ chats'[k] # NoChat
                                /\ chats'[k].queue # chats[k].queue => InFlight \ {p} \subseteq turned'
    BY <2>2, <2>3, <2>6 DEF Unused
  <2>8. RowsFollow(p)
    BY <2>4, <2>5, <2>7 DEF RowsFollow
  <2>9. \A k \in Ids \ none : ~(chats[k].line = l /\ chats[k].queue = NoQueue)
    BY DEF none, Orphan
  <2>10. \A k \in none : chats'[k].queue # NoQueue
    BY <1>0, <2>3, LineConstants
  <2>11. OrphansFollow(p)
    <3> SUFFICES ASSUME NEW k \in Ids \ (stray' \cup Unused'), chats'[k].queue = NoQueue
                 PROVE  /\ k \notin stray \cup Unused /\ chats[k].queue = NoQueue
                        /\ chats'[k].line = chats[k].line /\ ask[p].line # chats[k].line
      BY <1>0 DEF OrphansFollow
    <3>1. k \notin none /\ chats'[k] = chats[k]
      BY <2>2, <2>10
    <3>2. k \notin stray /\ k \notin Unused
      BY <1>1, <3>1 DEF Unused
    <3>3. ask[p].line # chats[k].line
      BY <2>9, <3>1 DEF l
    <3> QED BY <3>1, <3>2, <3>3
  <2> QED BY <1>0, <1>1, <2>8, <2>11
<1>2. CASE stray' = stray \cup none /\ UNCHANGED chats /\ Finish(p)
  <2>1. stray' \subseteq Ids
    BY <1>2
  <2>2. \A k \in Ids \ stray' : ~(chats[k].line = l /\ chats[k].queue = NoQueue)
    BY <1>2 DEF Orphan
  <2>3. OrphansFollow(p)
    BY <1>0, <1>2, <2>2 DEF OrphansFollow, Unused
  <2> QED BY <1>0, <1>2, <2>1, <2>3, RowsUntouched
<1>3. \/ /\ chats' = [k \in Ids |-> IF k \in none THEN [chats[k] EXCEPT !.queue = q] ELSE chats[k]]
         /\ stray' = stray \ none
         /\ IF none = {} THEN Finish(p) ELSE FinishTurning(p)
      \/ stray' = stray \cup none /\ UNCHANGED chats /\ Finish(p)
  BY DEF setQueueForSessionMissingQueue
<1> QED BY <1>1, <1>2, <1>3

-----------------------------------------------------------------------------
(* The other requests carry on: nothing is written that they go by, unless *)
(* they see a chat turn.                                                   *)
CarriesOn(d) ==
  /\ at'[d] = at[d] /\ ask'[d] = ask[d] /\ found'[d] = found[d]
  /\ had[d].linked \subseteq had'[d].linked /\ had[d].member \subseteq had'[d].member
  /\ d \in turned => d \in turned'
  /\ at[d] = "idle" => d \notin turned'
  /\ at[d] # "idle" => linked' \subseteq had'[d].linked /\ member' \subseteq had'[d].member
  /\ \A k \in Ids \ Unused :
       /\ chats'[k] # NoChat
       /\ at[d] # "idle" /\ chats'[k].queue # chats[k].queue => d \in turned'

LEMMA CarriedOn ==
  ASSUME NEW d \in Procs, RequestSound(d), CarriesOn(d)
  PROVE  RequestSound(d)'
<1>1. /\ at'[d] = at[d] /\ ask'[d] = ask[d] /\ found'[d] = found[d] /\ LineOf(d)' = LineOf(d)
      /\ had[d].linked \subseteq had'[d].linked /\ had[d].member \subseteq had'[d].member
  BY DEF CarriesOn, LineOf
<1>2. Ids \ Unused \subseteq Ids \ Unused'
  BY DEF CarriesOn, Unused
<1>3. CreateSound(d)'
  BY <1>1 DEF RequestSound, CreateSound
<1>4. TakeSound(d)'
  <2>1. ASSUME ask[d].op \in {"take", "transfer"}, at[d] # "read", d \notin turned'
        PROVE  chats'[ask[d].chat].queue = found[d].chat.queue
    <3>1. ask[d].chat \in Ids \ Unused /\ chats[ask[d].chat].queue = found[d].chat.queue /\ at[d] # "idle"
      BY <2>1 DEF RequestSound, TakeSound, PastSound, CarriesOn, NoRequest
    <3> QED BY <2>1, <3>1 DEF CarriesOn
  <2> QED BY <1>1, <1>2, <2>1 DEF RequestSound, TakeSound
<1>5. InboundSound(d)' /\ LinkSound(d)'
  BY <1>1, <1>2 DEF RequestSound, InboundSound, LinkSound
<1>6. PastSound(d)'
  BY <1>1 DEF RequestSound, PastSound, CarriesOn
<1> QED BY <1>3, <1>4, <1>5, <1>6 DEF RequestSound

(* A request that ends leaves the others as they are.                      *)
LEMMA EndsForOthers ==
  ASSUME LinesTypeOK, NEW p \in Procs, Finish(p) \/ FinishTurning(p), RowsFollow(p), UNCHANGED rights,
         \A d \in Procs : RequestSound(d)
  PROVE  RequestsTyped' /\ \A d \in Procs : RequestSound(d)'
<1>1. RequestsTyped' /\ p \notin turned' /\ turned \ {p} \subseteq turned' /\ End(p)
  BY Finished DEF LinesTypeOK
<1>2. RequestSound(p)'
  BY <1>1, EndsSound DEF LinesTypeOK
<1>3. ASSUME NEW d \in Procs, d # p PROVE RequestSound(d)'
  <2>1. at'[d] = at[d] /\ ask'[d] = ask[d] /\ found'[d] = found[d] /\ had'[d] = had[d]
    BY <1>1, <1>3, Ended DEF LinesTypeOK
  <2>2. at[d] = "idle" => d \notin turned'
    BY <1>3 DEF Finish, FinishTurning, InFlight, RequestSound, PastSound
  <2>3. at[d] # "idle" => d \in InFlight \ {p}
    BY <1>3 DEF InFlight
  <2>4. CarriesOn(d)
    BY <1>1, <1>3, <2>1, <2>2, <2>3 DEF CarriesOn, RowsFollow, rights, RequestSound, PastSound
  <2> QED BY <2>4, CarriedOn
<1> QED BY <1>1, <1>2, <1>3

(* ... and what waits for another request still waits.                     *)
LEMMA StillAwaited ==
  ASSUME NEW p \in Procs, OrphansAwaited, OrphansFollow(p), UNCHANGED rights,
         \A d \in Procs : d # p => at'[d] = at[d] /\ ask'[d] = ask[d]
  PROVE  OrphansAwaited'
<1> SUFFICES ASSUME NEW k \in Ids \ (stray' \cup Unused'), chats'[k].queue = NoQueue,
                    Serving(chats[k].line)' # {}
             PROVE  Awaited(k)'
  BY DEF OrphansAwaited, Awaited, Serving
<1>1. Serving(chats'[k].line) # {}
  BY DEF Serving, rights
<1>2. /\ k \in Ids \ (stray \cup Unused) /\ chats[k].queue = NoQueue /\ chats'[k].line = chats[k].line
      /\ ~(at[p] = "adopt" /\ ask[p].line = chats[k].line)
      /\ ~(at[p] = "setQueue" /\ ask[p].chat = k)
  BY <1>1 DEF OrphansFollow
<1>3. PICK d \in Procs : \/ at[d] = "adopt" /\ ask[d].line = chats[k].line
                         \/ at[d] = "setQueue" /\ ask[d].chat = k
  BY <1>1, <1>2 DEF OrphansAwaited, Awaited
<1>4. at'[d] = at[d] /\ ask'[d] = ask[d]
  BY <1>2, <1>3
<1> QED BY <1>2, <1>3, <1>4 DEF Awaited

(* So a request that writes and ends keeps the whole invariant.            *)
LEMMA EndsKeep ==
  ASSUME LinesInv, NEW p \in Procs, Finish(p) \/ FinishTurning(p), RowsFollow(p), OrphansFollow(p),
         stray' \subseteq Ids, UNCHANGED <<rights, asked, changes>>
  PROVE  LinesInv'
<1>1. RequestsTyped' /\ \A d \in Procs : RequestSound(d)'
  BY EndsForOthers DEF LinesInv
<1>2. LinesTypeOK' /\ OnePerLine'
  BY <1>1 DEF LinesInv, LinesTypeOK, RightsTyped, rights, RowsFollow
<1>3. \A d \in Procs : d # p => at'[d] = at[d] /\ ask'[d] = ask[d]
  BY Finished, Ended DEF LinesInv, LinesTypeOK
<1>4. OrphansAwaited'
  BY <1>3, StillAwaited DEF LinesInv
<1> QED BY <1>1, <1>2, <1>4 DEF LinesInv

LEMMA WritesKeep ==
  ASSUME LinesInv, NEW p \in Procs,
         \/ createOrReopenChat(p) \/ reassignChat(p) \/ SetChatQueue(p)
         \/ setQueueForSessionMissingQueue(p)
  PROVE  LinesInv'
<1>0. LinesTypeOK /\ OnePerLine /\ RequestSound(p)
  BY DEF LinesInv
<1>1. CASE createOrReopenChat(p)
  BY <1>0, <1>1, CreateWrites, CreateFollows, EndsKeep
<1>2. CASE reassignChat(p)
  BY <1>0, <1>2, TakeWrites, TakeFollows, EndsKeep
<1>3. CASE SetChatQueue(p)
  BY <1>0, <1>3, QueueWrites, EndsKeep
<1>4. CASE setQueueForSessionMissingQueue(p)
  BY <1>0, <1>4, MigrationWrites, EndsKeep
<1> QED BY <1>1, <1>2, <1>3, <1>4

LEMMA InboundKeeps ==
  ASSUME LinesInv, NEW p \in Procs, RecordInbound(p)
  PROVE  LinesInv'
<1>0. LinesTypeOK /\ OnePerLine /\ RequestSound(p)
  BY DEF LinesInv
<1>1. RowsFollow(p) /\ stray' \subseteq Ids /\ UNCHANGED <<rights, asked, changes>>
  BY <1>0, InboundWrites
<1>2. CASE (Finish(p) \/ FinishTurning(p)) /\ OrphansFollow(p)
  BY <1>1, <1>2, EndsKeep
<1>3. CASE ~((Finish(p) \/ FinishTurning(p)) /\ OrphansFollow(p))
  <2>1. PICK k \in Ids \ Unused :
          /\ at' = [at EXCEPT ![p] = "setQueue"] /\ ask' = [ask EXCEPT ![p].chat = k]
          /\ UNCHANGED <<found, had, turned, stray>> /\ found[p].queue \in Queues /\ Unused' = Unused
          /\ \A j \in Ids : chats'[j].queue = chats[j].queue /\ chats'[j].line = chats[j].line
    BY <1>0, <1>3, InboundWrites
  <2>2. at[p] = "record" /\ ask[p].op = "inbound" /\ ask[p].line \in Lines
    BY <1>0 DEF RecordInbound, RequestSound, InboundSound
  <2> DEFINE r == [ask[p] EXCEPT !.chat = k]
  <2>3. r \in Asks /\ r.op = "inbound" /\ r.line = ask[p].line /\ r.chat = k
    BY <1>0, <2>2, RequestTyped DEF LinesTypeOK, Asks
  <2>4. ask' = [ask EXCEPT ![p] = r]
    BY <2>1
  <2> HIDE DEF r
  <2>5. /\ at'[p] = "setQueue" /\ ask'[p] = r
        /\ \A d \in Procs : d # p => at'[d] = at[d] /\ ask'[d] = ask[d]
        /\ RequestsTyped'
    BY <1>0, <2>1, <2>3, <2>4 DEF LinesTypeOK, RequestsTyped, Steps
  <2>6. LinesTypeOK' /\ OnePerLine'
    BY <1>0, <1>1, <2>5 DEF LinesTypeOK, RightsTyped, rights, RowsFollow
  <2>7. RequestSound(p)'
    <3>1. CreateSound(p)' /\ TakeSound(p)' /\ LinkSound(p)'
      BY <2>3, <2>5 DEF CreateSound, TakeSound, LinkSound
    <3>2. InboundSound(p)'
      BY <2>1, <2>2, <2>3, <2>5 DEF InboundSound
    <3>3. PastSound(p)'
      BY <1>0, <1>1, <2>1, <2>2, <2>5 DEF RequestSound, PastSound, rights
    <3> QED BY <3>1, <3>2, <3>3 DEF RequestSound
  <2>8. ASSUME NEW d \in Procs, d # p PROVE RequestSound(d)'
    <3>1. RequestSound(d) /\ \A j \in Ids \ Unused : chats'[j] # NoChat
      BY <2>1 DEF LinesInv, Unused
    <3>2. CarriesOn(d)
      BY <1>1, <2>1, <2>5, <2>8, <3>1 DEF CarriesOn, RequestSound, PastSound, rights
    <3> QED BY <3>1, <3>2, CarriedOn
  <2>9. OrphansAwaited'
    <3> SUFFICES ASSUME NEW j \in Ids \ (stray' \cup Unused'), chats'[j].queue = NoQueue,
                        Serving(chats[j].line)' # {}
                 PROVE  Awaited(j)'
      BY DEF OrphansAwaited, Awaited, Serving
    <3>1. /\ j \in Ids \ (stray \cup Unused) /\ chats[j].queue = NoQueue /\ chats'[j].line = chats[j].line
          /\ Serving(chats[j].line) # {}
      BY <1>1, <2>1 DEF Serving, rights
    <3>2. PICK d \in Procs : \/ at[d] = "adopt" /\ ask[d].line = chats[j].line
                             \/ at[d] = "setQueue" /\ ask[d].chat = j
      BY <3>1 DEF LinesInv, OrphansAwaited, Awaited
    <3>3. at'[d] = at[d] /\ ask'[d] = ask[d]
      BY <2>2, <2>5, <3>2
    <3> QED BY <3>1, <3>2, <3>3 DEF Awaited
  <2>10. \A d \in Procs : RequestSound(d)'
    BY <2>7, <2>8
  <2> QED BY <2>6, <2>9, <2>10 DEF LinesInv
<1> QED BY <1>2, <1>3

(* Nothing is written while requests begin and read.                       *)
LEMMA QuietKeepsOrphans ==
  ASSUME OrphansAwaited, UNCHANGED <<rights, chats, stray>>, NEW p \in Procs,
         at[p] \notin {"adopt", "setQueue"},
         \A d \in Procs : d # p => at'[d] = at[d] /\ ask'[d] = ask[d]
  PROVE  OrphansAwaited'
<1>1. OrphansFollow(p)
  BY DEF OrphansFollow, Unused
<1> QED BY <1>1, StillAwaited

LEMMA StartKeeps ==
  ASSUME LinesInv, NEW p \in Procs, StartsSomething(p)
  PROVE  LinesInv'
<1>0. LinesTypeOK /\ OnePerLine /\ OrphansAwaited /\ PastSound(p)
  BY DEF LinesInv, RequestSound
<1>1. PICK r \in Asks, first \in Steps :
        /\ Start(p, r, first)
        /\ \/ /\ r.op = "create" /\ r.user \in Staff
              /\ first = IF r.line = NoLine THEN "list" ELSE "allowed"
           \/ r.op = "take" /\ first = "read" /\ r.chat \in Ids \ Unused /\ r.to \in Staff /\ r.to = r.user
           \/ r.op = "transfer" /\ first = "read" /\ r.chat \in Ids \ Unused /\ r.to \in Agents
           \/ r.op = "inbound" /\ first = "resolve" /\ r.line \in Lines
           \/ r.op = "link" /\ first = "link" /\ r.line \in Lines /\ r.queue \in Queues
  BY <1>0, Beginnings
<1>2. /\ at[p] = "idle" /\ at'[p] = first /\ ask'[p] = r
      /\ had'[p] = [linked |-> linked, member |-> member]
      /\ \A d \in Procs : d # p => at'[d] = at[d] /\ ask'[d] = ask[d] /\ had'[d] = had[d]
      /\ UNCHANGED <<rights, chats, found, turned, stray, changes>>
      /\ LinesTypeOK'
  BY <1>0, <1>1, Started
<1>3. Unused' = Unused /\ p \notin turned
  BY <1>0, <1>2 DEF Unused, PastSound
<1>4. RequestSound(p)'
  <2>1. CreateSound(p)'
    <3>1. r.op = "create" => r.user \in Staff /\ (first = "allowed" => r.line \in Lines /\ r.line # NoLine)
      BY <1>0, <1>1, LineConstants DEF Asks
    <3>2. LineOf(p)' = IF r.line = NoLine THEN found[p].line ELSE r.line
      BY <1>2 DEF LineOf
    <3> QED BY <1>1, <1>2, <3>1, <3>2 DEF CreateSound
  <2>2. TakeSound(p)'
    BY <1>1, <1>2, <1>3, LineConstants DEF TakeSound
  <2>3. InboundSound(p)' /\ LinkSound(p)'
    BY <1>1, <1>2 DEF InboundSound, LinkSound
  <2>4. PastSound(p)'
    BY <1>1, <1>2, <1>3 DEF PastSound, rights
  <2> QED BY <2>1, <2>2, <2>3, <2>4 DEF RequestSound
<1>5. ASSUME NEW d \in Procs, d # p PROVE RequestSound(d)'
  <2>1. RequestSound(d)
    BY DEF LinesInv
  <2>2. CarriesOn(d)
    BY <1>2, <1>5, <2>1 DEF CarriesOn, RequestSound, PastSound, rights, Unused
  <2> QED BY <2>1, <2>2, CarriedOn
<1>6. OrphansAwaited'
  BY <1>0, <1>2, QuietKeepsOrphans
<1>7. OnePerLine'
  BY <1>0, <1>2 DEF OnePerLine
<1>8. \A d \in Procs : RequestSound(d)'
  BY <1>4, <1>5
<1> QED BY <1>2, <1>6, <1>7, <1>8 DEF LinesInv

LEMMA ReadKeeps ==
  ASSUME LinesInv, PastTyped, NEW p \in Procs, Reading(p)
  PROVE  LinesInv'
<1>0. LinesTypeOK /\ OnePerLine /\ OrphansAwaited /\ RequestSound(p)
  BY DEF LinesInv
<1>1. Reads /\ at[p] \notin {"adopt", "setQueue"}
  BY <1>0, ReadsOn DEF Reading, ListConnections, ScoreConnections, ConnectionAllowed, ChooseQueue,
                       ReadChat, CheckQueue, CheckConflict, ResolveQueue
<1>2. UNCHANGED <<rights, chats, stray, asked, changes>>
  BY <1>1 DEF Reads
<1>3. CASE Finish(p)
  <2>1. OrphansFollow(p)
    BY <1>1, <1>2 DEF OrphansFollow, Unused
  <2>2. RowsFollow(p) /\ stray' \subseteq Ids
    BY <1>0, <1>2, RowsUntouched DEF LinesTypeOK
  <2> QED BY <1>2, <1>3, <2>1, <2>2, EndsKeep
<1>4. CASE ~Finish(p)
  <2>1. PICK l \in Steps \ {"idle"}, f \in Finds : GoesOn(p, l, f) /\ RequestSound(p)'
    BY <1>0, <1>4, ReadsOn
  <2>2. /\ RequestsTyped' /\ turned' \in {turned, turned \cup {p}}
        /\ \A d \in Procs : d # p => /\ at'[d] = at[d] /\ ask'[d] = ask[d] /\ had'[d] = had[d]
                                     /\ found'[d] = found[d]
    <3>1. /\ at' = [at EXCEPT ![p] = l] /\ found' = [found EXCEPT ![p] = f] /\ UNCHANGED <<ask, had>>
          /\ turned' \in {turned, turned \cup {p}}
      BY <2>1 DEF GoesOn
    <3> QED BY <1>0, <3>1 DEF LinesTypeOK, RequestsTyped
  <2>3. LinesTypeOK' /\ OnePerLine'
    BY <1>0, <1>2, <2>2 DEF LinesTypeOK, RightsTyped, rights, OnePerLine
  <2>4. ASSUME NEW d \in Procs, d # p PROVE RequestSound(d)'
    <3>1. RequestSound(d)
      BY DEF LinesInv
    <3>2. CarriesOn(d)
      BY <1>2, <2>2, <2>4, <3>1 DEF CarriesOn, RequestSound, PastSound, rights, Unused
    <3> QED BY <3>1, <3>2, CarriedOn
  <2>5. OrphansAwaited'
    BY <1>0, <1>1, <1>2, <2>2, QuietKeepsOrphans
  <2>6. \A d \in Procs : RequestSound(d)'
    BY <2>1, <2>4
  <2> QED BY <2>3, <2>5, <2>6 DEF LinesInv
<1> QED BY <1>3, <1>4

(* What is linked and joined is seen by the requests under way.            *)
LEMMA Remembered ==
  ASSUME RequestsTyped, NEW more \in Pasts, Remember(more)
  PROVE  /\ had' \in [Procs -> Pasts]
         /\ \A d \in Procs : /\ had[d].linked \subseteq had'[d].linked /\ had[d].member \subseteq had'[d].member
                             /\ at[d] # "idle" => /\ more.linked \subseteq had'[d].linked
                                                  /\ more.member \subseteq had'[d].member
<1>1. \A d \in Procs : had[d] \in Pasts
  BY RequestTyped
<1>2. ASSUME NEW d \in Procs, at[d] # "idle"
      PROVE  /\ had'[d] = [linked |-> had[d].linked \cup more.linked, member |-> had[d].member \cup more.member]
             /\ had'[d] \in Pasts
  <2>1. had'[d] = [had[d] EXCEPT !.linked = @ \cup more.linked, !.member = @ \cup more.member]
    BY <1>2 DEF Remember, InFlight
  <2>2. had[d] \in Pasts
    BY <1>1
  <2> QED BY <2>1, <2>2 DEF Pasts
<1>3. ASSUME NEW d \in Procs, at[d] = "idle" PROVE had'[d] = had[d]
  BY <1>3 DEF Remember, InFlight
<1>4. had' = [d \in Procs |-> had'[d]]
  BY DEF Remember
<1>5. \A d \in Procs : had'[d] \in Pasts
  BY <1>1, <1>2, <1>3
<1> QED BY <1>2, <1>3, <1>4, <1>5

LEMMA LinkKeeps ==
  ASSUME LinesInv, NEW p \in Procs, AddLink(p)
  PROVE  LinesInv'
<1>0. /\ LinesTypeOK /\ OnePerLine /\ OrphansAwaited /\ RequestSound(p) /\ at[p] = "link"
      /\ ask[p].op = "link" /\ ask[p].line \in Lines /\ ask[p].queue \in Queues
  BY DEF LinesInv, AddLink, RequestSound, LinkSound
<1> DEFINE link == <<ask[p].queue, ask[p].line>>
           more == [NoHistory EXCEPT !.linked = {link}]
<1>1. more \in Pasts /\ more.linked = {link} /\ more.member = {}
  BY <1>0 DEF NoHistory, Pasts
<1>2. /\ linked' = linked \cup {link} /\ Remember(more) /\ at' = [at EXCEPT ![p] = "adopt"]
      /\ UNCHANGED <<member, active, live, chats, ask, found, turned, stray, asked, changes>>
  BY DEF AddLink
<1> HIDE DEF more
<1>3. /\ had' \in [Procs -> Pasts]
      /\ \A d \in Procs : /\ had[d].linked \subseteq had'[d].linked /\ had[d].member \subseteq had'[d].member
                          /\ at[d] # "idle" => link \in had'[d].linked
  BY <1>0, <1>1, <1>2, Remembered DEF LinesTypeOK
<1>4. at'[p] = "adopt" /\ \A d \in Procs : d # p => at'[d] = at[d]
  BY <1>0, <1>2 DEF LinesTypeOK, RequestsTyped
<1>5. LinesTypeOK'
  <2>1. RequestsTyped'
    BY <1>0, <1>2, <1>3 DEF LinesTypeOK, RequestsTyped, Steps
  <2>2. RightsTyped'
    BY <1>0, <1>2 DEF LinesTypeOK, RightsTyped
  <2> QED BY <1>0, <1>2, <2>1, <2>2 DEF LinesTypeOK
<1>6. ASSUME NEW d \in Procs
      PROVE  at'[d] = "idle" <=> at[d] = "idle"
  BY <1>0, <1>4
<1>7. ASSUME NEW d \in Procs PROVE PastSound(d)'
  <2>1. PastSound(d)
    BY DEF LinesInv, RequestSound
  <2>2. at[d] # "idle" => linked' \subseteq had'[d].linked /\ member' \subseteq had'[d].member
    BY <1>2, <1>3, <2>1 DEF PastSound
  <2>3. at'[d] = "idle" <=> at[d] = "idle"
    BY <1>6
  <2> QED BY <1>2, <2>1, <2>2, <2>3 DEF PastSound
<1>8. RequestSound(p)'
  <2>1. LinkSound(p)' /\ CreateSound(p)' /\ TakeSound(p)' /\ InboundSound(p)'
    BY <1>0, <1>2, <1>4 DEF LinkSound, CreateSound, TakeSound, InboundSound
  <2> QED BY <1>7, <2>1 DEF RequestSound
<1>9. ASSUME NEW d \in Procs, d # p PROVE RequestSound(d)'
  <2>1. RequestSound(d) /\ PastSound(d)'
    BY <1>7 DEF LinesInv
  <2>2. CarriesOn(d)
    BY <1>2, <1>3, <1>4, <1>9, <2>1 DEF CarriesOn, RequestSound, PastSound, Unused
  <2> QED BY <2>1, <2>2, CarriedOn
<1>10. OrphansAwaited'
  <2> SUFFICES ASSUME NEW k \in Ids \ (stray' \cup Unused'), chats'[k].queue = NoQueue,
                      Serving(chats[k].line)' # {}
               PROVE  Awaited(k)'
    BY DEF OrphansAwaited
  <2>1. chats' = chats /\ k \in Ids \ (stray \cup Unused) /\ chats[k].queue = NoQueue
    BY <1>2 DEF Unused
  <2>2. CASE chats[k].line = ask[p].line
    BY <1>2, <1>4, <2>2 DEF Awaited
  <2>3. CASE chats[k].line # ask[p].line
    <3>1. Serving(chats[k].line) # {}
      BY <1>2, <2>1, <2>3 DEF Serving
    <3>2. PICK d \in Procs : \/ at[d] = "adopt" /\ ask[d].line = chats[k].line
                             \/ at[d] = "setQueue" /\ ask[d].chat = k
      BY <1>0, <2>1, <3>1 DEF OrphansAwaited, Awaited
    <3>3. d # p
      BY <1>0, <3>2
    <3> QED BY <1>2, <1>4, <3>2, <3>3 DEF Awaited
  <2> QED BY <2>2, <2>3
<1>11. OnePerLine'
  BY <1>0, <1>2 DEF OnePerLine
<1>12. \A d \in Procs : RequestSound(d)'
  BY <1>8, <1>9
<1> QED BY <1>5, <1>10, <1>11, <1>12 DEF LinesInv

-----------------------------------------------------------------------------
(* The changes of the administrators, and the end of a chat.               *)
LEMMA ChangesKeep ==
  ASSUME LinesInv, Changes, RightsTyped', chats' \in [Ids -> Rows], had' \in [Procs -> Pasts],
         \A d \in Procs : had[d].linked \subseteq had'[d].linked /\ had[d].member \subseteq had'[d].member,
         \A d \in Procs : at[d] # "idle" => linked' \subseteq had'[d].linked /\ member' \subseteq had'[d].member,
         \A k \in Ids : /\ chats'[k].queue = chats[k].queue /\ chats'[k].line = chats[k].line
                        /\ chats'[k] = NoChat <=> chats[k] = NoChat,
         stray \subseteq stray', stray' \subseteq Ids,
         \A k \in Ids \ stray' : chats[k].queue = NoQueue =>
                                   Serving(chats[k].line)' \subseteq Serving(chats[k].line)
  PROVE  LinesInv'
<1>1. /\ changes' = changes + 1 /\ changes < MaxChanges /\ UNCHANGED <<at, ask, found, turned, asked>>
      /\ LinesTypeOK /\ OnePerLine /\ OrphansAwaited
  BY DEF Changes, LinesInv
<1>2. LinesTypeOK'
  <2>1. changes' \in 0..MaxChanges
    BY <1>1, LineConstants DEF LinesTypeOK
  <2>2. RequestsTyped'
    BY <1>1 DEF LinesTypeOK, RequestsTyped
  <2> QED BY <1>1, <2>1, <2>2 DEF LinesTypeOK
<1>3. OnePerLine'
  <2>1. \A k \in Ids : chats'[k] = NoChat \/ chats'[k].line \in Lines
    BY <1>1 DEF OnePerLine
  <2>2. \A j, k \in Ids : chats'[j] # NoChat /\ chats'[j].line = chats'[k].line => j = k
    BY <1>1 DEF OnePerLine
  <2> QED BY <2>1, <2>2 DEF OnePerLine
<1>4. ASSUME NEW d \in Procs PROVE RequestSound(d)'
  <2>1. RequestSound(d)
    BY DEF LinesInv
  <2>2. CarriesOn(d)
    BY <1>1, <2>1 DEF CarriesOn, RequestSound, PastSound, Unused
  <2> QED BY <2>1, <2>2, CarriedOn
<1>5. OrphansAwaited'
  <2> SUFFICES ASSUME NEW k \in Ids \ (stray' \cup Unused'), chats'[k].queue = NoQueue,
                      Serving(chats[k].line)' # {}
               PROVE  Awaited(k)'
    BY DEF OrphansAwaited
  <2>1. /\ k \in Ids \ (stray \cup Unused) /\ chats[k].queue = NoQueue
        /\ chats'[k].line = chats[k].line
    BY DEF Unused
  <2>2. Serving(chats[k].line) # {}
    BY <2>1 DEF Serving
  <2>3. PICK d \in Procs : \/ at[d] = "adopt" /\ ask[d].line = chats[k].line
                           \/ at[d] = "setQueue" /\ ask[d].chat = k
    BY <1>1, <2>1, <2>2 DEF OrphansAwaited, Awaited
  <2> QED BY <1>1, <2>1, <2>3 DEF Awaited
<1> QED BY <1>2, <1>3, <1>4, <1>5 DEF LinesInv

LEMMA RightsChangesKeep ==
  ASSUME LinesInv,
         \/ \E q \in Queues : \/ ToggleQueue(q)
                              \/ \E l \in Lines : removeConnectionFromQueue(q, l)
                              \/ \E a \in Agents : addUserToQueue(q, a) \/ removeUserFromQueue(q, a)
         \/ \E l \in Lines : LineChanges(l)
  PROVE  LinesInv'
<1>0. /\ LinesTypeOK /\ chats \in [Ids -> Rows] /\ had \in [Procs -> Pasts] /\ stray \subseteq Ids
      /\ RightsTyped /\ RequestsTyped
      /\ \A d \in Procs : at[d] # "idle" => linked \subseteq had[d].linked /\ member \subseteq had[d].member
  BY DEF LinesInv, LinesTypeOK, RequestsTyped, RequestSound, PastSound
<1>1. CASE \E q \in Queues : ToggleQueue(q)
  <2>1. PICK q \in Queues : ToggleQueue(q)
    BY <1>1
  <2>2. /\ Changes /\ UNCHANGED <<linked, member, live, chats, had>>
        /\ active' = IF q \in active THEN active \ {q} ELSE active \cup {q}
        /\ stray' = IF q \in active THEN stray
                    ELSE stray \cup {k \in Ids : chats[k].queue = NoQueue /\ <<q, chats[k].line>> \in linked}
    BY <2>1 DEF ToggleQueue
  <2>3. RightsTyped'
    BY <1>0, <2>2 DEF RightsTyped
  <2>4. ASSUME NEW k \in Ids \ stray', chats[k].queue = NoQueue
        PROVE  Serving(chats[k].line)' \subseteq Serving(chats[k].line)
    BY <2>2, <2>4 DEF Serving
  <2>5. stray \subseteq stray' /\ stray' \subseteq Ids
    BY <1>0, <2>2
  <2> QED BY <1>0, <2>2, <2>3, <2>4, <2>5, ChangesKeep
<1>2. CASE \E q \in Queues, l \in Lines : removeConnectionFromQueue(q, l)
  <2>1. PICK q \in Queues, l \in Lines : removeConnectionFromQueue(q, l)
    BY <1>2
  <2>2. Changes /\ linked' = linked \ {<<q, l>>} /\ UNCHANGED <<member, active, live, chats, had, stray>>
    BY <2>1 DEF removeConnectionFromQueue
  <2>3. RightsTyped'
    BY <1>0, <2>2 DEF RightsTyped
  <2>4. \A k \in Ids \ stray' : Serving(chats[k].line)' \subseteq Serving(chats[k].line)
    BY <2>2 DEF Serving
  <2> QED BY <1>0, <2>2, <2>3, <2>4, ChangesKeep
<1>3. CASE \E q \in Queues, a \in Agents : addUserToQueue(q, a)
  <2>1. PICK q \in Queues, a \in Agents : addUserToQueue(q, a)
    BY <1>3
  <2> DEFINE more == [NoHistory EXCEPT !.member = {<<q, a>>}]
  <2>2. /\ Changes /\ member' = member \cup {<<q, a>>} /\ Remember(more)
        /\ UNCHANGED <<linked, active, live, chats, stray>>
    BY <2>1 DEF addUserToQueue
  <2>3. more \in Pasts /\ more.member = {<<q, a>>} /\ more.linked = {}
    BY DEF NoHistory, Pasts
  <2> HIDE DEF more
  <2>4. /\ had' \in [Procs -> Pasts]
        /\ \A d \in Procs : /\ had[d].linked \subseteq had'[d].linked /\ had[d].member \subseteq had'[d].member
                            /\ at[d] # "idle" => <<q, a>> \in had'[d].member
    BY <1>0, <2>2, <2>3, Remembered
  <2>5. \A d \in Procs : at[d] # "idle" => linked' \subseteq had'[d].linked /\ member' \subseteq had'[d].member
    BY <1>0, <2>2, <2>4
  <2>6. RightsTyped'
    BY <1>0, <2>2 DEF RightsTyped
  <2>7. \A k \in Ids \ stray' : Serving(chats[k].line)' \subseteq Serving(chats[k].line)
    BY <2>2 DEF Serving
  <2> QED BY <1>0, <2>2, <2>4, <2>5, <2>6, <2>7, ChangesKeep
<1>4. CASE \E q \in Queues, a \in Agents : removeUserFromQueue(q, a)
  <2>1. PICK q \in Queues, a \in Agents : removeUserFromQueue(q, a)
    BY <1>4
  <2>2. Changes /\ member' = member \ {<<q, a>>} /\ UNCHANGED <<linked, active, live, chats, had, stray>>
    BY <2>1 DEF removeUserFromQueue
  <2>3. RightsTyped'
    BY <1>0, <2>2 DEF RightsTyped
  <2>4. \A k \in Ids \ stray' : Serving(chats[k].line)' \subseteq Serving(chats[k].line)
    BY <2>2 DEF Serving
  <2> QED BY <1>0, <2>2, <2>3, <2>4, ChangesKeep
<1>5. CASE \E l \in Lines : LineChanges(l)
  <2>1. PICK l \in Lines : LineChanges(l)
    BY <1>5
  <2>2. /\ Changes /\ live' = IF l \in live THEN live \ {l} ELSE live \cup {l}
        /\ UNCHANGED <<linked, member, active, chats, had, stray>>
    BY <2>1 DEF LineChanges
  <2>3. RightsTyped'
    BY <1>0, <2>2 DEF RightsTyped
  <2>4. \A k \in Ids \ stray' : Serving(chats[k].line)' \subseteq Serving(chats[k].line)
    BY <2>2 DEF Serving
  <2> QED BY <1>0, <2>2, <2>3, <2>4, ChangesKeep
<1> QED BY <1>1, <1>2, <1>3, <1>4, <1>5

LEMMA CloseKeeps ==
  ASSUME LinesInv, NEW k \in Ids, Close(k)
  PROVE  LinesInv'
<1>0. /\ LinesTypeOK /\ chats \in [Ids -> Rows] /\ had \in [Procs -> Pasts] /\ stray \subseteq Ids
      /\ RightsTyped /\ OnePerLine
      /\ \A d \in Procs : at[d] # "idle" => linked \subseteq had[d].linked /\ member \subseteq had[d].member
  BY DEF LinesInv, LinesTypeOK, RequestsTyped, RequestSound, PastSound
<1> DEFINE row == [chats[k] EXCEPT !.status = "CLOSED", !.agent = NoAgent]
<1>1. /\ Changes /\ chats[k].status = "OPEN" /\ UNCHANGED <<rights, had, stray>>
      /\ chats' = [chats EXCEPT ![k] = row]
  BY DEF Close
<1>2. chats[k] \in Rows /\ chats[k] # NoChat /\ chats[k].line # NoLine
  BY <1>0, <1>1, LineConstants DEF NoChat, OnePerLine
<1>3. row \in Rows /\ row.line = chats[k].line /\ row.queue = chats[k].queue
  BY <1>2 DEF Rows
<1>4. row # NoChat
  BY <1>2, <1>3 DEF NoChat
<1> HIDE DEF row
<1>5. /\ chats' \in [Ids -> Rows]
      /\ \A j \in Ids : /\ chats'[j].queue = chats[j].queue /\ chats'[j].line = chats[j].line
                        /\ chats'[j] = NoChat <=> chats[j] = NoChat
  BY <1>0, <1>1, <1>2, <1>3, <1>4
<1>6. RightsTyped' /\ linked' = linked /\ member' = member
  BY <1>0, <1>1 DEF RightsTyped, rights
<1>7. \A j \in Ids \ stray' : Serving(chats[j].line)' \subseteq Serving(chats[j].line)
  BY <1>1, <1>5 DEF Serving, rights
<1> QED BY <1>0, <1>1, <1>5, <1>6, <1>7, ChangesKeep

LEMMA LinesInvInit == LinesInit => LinesInv
<1> SUFFICES ASSUME LinesInit PROVE LinesInv
  OBVIOUS
<1>1. PICK first \in FirstRows : chats = [k \in Ids |-> IF k = 1 THEN first ELSE NoChat]
  BY DEF LinesInit
<1>2. /\ first \in Rows /\ FirstLinks \subseteq Queues \X Lines /\ FirstMembers \subseteq Queues \X Agents
      /\ first # NoChat => first.line \in Lines /\
           (first.queue = NoQueue => \A q \in Queues : <<q, first.line>> \notin FirstLinks)
  BY <1>1, LinesAssumption DEF Rows
<1>3. /\ at = [p \in Procs |-> "idle"] /\ ask = [p \in Procs |-> NoRequest]
      /\ found = [p \in Procs |-> NothingRead] /\ had = [p \in Procs |-> NoHistory]
      /\ turned = {} /\ stray = {} /\ asked = 0 /\ changes = 0
      /\ linked = FirstLinks /\ member = FirstMembers /\ active = Queues /\ live = Lines
  BY DEF LinesInit
<1>4. LinesTypeOK
  <2>1. RequestsTyped
    BY <1>3, NothingsTyped DEF RequestsTyped, Steps
  <2>2. RightsTyped
    BY <1>2, <1>3 DEF RightsTyped
  <2>3. chats \in [Ids -> Rows]
    BY <1>1, <1>2, NothingsTyped
  <2> QED BY <1>3, <2>1, <2>2, <2>3, LineConstants DEF LinesTypeOK
<1>5. \A k \in Ids : chats[k] # NoChat => k = 1 /\ chats[k] = first
  BY <1>1
<1>6. OnePerLine
  <2>1. \A k \in Ids : chats[k] = NoChat \/ chats[k].line \in Lines
    BY <1>2, <1>5
  <2>2. NoChat.line = NoLine /\ NoLine \notin Lines
    BY LineConstants DEF NoChat
  <2>3. \A j, k \in Ids : chats[j] # NoChat /\ chats[j].line = chats[k].line => j = k
    BY <1>5, <2>1, <2>2
  <2> QED BY <2>1, <2>3 DEF OnePerLine
<1>7. ASSUME NEW p \in Procs PROVE RequestSound(p)
  <2>1. at[p] = "idle" /\ ask[p] = NoRequest /\ p \notin turned
    BY <1>3
  <2>2. ask[p].op = "none"
    BY <2>1 DEF NoRequest
  <2> QED BY <2>1, <2>2 DEF RequestSound, CreateSound, TakeSound, InboundSound, LinkSound, PastSound
<1>8. OrphansAwaited
  <2>1. ASSUME NEW k \in Ids \ (stray \cup Unused), chats[k].queue = NoQueue PROVE Serving(chats[k].line) = {}
    BY <1>2, <1>3, <1>5, <2>1 DEF Unused, Serving
  <2> QED BY <2>1 DEF OrphansAwaited
<1> QED BY <1>4, <1>6, <1>7, <1>8 DEF LinesInv

LEMMA LinesInvNext == LinesInv /\ PastTyped /\ [LinesNext]_linesVars => LinesInv' /\ PastTyped'
<1> SUFFICES ASSUME LinesInv, PastTyped, [LinesNext]_linesVars PROVE LinesInv' /\ PastTyped'
  OBVIOUS
<1>0. PastTyped'
  BY DEF LinesInv, LinesTypeOK, PastTyped, LinesNext, Outdate, linesVars
<1>1. ASSUME NEW p \in Procs, RequestStep(p) PROVE LinesInv'
  <2>1. CASE StartsSomething(p)
    BY <2>1, StartKeeps
  <2>2. CASE Reading(p)
    BY <2>2, ReadKeeps
  <2>3. CASE createOrReopenChat(p) \/ reassignChat(p) \/ SetChatQueue(p) \/ setQueueForSessionMissingQueue(p)
    BY <2>3, WritesKeep
  <2>4. CASE RecordInbound(p)
    BY <2>4, InboundKeeps
  <2>5. CASE AddLink(p)
    BY <2>5, LinkKeeps
  <2> QED BY <1>1, <2>1, <2>2, <2>3, <2>4, <2>5 DEF RequestStep, StartsSomething, Reading
<1>2. CASE UNCHANGED linesVars
  <2>1. \A p \in Procs : RequestSound(p)'
    BY <1>2 DEF LinesInv, linesVars, RequestSound, CreateSound, TakeSound, InboundSound, LinkSound,
                PastSound, LineOf, Unused
  <2>2. LinesTypeOK' /\ OnePerLine'
    BY <1>2 DEF LinesInv, linesVars, LinesTypeOK, RightsTyped, RequestsTyped, OnePerLine
  <2>3. OrphansAwaited'
    BY <1>2 DEF LinesInv, linesVars, OrphansAwaited, Awaited, Serving, Unused
  <2> QED BY <1>0, <2>1, <2>2, <2>3 DEF LinesInv
<1>3. CASE LinesStep
  BY <1>0, <1>1, <1>3, RightsChangesKeep, CloseKeeps DEF LinesStep
<1> QED BY <1>0, <1>2, <1>3 DEF LinesNext

(* The rights are read before the writing statement, and hold in spite of  *)
(* it in this sense: a request goes by links and members of its own time,  *)
(* and the chat is on the queue that the request read, unless the chat     *)
(* turned under it (chatService.js:100, chatReassignmentService.js:193) or *)
(* the request read a copy from before the chat turned                     *)
(* (chatRepository.js:98-103).  What copies may hold are rows.             *)
THEOREM LinesInvariant == LinesSpec => [](LinesInv /\ PastTyped)
<1>1. LinesInit => LinesInv /\ PastTyped
  BY LinesInvInit DEF LinesInit, PastTyped
<1>2. LinesInv /\ PastTyped /\ [LinesNext]_linesVars => (LinesInv /\ PastTyped)'
  BY LinesInvNext
<1> QED BY <1>1, <1>2, PTL DEF LinesSpec

(* The rows of queues, members and chats, the copies of them, and the      *)
(* requests with what they have read, keep their types.                    *)
THEOREM LinesTyped == LinesSpec => [](LinesTypeOK /\ PastTyped)
<1>1. LinesInv => LinesTypeOK
  BY DEF LinesInv
<1> QED BY <1>1, LinesInvariant, PTL

(* Who gets a chat, by createOrReopenChat or an assignment.                *)
LEMMA RightsByStep ==
  ASSUME LinesInv, PastTyped, LinesNext, NEW k \in Ids, chats'[k].agent \notin {NoAgent, chats[k].agent}
  PROVE  \E p \in Procs : at[p] = "write" /\ at'[p] = "idle" /\ Rightful(p, k)
<1>0. LinesTypeOK /\ OnePerLine /\ chats \in [Ids -> Rows]
  BY DEF LinesInv, LinesTypeOK
<1>1. ASSUME NEW p \in Procs, createOrReopenChat(p) PROVE at[p] = "write" /\ at'[p] = "idle" /\ Rightful(p, k)
  <2>0. /\ RequestSound(p) /\ at[p] = "write" /\ ask[p].op = "create"
        /\ <<found[p].queue, LineOf(p)>> \in had[p].linked
        /\ ask[p].user \in Supervisors \/ <<found[p].queue, ask[p].user>> \in had[p].member
    BY <1>1 DEF LinesInv, createOrReopenChat, RequestSound, CreateSound
  <2>1. at'[p] = "idle"
    BY <1>0, <1>1, <2>0, CreateWrites, Finished, Ended DEF LinesTypeOK
  <2>2. ~UNCHANGED <<chats, stray>>
    OBVIOUS
  <2>3. PICK j \in Ids, row \in Rows :
          /\ chats' = [chats EXCEPT ![j] = row] /\ row.line = LineOf(p) /\ row.queue = found[p].queue
          /\ row.agent = ask[p].user
    BY <1>0, <1>1, <2>0, <2>2, CreateWrites
  <2>4. chats'[k] = row
    BY <1>0, <2>3
  <2> QED BY <2>0, <2>1, <2>3, <2>4, LineConstants DEF Rightful
<1>2. ASSUME NEW p \in Procs, reassignChat(p) PROVE at[p] = "write" /\ at'[p] = "idle" /\ Rightful(p, k)
  <2>0. /\ RequestSound(p) /\ at[p] = "write" /\ ask[p].op \in {"take", "transfer"}
        /\ ask[p].chat \in Ids \ Unused
        /\ p \notin turned => chats[ask[p].chat].queue = found[p].chat.queue
        /\ ask[p].op = "transfer" \/ ask[p].to \in Agents =>
             found[p].chat.queue = NoQueue \/ <<found[p].chat.queue, ask[p].to>> \in had[p].member
    BY <1>2 DEF LinesInv, reassignChat, RequestSound, TakeSound
  <2>1. at'[p] = "idle"
    BY <1>0, <1>2, <2>0, TakeWrites, Finished, Ended DEF LinesTypeOK
  <2>2. ~UNCHANGED <<chats, stray>>
    OBVIOUS
  <2>3. PICK row \in Rows : /\ chats' = [chats EXCEPT ![ask[p].chat] = row] /\ row.agent = ask[p].to
                            /\ row.queue = chats[ask[p].chat].queue
    BY <1>0, <1>2, <2>0, <2>2, TakeWrites
  <2>4. chats'[k] = row /\ k = ask[p].chat
    BY <1>0, <2>0, <2>3
  <2> QED BY <2>0, <2>1, <2>3, <2>4 DEF Rightful
<1>3. ASSUME NEW p \in Procs, RequestStep(p), ~createOrReopenChat(p), ~reassignChat(p) PROVE FALSE
  <2>0. RequestSound(p)
    BY DEF LinesInv
  <2>1. CASE StartsSomething(p)
    <3>1. PICK r \in Asks, first \in Steps : Start(p, r, first)
      BY <1>0, <2>1, Beginnings
    <3> QED BY <3>1 DEF Start
  <2>2. CASE Reading(p)
    BY <1>0, <2>0, <2>2, ReadsOn DEF Reads
  <2>3. CASE RecordInbound(p)
    <3>1. \A j \in Ids : chats'[j].agent \in {NoAgent, chats[j].agent}
      BY <1>0, <2>0, <2>3, InboundWrites
    <3> QED BY <3>1
  <2>4. CASE SetChatQueue(p)
    BY <1>0, <2>4 DEF SetChatQueue
  <2>5. CASE AddLink(p)
    BY <2>5 DEF AddLink
  <2>6. CASE setQueueForSessionMissingQueue(p)
    BY <1>0, <2>6 DEF setQueueForSessionMissingQueue, Rows
  <2> QED BY <1>3, <2>1, <2>2, <2>3, <2>4, <2>5, <2>6 DEF RequestStep, StartsSomething, Reading
<1>4. ASSUME NEW j \in Ids, Close(j) PROVE FALSE
  BY <1>0, <1>4 DEF Close, Rows
<1>5. (\E p \in Procs : RequestStep(p)) \/ (\E j \in Ids : Close(j))
  <2>1. chats' # chats
    OBVIOUS
  <2> QED BY <2>1 DEF LinesNext, LinesStep, ToggleQueue, removeConnectionFromQueue, addUserToQueue,
                      removeUserFromQueue, LineChanges
<1> QED BY <1>1, <1>2, <1>3, <1>4, <1>5

(* Nobody gets a chat but by a request that had the right to give it, the  *)
(* two ways around the check of RightsHeld apart: the chat turned to       *)
(* another queue under the request, or the request decided on a copy from  *)
(* before it turned.                                                       *)
THEOREM RightsStay == LinesSpec => RightsHeld
<1>1. LinesInv /\ PastTyped /\ [LinesNext]_linesVars =>
        [\A k \in Ids : chats'[k].agent \notin {NoAgent, chats[k].agent} =>
           \E p \in Procs : at[p] = "write" /\ at'[p] = "idle" /\ Rightful(p, k)]_linesVars
  BY RightsByStep
<1> QED BY <1>1, LinesInvariant, PTL DEF LinesSpec, RightsHeld

(* A chat on a line that has a queue has one once no request is under way, *)
(* the exceptions of OrphansAdopted apart (queueMembershipService.js:86).  *)
THEOREM OrphansStayAdopted == LinesSpec => []OrphansAdopted
<1>1. LinesInv => OrphansAdopted
  BY DEF LinesInv, OrphansAwaited, Awaited, OrphansAdopted, InFlight
<1> QED BY <1>1, LinesInvariant, PTL

-----------------------------------------------------------------------------
(* Quick replies.  What the proof knows of the rows, of what shows them,   *)
(* and of what is under way.                                               *)
ReplyRow  == [text : Texts, active : BOOLEAN, version : Nat]
ReplyItem == [id : Replies, text : Texts, active : BOOLEAN, version : Nat]
Composed  == [no : Nat, item : ReplyItem, chat : Inbox, tries : Nat, filled : BOOLEAN]

RepliesTyped == replies \in [Replies -> ReplyRow \cup {NoReply}]

SomeFields == [text : Texts, active : BOOLEAN] \cup [active : BOOLEAN]

NewWriter == [what : {"create"}, id : {NoReply}, fields : [text : Texts, active : BOOLEAN], row : {NoReply}]
OldWriter == [what : {"update", "remove"}, id : Replies, fields : SomeFields, row : ReplyRow \cup {NoReply}]

(* The supervisors change and remove rows that exist.                      *)
SupervisorsSound ==
  /\ writers \subseteq NewWriter \cup OldWriter
  /\ \A h \in writers : h.what # "create" => h.id \in Stored
  /\ items \subseteq ReplyItem /\ \A item \in items : item.id \in Stored
  /\ form \in [id : Replies \cup {NoReply}, text : Texts, active : BOOLEAN]
  /\ form.id # NoReply => form.id \in Stored

(* A row is at least as new as an item that showed it, and has the text of *)
(* the item unless it is newer.                                            *)
NoOlder(row, item) == row.version >= item.version /\ (row.version = item.version => row.text = item.text)

Seen(item) == item.id \in Stored /\ NoOlder(replies[item.id], item)

WindowSound ==
  /\ chat \in Inbox /\ drafts \in Nat
  /\ listed \subseteq ReplyItem /\ \A item \in listed : Seen(item)
  /\ kept # NoList => kept \subseteq ReplyItem /\ \A item \in kept : Seen(item)
  /\ draft # NoDraft =>
       draft \in Composed /\ Seen(draft.item) /\ draft.chat = chat /\ draft.no < drafts

Delivery == [draft : Composed, chat : Inbox, at : {"read", "send", "out", "ok", "error"},
             row : ReplyRow \cup {NoReply}, heard : BOOLEAN]
Posted   == [chat : Inbox, draft : Composed, text : Texts, version : Nat]

DeliverySound(s) ==
  /\ Seen(s.draft.item) /\ s.chat = s.draft.chat /\ s.draft.no < drafts
  /\ s.at = "send" => s.row \in ReplyRow /\ NoOlder(s.row, s.draft.item)

PostedSound(m) == m.chat = m.draft.chat /\ m.draft.no < drafts /\ NoOlder(m, m.draft.item)

DeliveriesSound ==
  /\ sending \subseteq Delivery /\ sent \subseteq Posted
  /\ \A s \in sending : DeliverySound(s)
  /\ \A m \in sent : PostedSound(m)

(* Of a draft of which the window was told the truth: it waits for each of *)
(* its requests, and for one at a time; once its message is out, the       *)
(* request for it has only to be recorded and answered, and after that the *)
(* draft is no longer there.                                               *)
IsOut == {"out", "ok"}

WellSent(m) ==
  /\ \A s \in sending : s.draft.no = m.draft.no => s.at \in IsOut
  /\ \/ \E s \in sending : s.draft.no = m.draft.no
     \/ draft = NoDraft
     \/ draft.no # m.draft.no

OneAtATime ==
  /\ \A s \in sending : s.heard \/ s.draft.no \in misled
  /\ \A s, t \in sending : s.heard /\ t.heard => s = t
  /\ \A m \in sent : m.draft.no \in misled \/ WellSent(m)
  /\ \A m, n \in sent : n.draft.no = m.draft.no => n = m \/ m.draft.no \in misled

QuickInv == RepliesTyped /\ SupervisorsSound /\ WindowSound /\ DeliveriesSound /\ OneAtATime

LEMMA QuickConstants == 1 \in Texts /\ NoReply \notin ReplyRow
BY RepliesAssumption DEF ReplyRow

LEMMA StoredRow ==
  ASSUME RepliesTyped, NEW r \in Stored
  PROVE  r \in Replies /\ replies[r] \in ReplyRow
BY DEF RepliesTyped, Stored

LEMMA ListingShows ==
  ASSUME RepliesTyped, NEW set \in SUBSET Stored
  PROVE  Listing(set) \subseteq ReplyItem /\ \A item \in Listing(set) : item.id \in Stored /\ Seen(item)
<1> SUFFICES ASSUME NEW item \in Listing(set)
             PROVE  item \in ReplyItem /\ item.id \in Stored /\ Seen(item)
  OBVIOUS
<1>1. PICK r \in set :
        item = [id |-> r, text |-> replies[r].text, active |-> replies[r].active, version |-> replies[r].version]
  BY DEF Listing
<1>2. r \in Stored /\ r \in Replies /\ replies[r] \in ReplyRow
  BY <1>1, StoredRow
<1>3. item \in ReplyItem
  BY <1>1, <1>2 DEF ReplyItem, ReplyRow
<1>4. item.id = r /\ item.version = replies[r].version /\ item.text = replies[r].text /\ item.version \in Nat
  BY <1>1, <1>2 DEF ReplyRow
<1> QED BY <1>2, <1>3, <1>4 DEF Seen, NoOlder

(* A row that is written is newer than the one before, or has its version  *)
(* and its text: whatever was seen of the rows stays true of them.         *)
RowsKept ==
  /\ RepliesTyped' /\ Stored \subseteq Stored'
  /\ \A item \in ReplyItem : Seen(item) => Seen(item)'

LEMMA RowsSame ==
  ASSUME RepliesTyped, UNCHANGED replies
  PROVE  RowsKept
BY DEF RepliesTyped, RowsKept, Stored, Seen

LEMMA RowPut ==
  ASSUME RepliesTyped, NEW r \in Replies, NEW row \in ReplyRow, PutReply(r, row),
         r \in Stored => \/ row.version > replies[r].version
                         \/ row.version = replies[r].version /\ row.text = replies[r].text
  PROVE  RowsKept
<1>1. CASE UNCHANGED replies
  BY <1>1, RowsSame
<1>2. CASE replies' = [replies EXCEPT ![r] = row]
  <2>1. RepliesTyped'
    BY <1>2 DEF RepliesTyped
  <2>2. replies'[r] = row /\ \A s \in Replies \ {r} : replies'[s] = replies[s]
    BY <1>2 DEF RepliesTyped
  <2>3. Stored \subseteq Stored'
    BY <2>2, QuickConstants DEF Stored
  <2>4. ASSUME NEW item \in ReplyItem, Seen(item)
        PROVE  Seen(item)'
    <3>1. item.id \in Stored /\ item.id \in Replies /\ replies[item.id] \in ReplyRow /\ item.version \in Nat
      BY <2>4, StoredRow DEF Seen, ReplyItem
    <3>2. item.id \in Stored'
      BY <2>3, <3>1
    <3>3. CASE item.id = r
      BY <2>2, <2>4, <3>1, <3>2, <3>3 DEF Seen, NoOlder, ReplyRow
    <3>4. CASE item.id # r
      BY <2>2, <2>4, <3>1, <3>2, <3>4 DEF Seen, NoOlder
    <3> QED BY <3>3, <3>4
  <2> QED BY <2>1, <2>3, <2>4 DEF RowsKept
<1> QED BY <1>1, <1>2 DEF PutReply

(* What a step that leaves the variables of a part alone keeps.            *)
LEMMA SupervisorsKept ==
  ASSUME SupervisorsSound, RowsKept, UNCHANGED <<writers, items, form>>
  PROVE  SupervisorsSound'
BY DEF SupervisorsSound, RowsKept

LEMMA WindowKept ==
  ASSUME WindowSound, RowsKept, UNCHANGED <<chat, listed, kept, draft, drafts>>
  PROVE  WindowSound'
<1>1. \A item \in ReplyItem : Seen(item) => Seen(item)'
  BY DEF RowsKept
<1>2. chat' \in Inbox /\ drafts' \in Nat /\ listed' \subseteq ReplyItem /\ \A item \in listed' : Seen(item)'
  BY <1>1 DEF WindowSound
<1>3. kept' # NoList => kept' \subseteq ReplyItem /\ \A item \in kept' : Seen(item)'
  BY <1>1 DEF WindowSound
<1>4. draft' # NoDraft =>
        draft' \in Composed /\ Seen(draft.item)' /\ draft'.chat = chat' /\ draft'.no < drafts'
  <2>1. PICK item : item = draft.item
    OBVIOUS
  <2>2. draft # NoDraft => item \in ReplyItem /\ Seen(item)
    BY <2>1 DEF WindowSound, Composed
  <2>3. draft # NoDraft => Seen(item)'
    BY <1>1, <2>2
  <2>4. (draft.item)' = item
    BY <2>1
  <2>5. draft # NoDraft => Seen(draft.item)'
    BY <2>3, <2>4 DEF Seen
  <2> QED BY <2>5 DEF WindowSound
<1> QED BY <1>2, <1>3, <1>4 DEF WindowSound

LEMMA DeliveryKept ==
  ASSUME DeliveriesSound, RowsKept, drafts \in Nat, drafts' \in Nat, drafts' >= drafts,
         NEW s \in sending
  PROVE  DeliverySound(s)' /\ s \in Delivery
<1>1. s \in Delivery /\ DeliverySound(s)
  BY DEF DeliveriesSound
<1>2. s.draft.item \in ReplyItem /\ s.draft.no \in Nat
  BY <1>1 DEF Delivery, Composed
<1>3. Seen(s.draft.item)' /\ s.draft.no < drafts'
  BY <1>1, <1>2 DEF DeliverySound, RowsKept
<1> QED BY <1>1, <1>3 DEF DeliverySound, NoOlder

LEMMA PostedKept ==
  ASSUME DeliveriesSound, drafts \in Nat, drafts' \in Nat, drafts' >= drafts,
         NEW m \in sent
  PROVE  PostedSound(m)' /\ m \in Posted
<1>1. m \in Posted /\ PostedSound(m)
  BY DEF DeliveriesSound
<1>2. m.draft.no \in Nat
  BY <1>1 DEF Posted, Composed
<1> QED BY <1>1, <1>2 DEF PostedSound, NoOlder

LEMMA DeliveriesKept ==
  ASSUME DeliveriesSound, RowsKept, drafts \in Nat, drafts' \in Nat, drafts' >= drafts,
         UNCHANGED <<sending, sent>>
  PROVE  DeliveriesSound'
<1>1. \A s \in sending : DeliverySound(s)' /\ s \in Delivery
  BY DeliveryKept
<1>2. \A m \in sent : PostedSound(m)' /\ m \in Posted
  BY PostedKept
<1> QED BY <1>1, <1>2 DEF DeliveriesSound

LEMMA OneAtATimeKept ==
  ASSUME OneAtATime, UNCHANGED <<sending, sent, misled>>,
         \/ draft' = NoDraft
         \/ draft # NoDraft /\ draft'.no = draft.no
         \/ \A m \in sent : draft'.no # m.draft.no
  PROVE  OneAtATime'
<1>1. \A m \in sent : WellSent(m) => WellSent(m)'
  BY DEF WellSent
<1> QED BY <1>1 DEF OneAtATime

(* The window and what it sent are left alone.                             *)
LEMMA AgentUntouched ==
  ASSUME QuickInv, RowsKept, UNCHANGED <<agent, sending, sent, misled, drafts>>
  PROVE  WindowSound' /\ DeliveriesSound' /\ OneAtATime'
<1>1. UNCHANGED <<chat, listed, kept, draft, drafts>> /\ UNCHANGED <<sending, sent, misled>>
  BY DEF agent, typing
<1>2. WindowSound'
  BY <1>1, WindowKept DEF QuickInv
<1>3. drafts \in Nat /\ drafts' \in Nat /\ drafts' >= drafts
  BY <1>1 DEF QuickInv, WindowSound
<1>4. DeliveriesSound'
  BY <1>1, <1>3, DeliveriesKept DEF QuickInv
<1>5. OneAtATime'
  BY <1>1 DEF QuickInv, OneAtATime, WellSent
<1> QED BY <1>2, <1>4, <1>5

(* The page of the supervisors.                                            *)
LEMMA PageOfReplies ==
  ASSUME QuickInv,
         \/ LoadQuickReplies
         \/ \E item \in items : EditReply(item) \/ HandleToggle(item)
         \/ \E text \in Texts, on \in BOOLEAN : HandleSubmit(text, on)
  PROVE  QuickInv'
<1>1. RepliesTyped /\ SupervisorsSound
  BY DEF QuickInv
<1>2. UNCHANGED <<replies, agent, sending, sent, misled, drafts>>
  BY DEF LoadQuickReplies, EditReply, HandleToggle, HandleSubmit
<1>3. RowsKept /\ Stored' = Stored
  BY <1>1, <1>2, RowsSame DEF Stored
<1>4. SupervisorsSound'
  <2>1. CASE LoadQuickReplies
    <3>1. items' = Listing(Stored) /\ writers' = writers /\ form' = form
      BY <2>1 DEF LoadQuickReplies
    <3>2. items' \subseteq ReplyItem /\ \A item \in items' : item.id \in Stored
      BY <1>1, <3>1, ListingShows
    <3> QED BY <1>1, <1>3, <3>1, <3>2 DEF SupervisorsSound
  <2>2. CASE \E item \in items : EditReply(item)
    <3>1. PICK item \in items : EditReply(item)
      BY <2>2
    <3>2. /\ form' = [id |-> item.id, text |-> item.text, active |-> item.active]
          /\ items' = items /\ writers' = writers
      BY <3>1 DEF EditReply
    <3>3. item \in ReplyItem /\ item.id \in Stored
      BY <1>1, <3>1 DEF SupervisorsSound
    <3>4. form' \in [id : Replies \cup {NoReply}, text : Texts, active : BOOLEAN] /\ form'.id \in Stored
      BY <3>2, <3>3 DEF ReplyItem
    <3> QED BY <1>1, <1>3, <3>2, <3>4 DEF SupervisorsSound
  <2>3. CASE \E item \in items : HandleToggle(item)
    <3>1. PICK item \in items : HandleToggle(item)
      BY <2>3
    <3>2. item \in ReplyItem /\ item.id \in Stored /\ item.id \in Replies
      BY <1>1, <3>1 DEF SupervisorsSound, ReplyItem
    <3>3. PICK what \in {"update", "remove"}, on \in BOOLEAN : Request(what, item.id, [active |-> on])
      BY <3>1 DEF HandleToggle
    <3>4. items' = items /\ form' = form
      BY <3>1 DEF HandleToggle, page
    <3> DEFINE h == [what |-> what, id |-> item.id, fields |-> [active |-> on], row |-> NoReply]
    <3>5. writers' = writers \cup {h}
      BY <3>3 DEF Request
    <3>6. h \in OldWriter /\ h.id \in Stored
      <4>1. [active |-> on] \in SomeFields
        BY <3>3 DEF SomeFields
      <4> HIDE DEF SomeFields
      <4> QED BY <3>2, <3>3, <4>1 DEF OldWriter
    <3> HIDE DEF h
    <3> QED BY <1>1, <1>3, <3>4, <3>5, <3>6 DEF SupervisorsSound
  <2>4. CASE \E text \in Texts, on \in BOOLEAN : HandleSubmit(text, on)
    <3>1. PICK text \in Texts, on \in BOOLEAN : HandleSubmit(text, on)
      BY <2>4
    <3> DEFINE h == [what |-> IF form.id = NoReply THEN "create" ELSE "update", id |-> form.id,
                     fields |-> [text |-> text, active |-> on], row |-> NoReply]
    <3>2. writers' = writers \cup {h} /\ items' = items /\ form' = EmptyForm
      BY <3>1 DEF HandleSubmit, Request
    <3>3. [text |-> text, active |-> on] \in [text : Texts, active : BOOLEAN]
      BY <3>1
    <3>4. form.id \in Replies \cup {NoReply} /\ (form.id # NoReply => form.id \in Stored)
      BY <1>1 DEF SupervisorsSound
    <3>5. h \in NewWriter \cup OldWriter /\ (h.what # "create" => h.id \in Stored)
      <4>1. CASE form.id = NoReply
        BY <3>3, <4>1 DEF NewWriter
      <4>2. CASE form.id # NoReply
        BY <3>3, <3>4, <4>2 DEF OldWriter, SomeFields
      <4> QED BY <4>1, <4>2
    <3>6. /\ form' \in [id : Replies \cup {NoReply}, text : Texts, active : BOOLEAN]
          /\ form'.id = NoReply
      BY <3>2, QuickConstants DEF EmptyForm
    <3> HIDE DEF h
    <3> QED BY <1>1, <1>3, <3>2, <3>5, <3>6 DEF SupervisorsSound
  <2> QED BY <2>1, <2>2, <2>3, <2>4
<1>5. WindowSound' /\ DeliveriesSound' /\ OneAtATime'
  BY <1>2, <1>3, AgentUntouched
<1> QED BY <1>3, <1>4, <1>5 DEF QuickInv, RowsKept

(* The handlers write a row that is newer, or that has the same text.      *)
LEMMA MergedRow ==
  ASSUME QuickInv, NEW h \in writers, WriteReply(h)
  PROVE  /\ h.id \in Replies /\ Merged(h) \in ReplyRow
         /\ \/ Merged(h).version > replies[h.id].version
            \/ Merged(h).version = replies[h.id].version /\ Merged(h).text = replies[h.id].text
<1>1. h.what # "create" /\ h.row # NoReply
  BY DEF WriteReply
<1>2. h \in OldWriter /\ h.id \in Stored
  BY <1>1 DEF QuickInv, SupervisorsSound, NewWriter
<1>3. h.id \in Replies /\ replies[h.id] \in ReplyRow
  BY <1>2, StoredRow DEF QuickInv
<1>4. h.row \in ReplyRow /\ h.fields \in SomeFields
  BY <1>1, <1>2 DEF OldWriter
<1> DEFINE old == replies[h.id]
<1>5. CASE h.what = "remove"
  <2>1. Merged(h) = [old EXCEPT !.active = FALSE]
    BY <1>5 DEF Merged
  <2> QED BY <1>3, <2>1 DEF ReplyRow
<1>6. CASE h.what # "remove"
  <2> DEFINE text == IF "text" \in DOMAIN h.fields THEN h.fields.text ELSE h.row.text
  <2>1. Merged(h) = [text |-> text, active |-> h.fields.active, version |-> old.version + 1]
    BY <1>6 DEF Merged
  <2>2. h.fields.active \in BOOLEAN
    BY <1>4 DEF SomeFields
  <2>3. text \in Texts
    BY <1>4 DEF SomeFields, ReplyRow
  <2>4. old.version \in Nat
    BY <1>3 DEF ReplyRow
  <2> HIDE DEF text, old
  <2>5. old.version + 1 \in Nat /\ old.version + 1 > old.version
    BY <2>4
  <2>6. Merged(h) \in ReplyRow /\ Merged(h).version = old.version + 1
    BY <2>1, <2>2, <2>3, <2>5 DEF ReplyRow
  <2> QED BY <1>3, <2>5, <2>6 DEF old
<1> QED BY <1>5, <1>6

LEMMA HandlerSteps ==
  ASSUME QuickInv, NEW h \in writers, CreateQuickReply(h) \/ ReadExisting(h) \/ WriteReply(h)
  PROVE  QuickInv'
<1>1. RepliesTyped /\ SupervisorsSound
  BY DEF QuickInv
<1>2. UNCHANGED <<page, agent, sending, sent, misled, drafts>>
  BY DEF CreateQuickReply, ReadExisting, WriteReply
<1>3. RowsKept /\ \/ writers' = writers \ {h}
                  \/ \E g \in OldWriter : g.id \in Stored /\ writers' = (writers \ {h}) \cup {g}
  <2>1. CASE CreateQuickReply(h)
    <3>1. h \in NewWriter /\ h.fields \in [text : Texts, active : BOOLEAN]
      BY <1>1, <2>1 DEF CreateQuickReply, SupervisorsSound, NewWriter, OldWriter
    <3> DEFINE row == [text |-> h.fields.text, active |-> h.fields.active, version |-> 1]
    <3>2. row \in ReplyRow
      BY <3>1 DEF ReplyRow
    <3>3. PICK r \in Replies \ Stored : PutReply(r, row)
      BY <2>1 DEF CreateQuickReply
    <3> HIDE DEF row
    <3>4. RowsKept
      BY <1>1, <3>2, <3>3, RowPut
    <3> QED BY <2>1, <3>4 DEF CreateQuickReply
  <2>2. CASE ReadExisting(h)
    <3>1. /\ h.what # "create" /\ UNCHANGED replies
          /\ writers' = (writers \ {h}) \cup {[h EXCEPT !.row = replies[h.id]]}
      BY <2>2 DEF ReadExisting
    <3>2. h \in OldWriter /\ h.id \in Stored
      BY <1>1, <3>1 DEF SupervisorsSound, NewWriter
    <3>3. replies[h.id] \in ReplyRow
      BY <1>1, <3>2, StoredRow
    <3>4. [h EXCEPT !.row = replies[h.id]] \in OldWriter /\ [h EXCEPT !.row = replies[h.id]].id \in Stored
      BY <3>2, <3>3 DEF OldWriter
    <3>5. RowsKept
      BY <1>1, <3>1, RowsSame
    <3> QED BY <3>1, <3>4, <3>5
  <2>3. CASE WriteReply(h)
    <3>1. PutReply(h.id, Merged(h)) /\ writers' = writers \ {h}
      BY <2>3 DEF WriteReply
    <3>2. RowsKept
      BY <1>1, <2>3, <3>1, MergedRow, RowPut
    <3> QED BY <3>1, <3>2
  <2> QED BY <2>1, <2>2, <2>3
<1>4. UNCHANGED <<items, form>>
  BY <1>2 DEF page
<1>5. SupervisorsSound'
  BY <1>1, <1>3, <1>4 DEF SupervisorsSound, RowsKept
<1>6. WindowSound' /\ DeliveriesSound' /\ OneAtATime'
  BY <1>2, <1>3, AgentUntouched
<1> QED BY <1>3, <1>5, <1>6 DEF QuickInv, RowsKept

(* The agent's window: chats, the search and its answer, the draft.        *)
LEMMA WindowSteps ==
  ASSUME QuickInv,
         \/ \E c \in Inbox : SelectChat(c)
         \/ TypeSlash \/ EraseSlash \/ SearchAnswers
         \/ \E item \in listed : HandleSelectQuickReply(item)
         \/ FillIn \/ CancelDraft
  PROVE  QuickInv'
<1>1. RepliesTyped /\ SupervisorsSound /\ WindowSound /\ DeliveriesSound /\ OneAtATime
  BY DEF QuickInv
<1>2. UNCHANGED <<replies, writers, items, form, sending, sent, misled>>
  BY DEF SelectChat, TypeSlash, EraseSlash, SearchAnswers, HandleSelectQuickReply, FillIn, CancelDraft, page
<1>3. RowsKept /\ SupervisorsSound'
  BY <1>1, <1>2, RowsSame, SupervisorsKept
<1>4. drafts \in Nat /\ (drafts' = drafts \/ drafts' = drafts + 1)
  BY <1>1 DEF WindowSound, SelectChat, TypeSlash, EraseSlash, SearchAnswers, HandleSelectQuickReply, FillIn,
              CancelDraft
<1>5. DeliveriesSound'
  BY <1>1, <1>2, <1>3, <1>4, DeliveriesKept
<1>6. WindowSound' /\ OneAtATime'
  <2>1. CASE \E c \in Inbox : SelectChat(c)
    <3>1. PICK c \in Inbox : SelectChat(c)
      BY <2>1
    <3>2. chat' = c /\ listed' = {} /\ draft' = NoDraft /\ kept' = kept /\ drafts' = drafts
      BY <3>1 DEF SelectChat, Cleared
    <3>3. WindowSound'
      BY <1>1, <1>3, <3>1, <3>2 DEF WindowSound, RowsKept
    <3> QED BY <1>1, <1>2, <3>2, <3>3, OneAtATimeKept
  <2>2. CASE TypeSlash
    <3>1. /\ draft = NoDraft /\ draft' = NoDraft /\ UNCHANGED <<chat, kept, drafts>>
          /\ listed' = listed \/ (kept # NoList /\ listed' = kept)
      BY <2>2 DEF TypeSlash
    <3>2. WindowSound'
      BY <1>1, <1>3, <3>1 DEF WindowSound, RowsKept
    <3> QED BY <1>1, <1>2, <3>1, <3>2, OneAtATimeKept
  <2>3. CASE EraseSlash
    <3>1. UNCHANGED <<chat, kept, draft, drafts>> /\ listed' = {}
      BY <2>3 DEF EraseSlash
    <3>2. WindowSound'
      <4>1. Seen(draft.item)' <=> Seen(draft.item)
        BY <1>2, <3>1 DEF Seen, Stored
      <4> QED BY <1>1, <1>3, <3>1, <4>1 DEF WindowSound, RowsKept
    <3> QED BY <1>1, <1>2, <3>1, <3>2 DEF OneAtATime, WellSent
  <2>4. CASE SearchAnswers
    <3>1. PICK results \in {Listing(Active), {}} : kept' = results /\ (listed' = results \/ listed' = listed)
      BY <2>4 DEF SearchAnswers, Suggest
    <3>2. UNCHANGED <<chat, draft, drafts>>
      BY <2>4 DEF SearchAnswers
    <3>3. Active \in SUBSET Stored
      BY DEF Active
    <3>4. results \subseteq ReplyItem /\ \A item \in results : Seen(item)
      BY <1>1, <3>1, <3>3, ListingShows
    <3>5. Seen(draft.item)' <=> Seen(draft.item)
      BY <1>2, <3>2 DEF Seen, Stored
    <3>6. WindowSound'
      BY <1>1, <1>3, <3>1, <3>2, <3>4, <3>5 DEF WindowSound, RowsKept
    <3> QED BY <1>1, <1>2, <3>2, <3>6 DEF OneAtATime, WellSent
  <2>5. CASE \E item \in listed : HandleSelectQuickReply(item)
    <3>1. PICK item \in listed : HandleSelectQuickReply(item)
      BY <2>5
    <3> DEFINE filled == Variables[item.text] = {}
    <3>2. /\ draft = NoDraft /\ UNCHANGED <<chat, kept>> /\ listed' = {} /\ drafts' = drafts + 1
          /\ draft' = [no |-> drafts, item |-> item, chat |-> chat, tries |-> 0, filled |-> filled]
      BY <3>1 DEF HandleSelectQuickReply
    <3>3. item \in ReplyItem /\ Seen(item)' /\ chat \in Inbox
      BY <1>1, <1>3, <3>1 DEF WindowSound, RowsKept
    <3>4. filled \in BOOLEAN
      OBVIOUS
    <3> HIDE DEF filled
    <3>5. draft' \in Composed /\ draft'.no = drafts /\ draft'.item = item /\ draft'.chat = chat
      BY <1>4, <3>2, <3>3, <3>4 DEF Composed
    <3>6. Seen(draft.item)'
      BY <3>3, <3>5 DEF Seen
    <3>7. drafts' \in Nat /\ drafts < drafts'
      BY <1>4, <3>2
    <3>8. WindowSound'
      BY <1>1, <1>3, <3>2, <3>3, <3>5, <3>6, <3>7 DEF WindowSound, RowsKept
    <3>9. \A m \in sent : draft'.no # m.draft.no
      BY <1>1, <1>4, <3>5 DEF DeliveriesSound, PostedSound
    <3> QED BY <1>1, <1>2, <3>8, <3>9, OneAtATimeKept
  <2>6. CASE FillIn
    <3>1. /\ draft # NoDraft /\ draft' = [draft EXCEPT !.filled = TRUE]
          /\ UNCHANGED <<chat, listed, kept, drafts>>
      BY <2>6 DEF FillIn, typing
    <3>2. draft \in Composed
      BY <1>1, <3>1 DEF WindowSound
    <3>3. /\ draft' \in Composed /\ draft'.item = draft.item /\ draft'.no = draft.no
          /\ draft'.chat = draft.chat
      BY <3>1, <3>2 DEF Composed
    <3>4. Seen(draft.item)' <=> Seen(draft.item)
      BY <1>2, <3>3 DEF Seen, Stored
    <3>5. WindowSound'
      BY <1>1, <1>3, <3>1, <3>3, <3>4 DEF WindowSound, RowsKept
    <3> QED BY <1>1, <1>2, <3>1, <3>3, <3>5, OneAtATimeKept
  <2>7. CASE CancelDraft
    <3>1. draft' = NoDraft /\ UNCHANGED <<chat, listed, kept, drafts>>
      BY <2>7 DEF CancelDraft, typing
    <3>2. WindowSound'
      BY <1>1, <1>3, <3>1 DEF WindowSound, RowsKept
    <3> QED BY <1>1, <1>2, <3>1, <3>2, OneAtATimeKept
  <2> QED BY <2>1, <2>2, <2>3, <2>4, <2>5, <2>6, <2>7
<1> QED BY <1>1, <1>3, <1>5, <1>6 DEF QuickInv, RowsKept

(* The draft is sent: nothing of it is out that was answered.              *)
LEMMA DraftSent ==
  ASSUME QuickInv, HandleSend
  PROVE  QuickInv'
<1>1. RepliesTyped /\ SupervisorsSound /\ WindowSound /\ DeliveriesSound /\ OneAtATime
  BY DEF QuickInv
<1>2. /\ draft # NoDraft /\ Waiting = {} /\ draft' = [draft EXCEPT !.tries = @ + 1]
      /\ UNCHANGED <<replies, writers, items, form, chat, listed, kept, sent, misled, drafts>>
  BY DEF HandleSend, page, typing
<1>3. RowsKept /\ SupervisorsSound'
  BY <1>1, <1>2, RowsSame, SupervisorsKept
<1>4. draft \in Composed /\ Seen(draft.item) /\ draft.chat = chat /\ draft.no < drafts
  BY <1>1, <1>2 DEF WindowSound
<1>5. PICK d : d = draft'
  OBVIOUS
<1>6. d \in Composed /\ d.item = draft.item /\ d.no = draft.no /\ d.chat = draft.chat
  BY <1>2, <1>4, <1>5 DEF Composed
<1>7. WindowSound'
  <2>1. Seen(draft.item)'
    BY <1>2, <1>4, <1>5, <1>6 DEF Seen, Stored
  <2> QED BY <1>1, <1>2, <1>3, <1>4, <1>5, <1>6, <2>1 DEF WindowSound, RowsKept
<1>8. PICK n : /\ n = [draft |-> d, chat |-> chat, at |-> "read", row |-> NoReply, heard |-> TRUE]
               /\ sending' = sending \cup {n}
  BY <1>5 DEF HandleSend
<1>9. n \in Delivery /\ n.draft = d /\ n.chat = chat /\ n.at = "read" /\ n.heard
  BY <1>1, <1>6, <1>8 DEF WindowSound, Delivery
<1>10. drafts \in Nat /\ drafts' = drafts
  BY <1>1, <1>2 DEF WindowSound
<1>11. DeliveriesSound'
  <2>1. DeliverySound(n)'
    <3>1. Seen(d.item)
      BY <1>4, <1>6
    <3>2. d.item \in ReplyItem
      BY <1>6 DEF Composed
    <3>3. Seen(d.item)'
      BY <1>3, <3>1, <3>2 DEF RowsKept
    <3> QED BY <1>4, <1>6, <1>9, <1>10, <3>3 DEF DeliverySound
  <2>2. \A s \in sending : DeliverySound(s)' /\ s \in Delivery
    BY <1>1, <1>3, <1>10, DeliveryKept
  <2>3. \A m \in sent : PostedSound(m)' /\ m \in Posted
    BY <1>1, <1>10, PostedKept
  <2> QED BY <1>2, <1>8, <1>9, <2>1, <2>2, <2>3 DEF DeliveriesSound
<1>12. OneAtATime'
  <2>1. \A s \in sending : ~s.heard /\ s.draft.no \in misled
    BY <1>1, <1>2 DEF OneAtATime, Waiting
  <2>2. \A m \in sent : m.draft.no \in misled \/ m.draft.no # d.no
    BY <1>1, <1>2, <1>6, <2>1 DEF OneAtATime, WellSent
  <2>3. ASSUME NEW m \in sent, m.draft.no \notin misled
        PROVE  WellSent(m)'
    <3>1. m.draft.no # d.no /\ WellSent(m)
      BY <1>1, <2>2, <2>3 DEF OneAtATime
    <3> QED BY <1>5, <1>8, <1>9, <3>1 DEF WellSent
  <2> QED BY <1>1, <1>2, <1>8, <1>9, <2>1, <2>3 DEF OneAtATime
<1> QED BY <1>3, <1>7, <1>11, <1>12 DEF QuickInv, RowsKept

(* The server reads the row that the draft was composed from.              *)
LEMMA RowRead ==
  ASSUME QuickInv, NEW s \in sending, ReadToSend(s)
  PROVE  \E t \in Delivery :
           /\ sending' = (sending \ {s}) \cup {t}
           /\ t.draft = s.draft /\ t.chat = s.chat /\ t.heard = s.heard
           /\ t.at = "send" => t.row \in ReplyRow /\ NoOlder(t.row, s.draft.item)
<1>1. s \in Delivery /\ Seen(s.draft.item) /\ RepliesTyped
  BY DEF QuickInv, DeliveriesSound, DeliverySound
<1> DEFINE row == replies[s.draft.item.id]
<1>2. row \in ReplyRow /\ NoOlder(row, s.draft.item)
  BY <1>1, StoredRow DEF Seen
<1> DEFINE t == IF Refuses(s, row) THEN [s EXCEPT !.at = "error"] ELSE [s EXCEPT !.at = "send", !.row = row]
<1>3. sending' = (sending \ {s}) \cup {t}
  BY DEF ReadToSend, Step
<1> HIDE DEF row
<1>4. CASE Refuses(s, row)
  <2>1. t = [s EXCEPT !.at = "error"]
    BY <1>4
  <2>2. t \in Delivery /\ t.draft = s.draft /\ t.chat = s.chat /\ t.heard = s.heard /\ t.at = "error"
    BY <1>1, <2>1 DEF Delivery
  <2> HIDE DEF t
  <2> QED BY <1>3, <2>2
<1>5. CASE ~Refuses(s, row)
  <2>1. t = [s EXCEPT !.at = "send", !.row = row]
    BY <1>5
  <2>2. t \in Delivery /\ t.draft = s.draft /\ t.chat = s.chat /\ t.heard = s.heard /\ t.row = row
    BY <1>1, <1>2, <2>1 DEF Delivery
  <2> HIDE DEF t
  <2> QED BY <1>2, <1>3, <2>2
<1> QED BY <1>4, <1>5

(* A request moves on or is forgotten, and no message goes out.            *)
LEMMA DeliveryMoves ==
  ASSUME QuickInv, UNCHANGED <<replies, writers, items, form, sent, drafts>>,
         UNCHANGED <<chat, listed, kept>>, draft' = draft \/ draft' = NoDraft,
         NEW s \in sending, NEW new \in SUBSET Delivery,
         sending' = (sending \ {s}) \cup new,
         \A t \in new : /\ new = {t} /\ t.draft = s.draft /\ t.chat = s.chat
                        /\ t.at = "send" => t.row \in ReplyRow /\ NoOlder(t.row, s.draft.item)
                        /\ t.heard => s.heard
                        /\ t.heard \/ s.draft.no \in misled',
         misled \subseteq misled',
         \/ s.draft.no \in misled'
         \/ s.at \notin IsOut
         \/ draft' = NoDraft /\ new = {}
         \/ new # {} /\ \A t \in new : t.at \in IsOut
  PROVE  QuickInv'
<1>1. RepliesTyped /\ SupervisorsSound /\ WindowSound /\ DeliveriesSound /\ OneAtATime
  BY DEF QuickInv
<1>2. RowsKept /\ SupervisorsSound'
  BY <1>1, RowsSame, SupervisorsKept
<1>3. WindowSound'
  <2>1. CASE draft' = draft
    BY <1>1, <1>2, <2>1, WindowKept
  <2>2. CASE draft' = NoDraft
    BY <1>1, <1>2, <2>2 DEF WindowSound, RowsKept
  <2> QED BY <2>1, <2>2
<1>4. drafts \in Nat /\ drafts' = drafts
  BY <1>1 DEF WindowSound
<1>5. DeliveriesSound'
  <2>1. \A r \in sending : DeliverySound(r)' /\ r \in Delivery
    BY <1>1, <1>2, <1>4, DeliveryKept
  <2>2. \A m \in sent : PostedSound(m)' /\ m \in Posted
    BY <1>1, <1>4, PostedKept
  <2>3. \A t \in new : DeliverySound(t)'
    BY <2>1 DEF DeliverySound
  <2> QED BY <2>1, <2>2, <2>3 DEF DeliveriesSound
<1>6. OneAtATime'
  <2>1. \A m \in sent : m.draft.no \in misled' \/ m.draft.no # s.draft.no \/ s.at \in IsOut
    BY <1>1 DEF OneAtATime, WellSent
  <2>2. \A r \in sending' : r.heard \/ r.draft.no \in misled'
    BY <1>1 DEF OneAtATime
  <2>3. \A r, t \in sending' : r.heard /\ t.heard => r = t
    BY <1>1 DEF OneAtATime
  <2>4. ASSUME NEW m \in sent, m.draft.no \notin misled'
        PROVE  WellSent(m)'
    <3>1. WellSent(m)
      BY <1>1, <2>4 DEF OneAtATime
    <3>2. CASE m.draft.no # s.draft.no
      BY <3>1, <3>2 DEF WellSent
    <3>3. CASE m.draft.no = s.draft.no
      <4>1. \/ draft' = NoDraft /\ new = {}
            \/ new # {} /\ \A t \in new : t.at \in IsOut
        BY <2>1, <2>4, <3>3
      <4>2. ASSUME NEW r \in sending', r.draft.no = m.draft.no
            PROVE  r.at \in IsOut
        BY <3>1, <4>1, <4>2 DEF WellSent
      <4>3. draft' = NoDraft \/ \E r \in sending' : r.draft.no = m.draft.no
        BY <3>3, <4>1
      <4> QED BY <4>2, <4>3 DEF WellSent
    <3> QED BY <3>2, <3>3
  <2> QED BY <1>1, <2>2, <2>3, <2>4 DEF OneAtATime
<1> QED BY <1>2, <1>3, <1>5, <1>6 DEF QuickInv, RowsKept

(* The requests that are under way.                                        *)
LEMMA DeliverySteps ==
  ASSUME QuickInv, NEW s \in sending,
         \/ ReadToSend(s) \/ RecordUse(s) \/ SendAnswers(s) \/ SendTimesOut(s) \/ Forgotten(s)
         \/ SendChatMessage(s) /\ sent' = sent
  PROVE  QuickInv'
<1>1. UNCHANGED <<replies, writers, items, form, sent, drafts>> /\ UNCHANGED <<chat, listed, kept>>
  BY DEF ReadToSend, RecordUse, SendAnswers, SendTimesOut, Forgotten, SendChatMessage, page, agent, typing
<1>2. s \in Delivery /\ DeliverySound(s) /\ (s.heard \/ s.draft.no \in misled)
  BY DEF QuickInv, DeliveriesSound, OneAtATime
<1>3. CASE ReadToSend(s)
  <2>1. s.at = "read" /\ draft' = draft /\ misled' = misled
    BY <1>3 DEF ReadToSend, agent
  <2>2. PICK t \in Delivery :
          /\ sending' = (sending \ {s}) \cup {t}
          /\ t.draft = s.draft /\ t.chat = s.chat /\ t.heard = s.heard
          /\ t.at = "send" => t.row \in ReplyRow /\ NoOlder(t.row, s.draft.item)
    BY <1>3, RowRead
  <2>3. {t} \in SUBSET Delivery
    BY <2>2
  <2> QED BY <1>1, <1>2, <2>1, <2>2, <2>3, DeliveryMoves DEF IsOut
<1>4. CASE SendAnswers(s)
  <2>1. s.heard /\ s.at \in {"ok", "error"} /\ sending' = sending \ {s} /\ misled' = misled
    BY <1>4 DEF SendAnswers
  <2>2. (s.at = "ok" /\ draft' = NoDraft) \/ (s.at \notin IsOut /\ draft' = draft)
    BY <1>4 DEF SendAnswers, IsOut
  <2>3. {} \in SUBSET Delivery /\ sending' = (sending \ {s}) \cup {}
    BY <2>1
  <2> QED BY <1>1, <2>1, <2>2, <2>3, DeliveryMoves
<1>5. CASE SendTimesOut(s)
  <2>1. misled' = misled \cup {s.draft.no} /\ draft' = draft /\ s.heard
    BY <1>5 DEF SendTimesOut, agent
  <2>2. CASE s.at \in {"ok", "error"}
    <3>1. sending' = (sending \ {s}) \cup {} /\ {} \in SUBSET Delivery
      BY <1>5, <2>2 DEF SendTimesOut
    <3> QED BY <1>1, <2>1, <3>1, DeliveryMoves
  <2>3. CASE s.at \notin {"ok", "error"}
    <3> DEFINE t == [s EXCEPT !.heard = FALSE]
    <3>1. sending' = (sending \ {s}) \cup {t}
      BY <1>5, <2>3 DEF SendTimesOut, Step
    <3>2. /\ t \in Delivery /\ t.draft = s.draft /\ t.chat = s.chat /\ t.at = s.at /\ t.row = s.row
          /\ ~t.heard
      BY <1>2 DEF Delivery
    <3>3. t.at = "send" => t.row \in ReplyRow /\ NoOlder(t.row, s.draft.item)
      BY <1>2, <3>2 DEF DeliverySound
    <3> HIDE DEF t
    <3>4. {t} \in SUBSET Delivery
      BY <3>2
    <3> QED BY <1>1, <2>1, <3>1, <3>2, <3>3, <3>4, DeliveryMoves
  <2> QED BY <2>2, <2>3
<1>6. CASE Forgotten(s)
  <2>1. ~s.heard /\ sending' = (sending \ {s}) \cup {} /\ draft' = draft /\ misled' = misled
    BY <1>6 DEF Forgotten, agent
  <2>2. {} \in SUBSET Delivery
    OBVIOUS
  <2> QED BY <1>1, <1>2, <2>1, <2>2, DeliveryMoves
<1>7. CASE RecordUse(s)
  <2>1. s.at = "out" /\ draft' = draft
    BY <1>7 DEF RecordUse, agent
  <2>2. \/ sending' = (sending \ {s}) \cup {[s EXCEPT !.at = "ok"]} /\ misled' = misled
        \/ sending' = (sending \ {s}) \cup {[s EXCEPT !.at = "error"]} /\ misled' = misled \cup {s.draft.no}
    BY <1>7 DEF RecordUse, Step
  <2>3. PICK t : /\ sending' = (sending \ {s}) \cup {t}
                 /\ \/ t = [s EXCEPT !.at = "ok"] /\ misled' = misled
                    \/ t = [s EXCEPT !.at = "error"] /\ misled' = misled \cup {s.draft.no}
    BY <2>2
  <2>4. /\ t \in Delivery /\ t.draft = s.draft /\ t.chat = s.chat /\ t.heard = s.heard
        /\ \/ t.at = "ok" /\ misled' = misled
           \/ t.at = "error" /\ misled' = misled \cup {s.draft.no}
    BY <1>2, <2>3 DEF Delivery
  <2>5. {t} \in SUBSET Delivery /\ misled \subseteq misled' /\ (s.heard \/ s.draft.no \in misled')
    BY <1>2, <2>4
  <2>6. t.at # "send" /\ (t.at \in IsOut \/ s.draft.no \in misled')
    BY <2>4 DEF IsOut
  <2>7. sending' = (sending \ {s}) \cup {t}
    BY <2>3
  <2>8. CASE s.draft.no \in misled'
    BY <1>1, <2>1, <2>4, <2>5, <2>6, <2>7, <2>8, DeliveryMoves
  <2>9. CASE t.at \in IsOut
    BY <1>1, <2>1, <2>4, <2>5, <2>6, <2>7, <2>9, DeliveryMoves
  <2> QED BY <2>6, <2>8, <2>9
<1>8. CASE SendChatMessage(s) /\ sent' = sent
  <2>1. s.at = "send" /\ draft' = draft /\ misled' = misled
    BY <1>8 DEF SendChatMessage, agent
  <2>2. PICK t : /\ sending' = (sending \ {s}) \cup {t}
                 /\ t = [s EXCEPT !.at = "out"] \/ t = [s EXCEPT !.at = "error"]
    BY <1>8 DEF SendChatMessage, Step
  <2>3. t \in Delivery /\ t.draft = s.draft /\ t.chat = s.chat /\ t.heard = s.heard /\ t.at # "send"
    BY <1>2, <2>2 DEF Delivery
  <2>4. {t} \in SUBSET Delivery /\ s.at \notin IsOut
    BY <2>1, <2>3 DEF IsOut
  <2>5. sending' = (sending \ {s}) \cup {t}
    BY <2>2
  <2> QED BY <1>1, <1>2, <2>1, <2>3, <2>4, <2>5, DeliveryMoves
<1> QED BY <1>3, <1>4, <1>5, <1>6, <1>7, <1>8

(* The message goes out: of its draft it is the first, or the window was   *)
(* misled about it.                                                        *)
LEMMA MessageSent ==
  ASSUME QuickInv, NEW s \in sending, SendChatMessage(s)
  PROVE  QuickInv'
<1>1. RepliesTyped /\ SupervisorsSound /\ WindowSound /\ DeliveriesSound /\ OneAtATime
  BY DEF QuickInv
<1> DEFINE m == [chat |-> s.chat, draft |-> s.draft, text |-> s.row.text, version |-> s.row.version]
           t == [s EXCEPT !.at = "out"]
<1>0. CASE sent' = sent
  BY <1>0, DeliverySteps
<1> SUFFICES ASSUME sent' # sent
             PROVE  QuickInv'
  BY <1>0
<1>2. /\ s.at = "send" /\ sent' = sent \cup {m} /\ sending' = (sending \ {s}) \cup {t}
      /\ UNCHANGED <<replies, writers, items, form, misled, drafts>>
      /\ UNCHANGED <<chat, listed, kept, draft>>
  BY DEF SendChatMessage, Step, page, agent, typing
<1>3. RowsKept /\ SupervisorsSound' /\ WindowSound'
  BY <1>1, <1>2, RowsSame, SupervisorsKept, WindowKept
<1>4. drafts \in Nat /\ drafts' = drafts
  BY <1>1, <1>2 DEF WindowSound
<1>5. s \in Delivery /\ DeliverySound(s) /\ DeliverySound(s)'
  BY <1>1, <1>3, <1>4, DeliveryKept DEF DeliveriesSound
<1>6. s.row \in ReplyRow /\ NoOlder(s.row, s.draft.item) /\ s.chat = s.draft.chat /\ s.draft.no < drafts
  BY <1>2, <1>5 DEF DeliverySound
<1>7. t \in Delivery /\ t.draft = s.draft /\ t.chat = s.chat /\ t.at = "out" /\ t.heard = s.heard
  BY <1>5 DEF Delivery
<1>8. m \in Posted /\ m.draft = s.draft /\ m.chat = s.chat /\ NoOlder(m, m.draft.item)
  BY <1>5, <1>6 DEF Posted, Delivery, ReplyRow, NoOlder
<1> HIDE DEF m, t
<1>9. DeliveriesSound'
  <2>1. \A r \in sending : DeliverySound(r)' /\ r \in Delivery
    BY <1>1, <1>3, <1>4, DeliveryKept
  <2>2. \A n \in sent : PostedSound(n)' /\ n \in Posted
    BY <1>1, <1>4, PostedKept
  <2>3. DeliverySound(t)'
    BY <1>5, <1>7 DEF DeliverySound
  <2>4. PostedSound(m)'
    BY <1>4, <1>6, <1>8 DEF PostedSound, NoOlder
  <2> QED BY <1>2, <1>7, <1>8, <2>1, <2>2, <2>3, <2>4 DEF DeliveriesSound
<1>10. OneAtATime'
  <2>1. \A n \in sent : n.draft.no \in misled \/ n.draft.no # s.draft.no
    BY <1>1, <1>2 DEF OneAtATime, WellSent, IsOut
  <2>2. \A r \in sending' : r.heard \/ r.draft.no \in misled'
    BY <1>1, <1>2, <1>7 DEF OneAtATime
  <2>3. \A r, u \in sending' : r.heard /\ u.heard => r = u
    BY <1>1, <1>2, <1>7 DEF OneAtATime
  <2>4. \A n, o \in sent' : o.draft.no = n.draft.no => o = n \/ n.draft.no \in misled'
    BY <1>1, <1>2, <1>8, <2>1 DEF OneAtATime
  <2>5. ASSUME NEW n \in sent', n.draft.no \notin misled'
        PROVE  WellSent(n)'
    <3>1. CASE n \in sent
      <4>1. WellSent(n) /\ n.draft.no # s.draft.no
        BY <1>1, <1>2, <2>1, <2>5, <3>1 DEF OneAtATime
      <4> QED BY <1>2, <1>7, <4>1 DEF WellSent
    <3>2. CASE n = m
      <4>1. \A r \in sending : r.draft.no = s.draft.no => r = s
        BY <1>1, <1>2, <1>8, <2>5, <3>2 DEF OneAtATime
      <4> QED BY <1>2, <1>7, <1>8, <3>2, <4>1 DEF WellSent, IsOut
    <3> QED BY <1>2, <3>1, <3>2
  <2> QED BY <2>2, <2>3, <2>4, <2>5 DEF OneAtATime
<1> QED BY <1>3, <1>9, <1>10 DEF QuickInv, RowsKept

LEMMA QuickStarts == QuickInit => QuickInv
<1> SUFFICES ASSUME QuickInit PROVE QuickInv
  OBVIOUS
<1>1. /\ writers = {} /\ items = Listing(Stored) /\ form = EmptyForm /\ chat \in Inbox
      /\ listed = {} /\ kept = NoList /\ draft = NoDraft /\ sending = {} /\ sent = {} /\ drafts = 0
  BY DEF QuickInit
<1>2. RepliesTyped
  <2>1. PICK r \in Replies :
          replies = [s \in Replies |-> IF s = r THEN [text |-> 1, active |-> TRUE, version |-> 1] ELSE NoReply]
    BY DEF QuickInit
  <2>2. [text |-> 1, active |-> TRUE, version |-> 1] \in ReplyRow
    BY QuickConstants DEF ReplyRow
  <2> QED BY <2>1, <2>2 DEF RepliesTyped
<1>3. items \subseteq ReplyItem /\ \A item \in items : item.id \in Stored
  BY <1>1, <1>2, ListingShows
<1>4. form \in [id : Replies \cup {NoReply}, text : Texts, active : BOOLEAN] /\ form.id = NoReply
  BY <1>1, QuickConstants DEF EmptyForm
<1>5. SupervisorsSound
  BY <1>1, <1>3, <1>4 DEF SupervisorsSound
<1>6. WindowSound
  BY <1>1 DEF WindowSound
<1>7. DeliveriesSound /\ OneAtATime
  BY <1>1 DEF DeliveriesSound, OneAtATime
<1> QED BY <1>2, <1>5, <1>6, <1>7 DEF QuickInv

(* Rows only become newer, what shows them and what is under way is never  *)
(* newer than they are, and of a draft there is one request at a time.     *)
THEOREM QuickInvariant == QuickSpec => []QuickInv
<1>1. QuickInit => QuickInv
  BY QuickStarts
<1>2. QuickInv /\ [QuickNext]_quickVars => QuickInv'
  <2> SUFFICES ASSUME QuickInv, [QuickNext]_quickVars PROVE QuickInv'
    OBVIOUS
  <2>1. CASE UNCHANGED quickVars
    <3>1. UNCHANGED <<replies, writers, items, form, agent, sending, sent, misled, drafts>>
      BY <2>1 DEF quickVars, page
    <3>2. RowsKept /\ SupervisorsSound'
      BY <3>1, RowsSame, SupervisorsKept DEF QuickInv
    <3>3. WindowSound' /\ DeliveriesSound' /\ OneAtATime'
      BY <3>1, <3>2, AgentUntouched
    <3> QED BY <3>2, <3>3 DEF QuickInv, RowsKept
  <2>2. CASE QuickNext
    <3>1. CASE \/ LoadQuickReplies
               \/ \E item \in items : EditReply(item) \/ HandleToggle(item)
               \/ \E text \in Texts, on \in BOOLEAN : HandleSubmit(text, on)
      BY <3>1, PageOfReplies
    <3>2. CASE \E h \in writers : CreateQuickReply(h) \/ ReadExisting(h) \/ WriteReply(h)
      BY <3>2, HandlerSteps
    <3>3. CASE \/ \E c \in Inbox : SelectChat(c)
               \/ TypeSlash \/ EraseSlash \/ SearchAnswers
               \/ \E item \in listed : HandleSelectQuickReply(item)
               \/ FillIn \/ CancelDraft
      BY <3>3, WindowSteps
    <3>4. CASE HandleSend
      BY <3>4, DraftSent
    <3>5. CASE \/ \E s \in sending : ReadToSend(s) \/ RecordUse(s)
               \/ \E s \in sending : SendAnswers(s) \/ SendTimesOut(s) \/ Forgotten(s)
      BY <3>5, DeliverySteps
    <3>6. CASE \E s \in sending : SendChatMessage(s)
      BY <3>6, MessageSent
    <3> QED BY <2>2, <3>1, <3>2, <3>3, <3>4, <3>5, <3>6 DEF QuickNext
  <2> QED BY <2>1, <2>2
<1> QED BY <1>1, <1>2, PTL DEF QuickSpec

(* A quick reply goes out to the chat it was composed in, with the text    *)
(* shown unless it has a newer one, and once unless an answer did not come *)
(* in time or was an error although the message was out.                   *)
THEOREM SentAsComposed == QuickSpec => []AsComposed
<1>1. QuickInv => AsComposed
  BY DEF QuickInv, DeliveriesSound, PostedSound, NoOlder, OneAtATime, AsComposed
<1> QED BY <1>1, QuickInvariant, PTL

-----------------------------------------------------------------------------
(* The page of queues: types.                                              *)
QueueRow  == [name : Names, active : BOOLEAN, deleted : BOOLEAN]
SomeQueue == QueueIds \cup {NoId}

People       == SUBSET Listable
DialogAnswer == People \cup {NoAnswer, Failed}

DialogCall ==
  [n : Nat, what : {"load", "add", "remove"}, queue : QueueIds, who : People, answer : DialogAnswer]

QueueSave == [what : {"create", "update"}, id : SomeQueue, fields : [name : Names, active : BOOLEAN],
              pc : {"asked", "free", "refused", "done"}]
QueueDeletion == [what : {"delete"}, id : SomeQueue, fields : [name : {NoId}, active : BOOLEAN],
                  pc : {"asked", "refused", "done"}]

QueuesTypes ==
  /\ queues \in [QueueIds -> QueueRow \cup {NoId}] /\ inQueue \in [QueueIds -> People]
  /\ offered \subseteq QueueIds /\ queueForm \in BOOLEAN /\ editing \in SomeQueue
  /\ write \in {NoId} \cup QueueSave \cup QueueDeletion
  /\ dialog \in [open : BOOLEAN, queue : SomeQueue]
  /\ dialog.open <=> dialog.queue # NoId
  /\ list \in [of : SomeQueue, who : People]
  /\ loading \in BOOLEAN /\ crossed \in BOOLEAN /\ pending \subseteq DialogCall
  /\ callsMade \in 0..MaxCallsMade /\ saves \in 0..MaxSaves /\ failures \in 0..MaxFailures

(* Unless the page rendered during a call, an open dialog has one call at  *)
(* most, about its own queue, and while it has one its buttons are         *)
(* disabled; a closed one has none.                                        *)
OneCall ==
  ~crossed =>
    /\ ~loading => pending = {}
    /\ \A c \in pending : pending = {c} /\ c.queue = dialog.queue

ListOfTheQueue == ~crossed /\ dialog.open /\ ~loading => list.of = dialog.queue

QueuesInv == QueuesTypes /\ OneCall /\ ListOfTheQueue

LEMMA QueuesConstants ==
  /\ MaxSaves \in Nat /\ MaxCallsMade \in Nat /\ MaxFailures \in Nat /\ NoId \notin QueueIds
BY QueuesAssumption

(* What a call leaves of the types, and under way.                         *)
CallAdded(q, rest) == \E c \in DialogCall : c.queue = q /\ pending' = rest \cup {c}

LEMMA CallTyped ==
  ASSUME QueuesTypes, NEW what \in {"load", "add", "remove"}, NEW q \in QueueIds, NEW who \in People,
         NEW rest \in SUBSET pending, AskServer(what, q, who, rest)
  PROVE  /\ callsMade' \in 0..MaxCallsMade /\ loading' = TRUE /\ pending' \subseteq DialogCall
         /\ CallAdded(q, rest)
<1> DEFINE c == [n |-> callsMade, what |-> what, queue |-> q, who |-> who, answer |-> NoAnswer]
<1>1. callsMade \in Nat /\ callsMade' \in 0..MaxCallsMade
  BY QueuesConstants DEF QueuesTypes, AskServer
<1>2. c \in DialogCall /\ c.queue = q
  <2>1. NoAnswer \in DialogAnswer
    BY DEF DialogAnswer
  <2> QED BY <1>1, <2>1 DEF DialogCall
<1>3. pending' = rest \cup {c} /\ loading' = TRUE
  BY DEF AskServer
<1> HIDE DEF c
<1> QED BY <1>1, <1>2, <1>3 DEF QueuesTypes, CallAdded

(* The dialog loads its list, and so keeps the invariant when it is alone. *)
LEMMA Loads ==
  ASSUME QueuesInv, NEW q \in QueueIds, NEW rest \in SUBSET pending, NEW alone \in BOOLEAN,
         LoadMembers(q, rest, alone),
         dialog' \in [open : BOOLEAN, queue : SomeQueue], dialog'.open <=> dialog'.queue # NoId,
         list' = list,
         alone => rest = {} /\ q = dialog'.queue,
         ~alone => crossed \/ dialog.open
  PROVE  /\ callsMade' \in 0..MaxCallsMade /\ loading' \in BOOLEAN /\ pending' \subseteq DialogCall
         /\ crossed' \in BOOLEAN /\ (OneCall /\ ListOfTheQueue)'
<1>1. /\ callsMade' \in 0..MaxCallsMade /\ loading' = TRUE /\ pending' \subseteq DialogCall
      /\ CallAdded(q, rest)
  <2>1. {} \in People /\ QueuesTypes /\ AskServer("load", q, {}, rest)
    BY DEF People, LoadMembers, QueuesInv
  <2>2. "load" \in {"load", "add", "remove"}
    OBVIOUS
  <2> HIDE DEF People
  <2>3. rest \in SUBSET pending
    OBVIOUS
  <2>4. callsMade' \in 0..MaxCallsMade /\ loading' = TRUE /\ pending' \subseteq DialogCall
    BY <2>1, <2>2, <2>3, CallTyped
  <2>5. CallAdded(q, rest)
    BY <2>1, <2>2, <2>3, CallTyped
  <2> QED BY <2>4, <2>5
<1>2. crossed' = (~alone /\ (crossed \/ dialog.open))
  BY DEF LoadMembers
<1>3. crossed' \in BOOLEAN /\ (~crossed' => alone)
  BY <1>2
<1>4. PICK c \in DialogCall : c.queue = q /\ pending' = rest \cup {c}
  BY <1>1 DEF CallAdded
<1>5. ~crossed' => pending' = {c} /\ c.queue = dialog'.queue
  BY <1>3, <1>4
<1> QED BY <1>1, <1>3, <1>5 DEF OneCall, ListOfTheQueue

(* The page renders.                                                       *)
LEMMA QueuesRenders ==
  ASSUME QueuesInv, NEW rest \in SUBSET pending, Renders(rest)
  PROVE  /\ dialog' = dialog /\ list' = list
         /\ callsMade' \in 0..MaxCallsMade /\ loading' \in BOOLEAN /\ pending' \subseteq DialogCall
         /\ crossed' \in BOOLEAN /\ (OneCall /\ ListOfTheQueue)'
<1>1. dialog' = dialog /\ list' = list
  BY DEF Renders
<1>2. CASE dialog.open
  <2>1. LoadMembers(dialog.queue, rest, rest = {})
    BY <1>2 DEF Renders
  <2>2. dialog.queue \in QueueIds /\ dialog \in [open : BOOLEAN, queue : SomeQueue]
    BY <1>2 DEF QueuesInv, QueuesTypes, SomeQueue
  <2>3. (rest = {}) \in BOOLEAN
    OBVIOUS
  <2>4. dialog'.open <=> dialog'.queue # NoId
    BY <1>1 DEF QueuesInv, QueuesTypes
  <2> QED BY <1>1, <1>2, <2>1, <2>2, <2>3, <2>4, Loads
<1>3. CASE ~dialog.open
  <2>1. pending' = rest /\ loading' = FALSE /\ UNCHANGED <<dialog, list, crossed, callsMade>>
    BY <1>3 DEF Renders
  <2>2. ~crossed => pending = {}
    BY <1>3, QueuesConstants DEF QueuesInv, OneCall, QueuesTypes, DialogCall
  <2> QED BY <1>3, <2>1, <2>2 DEF QueuesInv, QueuesTypes, OneCall, ListOfTheQueue
<1> QED BY <1>2, <1>3

(* The dialog opens, closes, and asks for changes.                         *)
DialogSound ==
  /\ dialog \in [open : BOOLEAN, queue : SomeQueue] /\ (dialog.open <=> dialog.queue # NoId)
  /\ callsMade \in 0..MaxCallsMade /\ loading \in BOOLEAN /\ pending \subseteq DialogCall
  /\ crossed \in BOOLEAN /\ OneCall /\ ListOfTheQueue

LEMMA DialogOpened ==
  ASSUME QueuesInv, NEW q \in offered, OpenDialog(q)
  PROVE  DialogSound'
<1>1. q \in QueueIds /\ q # NoId /\ q \in SomeQueue
  BY QueuesConstants DEF QueuesInv, QueuesTypes, SomeQueue
<1>2. /\ dialog' = [open |-> TRUE, queue |-> q] /\ LoadMembers(q, pending, pending = {}) /\ list' = list
      /\ ~dialog.open
  BY DEF OpenDialog
<1>3. /\ dialog' \in [open : BOOLEAN, queue : SomeQueue] /\ (dialog'.open <=> dialog'.queue # NoId)
      /\ dialog'.queue = q
  BY <1>1, <1>2
<1>4. pending # {} => crossed
  BY <1>2, QueuesConstants DEF QueuesInv, QueuesTypes, OneCall, DialogCall
<1>5. (pending = {}) \in BOOLEAN /\ pending \in SUBSET pending
  OBVIOUS
<1>6. /\ callsMade' \in 0..MaxCallsMade /\ loading' \in BOOLEAN /\ pending' \subseteq DialogCall
      /\ crossed' \in BOOLEAN /\ (OneCall /\ ListOfTheQueue)'
  BY <1>1, <1>2, <1>3, <1>4, <1>5, Loads
<1> QED BY <1>3, <1>6 DEF DialogSound

LEMMA DialogClosed ==
  ASSUME QueuesInv, CloseDialog
  PROVE  DialogSound'
<1>1. /\ dialog' = [open |-> FALSE, queue |-> NoId] /\ ~loading
      /\ UNCHANGED <<list, loading, pending, crossed, callsMade>>
  BY DEF CloseDialog
<1>2. /\ dialog' \in [open : BOOLEAN, queue : SomeQueue] /\ (dialog'.open <=> dialog'.queue # NoId)
  BY <1>1 DEF SomeQueue
<1>3. (OneCall /\ ListOfTheQueue)'
  BY <1>1 DEF QueuesInv, OneCall, ListOfTheQueue
<1> QED BY <1>1, <1>2, <1>3 DEF DialogSound, QueuesInv, QueuesTypes

LEMMA ChangeAsked ==
  ASSUME QueuesInv, NEW u \in Listable, HandleAdd(u) \/ HandleRemove(u)
  PROVE  DialogSound'
<1>1. /\ dialog.open /\ ~loading /\ dialog' = dialog /\ list' = list /\ crossed' = crossed
      /\ \E what \in {"load", "add", "remove"} : AskServer(what, dialog.queue, {u}, pending)
  BY DEF HandleAdd, HandleRemove
<1>2. dialog.queue \in QueueIds /\ {u} \in People /\ QueuesTypes /\ pending \in SUBSET pending
  BY <1>1 DEF QueuesInv, QueuesTypes, SomeQueue, People
<1>3. /\ callsMade' \in 0..MaxCallsMade /\ loading' = TRUE /\ pending' \subseteq DialogCall
      /\ CallAdded(dialog.queue, pending)
  <2>1. PICK what \in {"load", "add", "remove"} : AskServer(what, dialog.queue, {u}, pending)
    BY <1>1
  <2> QED BY <1>2, <2>1, CallTyped, Zenon
<1>4. ~crossed => pending = {}
  BY <1>1 DEF QueuesInv, OneCall
<1>5. (OneCall /\ ListOfTheQueue)'
  BY <1>1, <1>3, <1>4 DEF OneCall, ListOfTheQueue, CallAdded
<1> QED BY <1>1, <1>3, <1>5 DEF DialogSound, QueuesInv, QueuesTypes

(* The server answers a call, or it fails.                                 *)
LEMMA CallAnswered ==
  ASSUME QueuesInv, NEW c \in pending, NEW answer \in DialogAnswer, GetsAnswer(c, answer),
         UNCHANGED <<dialog, list, loading, crossed, callsMade>>
  PROVE  DialogSound'
<1> DEFINE d == [c EXCEPT !.answer = answer]
<1>1. c \in DialogCall /\ pending \subseteq DialogCall
  BY DEF QueuesInv, QueuesTypes
<1>2. d \in DialogCall /\ d.queue = c.queue
  BY <1>1 DEF DialogCall
<1>3. pending' = (pending \ {c}) \cup {d}
  BY DEF GetsAnswer
<1> HIDE DEF d
<1>4. pending' \subseteq DialogCall
  BY <1>1, <1>2, <1>3
<1>5. ~crossed => pending = {c} /\ pending' = {d} /\ d.queue = dialog.queue /\ loading
  BY <1>2, <1>3 DEF QueuesInv, OneCall
<1>6. (OneCall /\ ListOfTheQueue)'
  BY <1>5 DEF OneCall, ListOfTheQueue
<1> QED BY <1>4, <1>6 DEF DialogSound, QueuesInv, QueuesTypes

LEMMA MembersShown ==
  ASSUME QueuesInv, NEW c \in pending, ShowMembers(c)
  PROVE  DialogSound' /\ list' \in [of : SomeQueue, who : People]
<1>1. /\ c.answer \notin {NoAnswer, Failed} /\ list' = [of |-> c.queue, who |-> c.answer]
      /\ loading' = FALSE /\ pending' = pending \ {c} /\ UNCHANGED <<dialog, crossed, callsMade>>
  BY DEF ShowMembers
<1>2. c \in DialogCall /\ pending \subseteq DialogCall
  BY DEF QueuesInv, QueuesTypes
<1>3. c.queue \in SomeQueue /\ c.answer \in People
  BY <1>1, <1>2 DEF DialogCall, DialogAnswer, SomeQueue, People
<1>4. list' \in [of : SomeQueue, who : People] /\ list'.of = c.queue
  BY <1>1, <1>3
<1>5. ~crossed => pending = {c} /\ c.queue = dialog.queue
  BY DEF QueuesInv, OneCall
<1>6. (OneCall /\ ListOfTheQueue)'
  BY <1>1, <1>4, <1>5 DEF OneCall, ListOfTheQueue
<1> QED BY <1>1, <1>2, <1>4, <1>6 DEF DialogSound, QueuesInv, QueuesTypes

LEMMA ChangeShown ==
  ASSUME QueuesInv, NEW c \in pending, ShowChange(c)
  PROVE  DialogSound'
<1> DEFINE alone == pending = {c} /\ c.queue = dialog.queue
<1>1. LoadMembers(c.queue, pending \ {c}, alone) /\ dialog' = dialog /\ list' = list
  BY DEF ShowChange
<1>2. c.queue \in QueueIds
  BY DEF QueuesInv, QueuesTypes, DialogCall
<1>3. dialog' \in [open : BOOLEAN, queue : SomeQueue] /\ (dialog'.open <=> dialog'.queue # NoId)
  BY <1>1 DEF QueuesInv, QueuesTypes
<1>4. (alone => pending \ {c} = {} /\ c.queue = dialog'.queue) /\ (~alone => crossed) /\ alone \in BOOLEAN
  BY <1>1 DEF QueuesInv, OneCall
<1>5. pending \ {c} \in SUBSET pending
  OBVIOUS
<1> HIDE DEF alone
<1>6. /\ callsMade' \in 0..MaxCallsMade /\ loading' \in BOOLEAN /\ pending' \subseteq DialogCall
      /\ crossed' \in BOOLEAN /\ (OneCall /\ ListOfTheQueue)'
  BY <1>1, <1>2, <1>3, <1>4, <1>5, Loads
<1> QED BY <1>3, <1>6 DEF DialogSound

LEMMA RenderedSound ==
  ASSUME QueuesInv, NEW rest \in SUBSET pending, Renders(rest)
  PROVE  DialogSound' /\ list' = list
BY QueuesRenders DEF DialogSound, QueuesInv, QueuesTypes

(* A step that leaves the dialog alone.                                    *)
LEMMA DialogUntouched ==
  ASSUME QueuesInv, UNCHANGED lister
  PROVE  DialogSound' /\ list' = list
<1>1. UNCHANGED <<dialog, list, loading, pending, crossed, callsMade>>
  BY DEF lister
<1> QED BY <1>1 DEF DialogSound, QueuesInv, QueuesTypes, OneCall, ListOfTheQueue

(* The page, and what the server keeps.                                    *)
PageTypes ==
  /\ queues \in [QueueIds -> QueueRow \cup {NoId}] /\ inQueue \in [QueueIds -> People]
  /\ offered \subseteq QueueIds /\ queueForm \in BOOLEAN /\ editing \in SomeQueue
  /\ write \in {NoId} \cup QueueSave \cup QueueDeletion
  /\ saves \in 0..MaxSaves /\ failures \in 0..MaxFailures

ListTyped == list \in [of : SomeQueue, who : People]

LEMMA QueuesParts == QueuesInv <=> PageTypes /\ DialogSound /\ ListTyped
BY DEF QueuesInv, QueuesTypes, PageTypes, DialogSound, ListTyped

LEMMA FailureCounted ==
  ASSUME PageTypes, Failure
  PROVE  failures' \in 0..MaxFailures
BY QueuesConstants DEF PageTypes, Failure

(* The steps of the dialog leave the page as it is.                        *)
LEMMA DialogSteps ==
  ASSUME QueuesInv,
         \/ \E q \in offered : OpenDialog(q)
         \/ \E u \in Listable : HandleAdd(u) \/ HandleRemove(u)
         \/ CloseDialog
         \/ PageRenders
         \/ \E c \in pending : CallFails(c) \/ ShowMembers(c) \/ ShowChange(c) \/ ShowFailure(c)
  PROVE  QueuesInv'
<1>1. PageTypes /\ ListTyped
  BY QueuesParts
<1>2. (UNCHANGED <<tables, queuePage, saves, failures>>) => PageTypes'
  BY <1>1 DEF PageTypes, tables, queuePage
<1>3. (UNCHANGED <<tables, queuePage, saves>> /\ Failure) => PageTypes'
  BY <1>1, FailureCounted DEF PageTypes, tables, queuePage
<1>4. list' = list => ListTyped'
  BY <1>1 DEF ListTyped
<1>5. CASE \E q \in offered : OpenDialog(q)
  <2>1. PICK q \in offered : OpenDialog(q)
    BY <1>5
  <2>2. (UNCHANGED <<tables, queuePage, saves, failures>>) /\ list' = list
    BY <2>1 DEF OpenDialog
  <2>3. DialogSound'
    BY <2>1, DialogOpened
  <2> QED BY <1>2, <1>4, <2>2, <2>3, QueuesParts, PTL
<1>6. CASE \E u \in Listable : HandleAdd(u) \/ HandleRemove(u)
  <2>1. PICK u \in Listable : HandleAdd(u) \/ HandleRemove(u)
    BY <1>6
  <2>2. (UNCHANGED <<tables, queuePage, saves, failures>>) /\ list' = list
    BY <2>1 DEF HandleAdd, HandleRemove
  <2>3. DialogSound'
    BY <2>1, ChangeAsked
  <2> QED BY <1>2, <1>4, <2>2, <2>3, QueuesParts, PTL
<1>7. CASE CloseDialog
  <2>1. (UNCHANGED <<tables, queuePage, saves, failures>>) /\ list' = list
    BY <1>7 DEF CloseDialog
  <2>2. DialogSound'
    BY <1>7, DialogClosed
  <2> QED BY <1>2, <1>4, <2>1, <2>2, QueuesParts, PTL
<1>8. CASE PageRenders
  <2>1. (UNCHANGED <<tables, queuePage, saves>>) /\ Failure /\ Renders(pending) /\ pending \in SUBSET pending
    BY <1>8 DEF PageRenders
  <2>2. DialogSound' /\ list' = list
    BY <2>1, RenderedSound
  <2> QED BY <1>3, <1>4, <2>1, <2>2, QueuesParts, PTL
<1>9. CASE \E c \in pending : CallFails(c) \/ ShowMembers(c) \/ ShowChange(c) \/ ShowFailure(c)
  <2>1. PICK c \in pending : CallFails(c) \/ ShowMembers(c) \/ ShowChange(c) \/ ShowFailure(c)
    BY <1>9
  <2>2. CASE CallFails(c)
    <3>1. /\ UNCHANGED <<tables, queuePage, saves>> /\ Failure /\ list' = list
          /\ GetsAnswer(c, Failed) /\ UNCHANGED <<dialog, list, loading, crossed, callsMade>>
      BY <2>2 DEF CallFails
    <3>2. Failed \in DialogAnswer
      BY DEF DialogAnswer
    <3>3. DialogSound'
      BY <3>1, <3>2, CallAnswered
    <3> QED BY <1>3, <1>4, <3>1, <3>3, QueuesParts, PTL
  <2>3. CASE ShowMembers(c)
    <3>1. UNCHANGED <<tables, queuePage, saves, failures>>
      BY <2>3 DEF ShowMembers
    <3>2. DialogSound' /\ ListTyped'
      BY <2>3, MembersShown DEF ListTyped
    <3> QED BY <1>2, <3>1, <3>2, QueuesParts, PTL
  <2>4. CASE ShowChange(c)
    <3>1. (UNCHANGED <<tables, queuePage, saves, failures>>) /\ list' = list
      BY <2>4 DEF ShowChange
    <3>2. DialogSound'
      BY <2>4, ChangeShown
    <3> QED BY <1>2, <1>4, <3>1, <3>2, QueuesParts, PTL
  <2>5. CASE ShowFailure(c)
    <3>1. /\ UNCHANGED <<tables, queuePage, saves, failures>>
          /\ Renders(pending \ {c}) /\ pending \ {c} \in SUBSET pending
      BY <2>5 DEF ShowFailure
    <3>2. DialogSound' /\ list' = list
      BY <3>1, RenderedSound
    <3> QED BY <1>2, <1>4, <3>1, <3>2, QueuesParts, PTL
  <2> QED BY <2>1, <2>2, <2>3, <2>4, <2>5
<1> QED BY <1>5, <1>6, <1>7, <1>8, <1>9

(* The server serves a call.                                               *)
LEMMA DialogServed ==
  ASSUME QueuesInv, NEW c \in pending, ServeDialog(c)
  PROVE  QueuesInv'
<1> DEFINE answer == IF c.queue \in Live THEN inQueue[c.queue] ELSE Failed
<1>1. /\ GetsAnswer(c, answer)
      /\ UNCHANGED <<queues, queuePage, dialog, list, loading, crossed, callsMade, saves, failures>>
  BY DEF ServeDialog
<1>2. c \in DialogCall /\ inQueue \in [QueueIds -> People] /\ PageTypes /\ ListTyped
  BY QueuesParts DEF QueuesInv, QueuesTypes
<1>3. c.queue \in QueueIds /\ c.who \in People
  BY <1>2 DEF DialogCall
<1>4. answer \in DialogAnswer
  BY <1>2, <1>3 DEF DialogAnswer
<1> HIDE DEF answer
<1>5. DialogSound'
  BY <1>1, <1>4, CallAnswered
<1>6. inQueue' \in [QueueIds -> People]
  <2> DEFINE before == inQueue[c.queue]
             after  == CASE c.what = "add" -> before \cup c.who
                         [] c.what = "remove" -> before \ c.who
                         [] OTHER -> before
  <2>1. before \in People /\ before \cup c.who \in People /\ before \ c.who \in People
    BY <1>2, <1>3 DEF People
  <2>2. after \in People
    BY <2>1
  <2>3. inQueue' = inQueue \/ inQueue' = [inQueue EXCEPT ![c.queue] = after]
    BY DEF ServeDialog
  <2> HIDE DEF after, before
  <2> QED BY <1>2, <1>3, <2>2, <2>3
<1>7. PageTypes' /\ ListTyped'
  BY <1>1, <1>2, <1>6 DEF PageTypes, ListTyped, queuePage
<1> QED BY <1>5, <1>7, QueuesParts, PTL

(* The form, the writes of the page, and another supervisor: all of them   *)
(* but the answer of a write leave the dialog as it is.                    *)
LEMMA PageSteps ==
  ASSUME QueuesInv,
         \/ \E q \in offered : Edit(q) \/ DeleteQueue(q)
         \/ NewQueue \/ CloseForm
         \/ \E name \in Names, on \in BOOLEAN : SubmitQueue(name, on)
         \/ CheckName
  PROVE  QueuesInv'
<1>1. PageTypes /\ ListTyped
  BY QueuesParts
<1>2. UNCHANGED lister => DialogSound' /\ ListTyped'
  BY <1>1, DialogUntouched DEF ListTyped
<1>3. ASSUME NEW q \in SomeQueue, OpenForm(q)
      PROVE  PageTypes' /\ UNCHANGED lister
  BY <1>1, <1>3 DEF OpenForm, PageTypes, tables
<1>4. ASSUME NEW what \in {"create", "update", "delete"}, NEW q \in SomeQueue, NEW fields, Ask(what, q, fields),
             [what |-> what, id |-> q, fields |-> fields, pc |-> "asked"] \in QueueSave \cup QueueDeletion
      PROVE  PageTypes' /\ UNCHANGED lister
  BY <1>1, <1>4, QueuesConstants DEF Ask, PageTypes, tables
<1>5. CASE \E q \in offered : Edit(q) \/ DeleteQueue(q)
  <2>1. PICK q \in offered : Edit(q) \/ DeleteQueue(q)
    BY <1>5
  <2>2. q \in SomeQueue
    BY <1>1, <2>1 DEF PageTypes, SomeQueue
  <2>3. CASE Edit(q)
    <3>1. PageTypes' /\ UNCHANGED lister
      BY <1>3, <2>2, <2>3 DEF Edit
    <3> QED BY <1>2, <3>1, QueuesParts, PTL
  <2>4. CASE DeleteQueue(q)
    <3>1. Ask("delete", q, [name |-> NoId, active |-> FALSE])
      BY <2>4 DEF DeleteQueue
    <3>2. [what |-> "delete", id |-> q, fields |-> [name |-> NoId, active |-> FALSE], pc |-> "asked"]
            \in QueueDeletion
      BY <2>2 DEF QueueDeletion
    <3>3. PageTypes' /\ UNCHANGED lister
      BY <1>4, <2>2, <3>1, <3>2
    <3> QED BY <1>2, <3>3, QueuesParts, PTL
  <2> QED BY <2>1, <2>3, <2>4
<1>6. CASE NewQueue
  <2>1. PageTypes' /\ UNCHANGED lister
    BY <1>1, <1>3, <1>6 DEF NewQueue, PageTypes
  <2> QED BY <1>2, <2>1, QueuesParts, PTL
<1>7. CASE CloseForm
  <2>1. PageTypes' /\ UNCHANGED lister
    BY <1>1, <1>7 DEF CloseForm, PageTypes, tables
  <2> QED BY <1>2, <2>1, QueuesParts, PTL
<1>8. CASE \E name \in Names, on \in BOOLEAN : SubmitQueue(name, on)
  <2>1. PICK name \in Names, on \in BOOLEAN : SubmitQueue(name, on)
    BY <1>8
  <2>2. PICK what \in {"create", "update"} : Ask(what, editing, [name |-> name, active |-> on])
    BY <2>1 DEF SubmitQueue
  <2>3. editing \in SomeQueue
    BY <1>1 DEF PageTypes
  <2>4. [what |-> what, id |-> editing, fields |-> [name |-> name, active |-> on], pc |-> "asked"]
          \in QueueSave
    BY <2>1, <2>2, <2>3 DEF QueueSave
  <2>5. PageTypes' /\ UNCHANGED lister
    BY <1>4, <2>2, <2>3, <2>4
  <2> QED BY <1>2, <2>5, QueuesParts, PTL
<1>9. CASE CheckName
  <2>1. write \in QueueSave /\ write.what = "create"
    BY <1>1, <1>9 DEF CheckName, PageTypes, QueueDeletion
  <2>2. write' \in QueueSave
    BY <1>9, <2>1 DEF CheckName, QueueSave
  <2>3. (UNCHANGED <<tables, offered, queueForm, editing, saves, failures>>) /\ UNCHANGED lister
    BY <1>9 DEF CheckName
  <2>4. PageTypes'
    BY <1>1, <2>2, <2>3 DEF PageTypes, tables
  <2> QED BY <1>2, <2>3, <2>4, QueuesParts, PTL
<1> QED BY <1>5, <1>6, <1>7, <1>8, <1>9

LEMMA QueueWritten ==
  ASSUME QueuesInv, createQueue \/ ChangeQueue
  PROVE  QueuesInv'
<1>1. PageTypes /\ ListTyped
  BY QueuesParts
<1>2. (UNCHANGED <<inQueue, offered, queueForm, editing, saves, failures>>) /\ UNCHANGED lister
  BY DEF createQueue, ChangeQueue
<1>3. queues \in [QueueIds -> QueueRow \cup {NoId}]
  BY <1>1 DEF PageTypes
<1>4. (queues \in [QueueIds -> QueueRow \cup {NoId}])' /\ (write \in {NoId} \cup QueueSave \cup QueueDeletion)'
  <2>1. CASE createQueue
    <3>1. write \in QueueSave
      BY <1>1, <2>1 DEF createQueue, PageTypes, QueueDeletion
    <3>2. [name |-> write.fields.name, active |-> TRUE, deleted |-> FALSE] \in QueueRow
      BY <3>1 DEF QueueSave, QueueRow
    <3>3. write' \in QueueSave
      BY <2>1, <3>1 DEF createQueue, QueueSave
    <3>4. PICK q \in QueueIds :
            queues' = [queues EXCEPT ![q] = [name |-> write.fields.name, active |-> TRUE, deleted |-> FALSE]]
      BY <2>1 DEF createQueue
    <3> QED BY <1>3, <3>2, <3>3, <3>4
  <2>2. CASE ChangeQueue
    <3>1. /\ write # NoId /\ write.what \in {"update", "delete"}
          /\ write' = [write EXCEPT !.pc = IF write.id \in Live THEN "done" ELSE "refused"]
      BY <2>2 DEF ChangeQueue
    <3>2. write \in QueueSave \cup QueueDeletion
      BY <1>1, <3>1 DEF PageTypes
    <3>3. write' \in QueueSave \cup QueueDeletion
      BY <3>1, <3>2 DEF QueueSave, QueueDeletion
    <3>4. CASE write.id \notin Live
      BY <1>3, <2>2, <3>3, <3>4 DEF ChangeQueue
    <3>5. CASE write.id \in Live
      <4> DEFINE renamed == [name |-> write.fields.name, active |-> write.fields.active, deleted |-> FALSE]
                 ended   == [queues[write.id] EXCEPT !.active = FALSE, !.deleted = TRUE]
      <4>1. queues[write.id] \in QueueRow /\ write.id \in QueueIds
        BY <1>3, <3>5 DEF Live
      <4>2. ended \in QueueRow
        BY <4>1 DEF QueueRow
      <4>3. write.what = "update" => renamed \in QueueRow
        BY <3>2 DEF QueueSave, QueueDeletion, QueueRow
      <4>4. queues' = [queues EXCEPT ![write.id] = IF write.what = "update" THEN renamed ELSE ended]
        BY <2>2, <3>5 DEF ChangeQueue
      <4> HIDE DEF renamed, ended
      <4> QED BY <1>3, <3>3, <4>1, <4>2, <4>3, <4>4
    <3> QED BY <3>4, <3>5
  <2> QED BY <2>1, <2>2
<1>5. PageTypes'
  BY <1>1, <1>2, <1>4 DEF PageTypes
<1>6. DialogSound' /\ ListTyped'
  BY <1>1, <1>2, DialogUntouched DEF ListTyped
<1> QED BY <1>5, <1>6, QueuesParts, PTL

LEMMA QueueDeleted ==
  ASSUME QueuesInv, NEW q \in QueueIds, softDeleteQueue(q)
  PROVE  QueuesInv'
<1>1. PageTypes /\ ListTyped
  BY QueuesParts
<1>2. /\ q \in Live /\ saves < MaxSaves /\ saves' = saves + 1
      /\ queues' = [queues EXCEPT ![q].active = FALSE, ![q].deleted = TRUE]
      /\ UNCHANGED <<inQueue, queuePage, failures>> /\ UNCHANGED lister
  BY DEF softDeleteQueue
<1>3. saves' \in 0..MaxSaves
  BY <1>1, <1>2, QueuesConstants DEF PageTypes
<1>4. queues \in [QueueIds -> QueueRow \cup {NoId}] /\ queues[q] \in QueueRow
  BY <1>1, <1>2 DEF PageTypes, Live
<1>5. queues' \in [QueueIds -> QueueRow \cup {NoId}]
  BY <1>2, <1>4 DEF QueueRow
<1>6. PageTypes'
  BY <1>1, <1>2, <1>3, <1>5 DEF PageTypes, queuePage
<1>7. DialogSound' /\ ListTyped'
  BY <1>1, <1>2, DialogUntouched DEF ListTyped
<1> QED BY <1>6, <1>7, QueuesParts, PTL

(* The page shows the answer of its write, and renders.                    *)
LEMMA WriteShown ==
  ASSUME QueuesInv, WriteAnswered
  PROVE  QueuesInv'
<1>1. PageTypes /\ ListTyped
  BY QueuesParts
<1>2. Renders(pending) /\ pending \in SUBSET pending /\ write' = NoId /\ UNCHANGED <<tables, saves, failures>>
  BY DEF WriteAnswered
<1>3. offered' \subseteq QueueIds /\ queueForm' \in BOOLEAN /\ editing' \in SomeQueue
  BY <1>1 DEF WriteAnswered, PageTypes, Live, SomeQueue
<1>4. PageTypes'
  BY <1>1, <1>2, <1>3 DEF PageTypes, tables
<1>5. DialogSound' /\ ListTyped'
  BY <1>1, <1>2, RenderedSound DEF ListTyped
<1> QED BY <1>4, <1>5, QueuesParts, PTL

LEMMA QueuesStarts == QueuesInit => QueuesInv
<1> SUFFICES ASSUME QueuesInit PROVE QueuesInv
  OBVIOUS
<1>1. /\ inQueue \in [QueueIds -> SUBSET Listable] /\ offered = Live /\ queueForm = FALSE /\ editing = NoId
      /\ write = NoId /\ dialog = [open |-> FALSE, queue |-> NoId] /\ list = [of |-> NoId, who |-> {}]
      /\ loading = FALSE /\ pending = {} /\ crossed = FALSE /\ callsMade = 0 /\ saves = 0 /\ failures = 0
  BY DEF QueuesInit
<1>2. queues \in [QueueIds -> QueueRow \cup {NoId}]
  <2>1. PICK old \in SUBSET QueueIds, name \in Names :
          queues = [q \in QueueIds |-> IF q \in old THEN [name |-> name, active |-> TRUE, deleted |-> FALSE]
                                     ELSE NoId]
    BY DEF QueuesInit
  <2>2. [name |-> name, active |-> TRUE, deleted |-> FALSE] \in QueueRow
    BY DEF QueueRow
  <2> QED BY <2>1, <2>2
<1>3. offered \subseteq QueueIds
  BY <1>1 DEF Live
<1>4. QueuesTypes
  <2>1. /\ callsMade \in 0..MaxCallsMade /\ saves \in 0..MaxSaves /\ failures \in 0..MaxFailures
    <3>1. {0} \subseteq 0..MaxCallsMade /\ {0} \subseteq 0..MaxSaves /\ {0} \subseteq 0..MaxFailures
      BY QueuesConstants
    <3> QED BY <1>1, <3>1
  <2>5. loading \in BOOLEAN /\ crossed \in BOOLEAN /\ queueForm \in BOOLEAN /\ pending \subseteq DialogCall
    BY <1>1
  <2>2. dialog \in [open : BOOLEAN, queue : SomeQueue] /\ (dialog.open <=> dialog.queue # NoId)
    BY <1>1 DEF SomeQueue
  <2>3. list \in [of : SomeQueue, who : People] /\ editing \in SomeQueue
    BY <1>1 DEF SomeQueue, People
  <2>4. inQueue \in [QueueIds -> People] /\ write \in {NoId} \cup QueueSave \cup QueueDeletion
    BY <1>1 DEF People
  <2> QED BY <1>2, <1>3, <2>1, <2>2, <2>3, <2>4, <2>5 DEF QueuesTypes
<1> QED BY <1>1, <1>4 DEF QueuesInv, OneCall, ListOfTheQueue

(* An open dialog whose buttons can be clicked lists its own queue: types, *)
(* the one call under way and the list are kept by every step of the page. *)
THEOREM QueuesInvariant == QueuesSpec => []QueuesInv
<1>1. QueuesInit => QueuesInv
  BY QueuesStarts
<1>2. QueuesInv /\ [QueuesNext]_queuesVars => QueuesInv'
  <2> SUFFICES ASSUME QueuesInv, [QueuesNext]_queuesVars PROVE QueuesInv'
    OBVIOUS
  <2>1. CASE UNCHANGED queuesVars
    BY <2>1 DEF queuesVars, tables, queuePage, lister, QueuesInv, QueuesTypes, OneCall, ListOfTheQueue
  <2>2. CASE QueuesNext
    <3>1. CASE \/ \E q \in offered : OpenDialog(q)
               \/ \E u \in Listable : HandleAdd(u) \/ HandleRemove(u)
               \/ CloseDialog
               \/ PageRenders
               \/ \E c \in pending : CallFails(c) \/ ShowMembers(c) \/ ShowChange(c) \/ ShowFailure(c)
      BY <3>1, DialogSteps
    <3>2. CASE \/ \E q \in offered : Edit(q) \/ DeleteQueue(q)
               \/ NewQueue \/ CloseForm
               \/ \E name \in Names, on \in BOOLEAN : SubmitQueue(name, on)
               \/ CheckName
      BY <3>2, PageSteps
    <3>3. CASE createQueue \/ ChangeQueue
      BY <3>3, QueueWritten
    <3>4. CASE WriteAnswered
      BY <3>4, WriteShown
    <3>5. CASE \E c \in pending : ServeDialog(c)
      BY <3>5, DialogServed
    <3>6. CASE \E q \in QueueIds : softDeleteQueue(q)
      BY <3>6, QueueDeleted
    <3> QED BY <2>2, <3>1, <3>2, <3>3, <3>4, <3>5, <3>6 DEF QueuesNext
  <2> QED BY <2>1, <2>2
<1> QED BY <1>1, <1>2, PTL DEF QueuesSpec

(* The list in an open dialog whose buttons can be clicked is of the queue *)
(* that the dialog is about.                                               *)
THEOREM ListsAreOfTheQueue == QueuesSpec => []ListedIsOfTheQueue
<1>1. QueuesInv => ListedIsOfTheQueue
  BY DEF QueuesInv, ListOfTheQueue, ListedIsOfTheQueue
<1> QED BY <1>1, QueuesInvariant, PTL

=============================================================================
