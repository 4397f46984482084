------------------------------ MODULE Accounts ------------------------------
(***************************************************************************)
(* The accounts of the users and their sessions: the page of the           *)
(* administrators (frontend/src/pages/Users.jsx and its form), the         *)
(* handlers that change, deactivate and delete an account                  *)
(* (backend/src/services/userService.js), and the sessions that these must *)
(* end (authService.js): one per user, the jti under the user's key in     *)
(* Redis.                                                                  *)
(*                                                                         *)
(* A handler is a sequence of awaits, and handlers overlap: what it checks *)
(* and what it writes are statements of their own, on no common lock.      *)
(***************************************************************************)
EXTENDS Integers, FiniteSets

CONSTANTS
  Users,       \* accounts; all are administrators in the beginning
  MaxTokens,   \* bound: tokens signed, one per user in the beginning
  MaxRequests, \* bound: requests of the page, and logouts
  MaxTrouble   \* bound: calls of Redis that fail

ASSUME AccountsAssumption ==
  /\ IsFiniteSet(Users) /\ Users # {} /\ MaxTokens >= Cardinality(Users)
  /\ {MaxTokens, MaxRequests, MaxTrouble} \subseteq Nat

Roles    == {"ADMIN", "AGENTE"}
Statuses == {"ACTIVE", "INACTIVE"}

VARIABLES
  users,      \* rows: role, status
  keys,       \* sessionKey(u) in Redis: a jti, or 0
  tokens,     \* signed tokens: who and jti, which counts those of the user
  logins,     \* logins that have read the row and not yet set the key
  pages,      \* what each user's page lists, and the form it has open
  handlers,   \* requests under way
  voided,     \* history: tokens that a logout or a revocation ended
  excused,    \* history: an administrator was removed in a way that the checks do not see
  requests, trouble

vars == <<users, keys, tokens, logins, pages, handlers, voided, excused, requests, trouble>>

NoForm   == [of |-> "none"]
NoFields == [role |-> "same", status |-> "same", password |-> FALSE, confirm |-> FALSE]

Administrators == {u \in Users : users[u].role = "ADMIN" /\ users[u].status = "ACTIVE"}

Row     == [role : Roles, status : Statuses \cup {"GONE"}]
Token   == [who : Users, jti : Nat \ {0}]
Form    == [of : Users, shown : Row, fields : [role : Roles, status : Statuses \cup {"GONE"}]]
Handler ==
  [by : Token, what : {"update", "delete", "password", "logout"}, of : Users,
   fields : [role : Roles \cup {"same"}, status : Statuses \cup {"same"},
             password : BOOLEAN, confirm : BOOLEAN],
   asked : BOOLEAN, late : BOOLEAN,
   at : {"read", "count", "write", "revoke", "get", "del", "erase"}]

TypeOK ==
  /\ users \in [Users -> Row] /\ keys \in [Users -> Nat]
  /\ tokens \subseteq Token /\ logins \subseteq Token /\ voided \subseteq Token
  /\ pages \in [Users -> [list : [Users -> Row], form : {NoForm} \cup Form]]
  /\ handlers \subseteq Handler
  /\ excused \in BOOLEAN /\ requests \in 0..MaxRequests /\ trouble \in 0..MaxTrouble

Init ==
  /\ users = [u \in Users |-> [role |-> "ADMIN", status |-> "ACTIVE"]]
  /\ keys = [u \in Users |-> 1] /\ tokens = {[who |-> u, jti |-> 1] : u \in Users}
  /\ logins = {}
  /\ pages = [u \in Users |-> [list |-> users, form |-> NoForm]]
  /\ handlers = {} /\ voided = {} /\ excused = FALSE
  /\ requests = 0 /\ trouble = 0

-----------------------------------------------------------------------------
(* Logging in reads the row, compares the password with the hash it read,  *)
(* and sets the key: what happens to the account meanwhile is not seen.    *)
LoginReads(u) ==
  /\ users[u].status = "ACTIVE"
  /\ Cardinality(tokens \cup logins) < MaxTokens
  /\ logins' = logins \cup {[who |-> u, jti |-> Cardinality({t \in tokens \cup logins : t.who = u}) + 1]}
  /\ UNCHANGED <<users, keys, tokens, pages, handlers, voided, excused, requests, trouble>>

LoginSets(l) ==
  /\ logins' = logins \ {l} /\ tokens' = tokens \cup {l}
  /\ keys' = [keys EXCEPT ![l.who] = l.jti]
  /\ UNCHANGED <<users, pages, handlers, voided, excused, requests, trouble>>

(* verifyAndGetUser: the key is the token's, and then the row is active.   *)
Valid(t) == keys[t.who] = t.jti /\ users[t.who].status = "ACTIVE"

-----------------------------------------------------------------------------
(* The page: it lists the accounts, and an administrator opens the form of *)
(* one; the form keeps what the list said then.                            *)
LoadUsers(u) ==
  /\ \E t \in tokens : t.who = u /\ Valid(t)
  /\ users[u].role = "ADMIN"
  /\ pages[u].list # users
  /\ pages' = [pages EXCEPT ![u].list = users]
  /\ UNCHANGED <<users, keys, tokens, logins, handlers, voided, excused, requests, trouble>>

FormOf(row) == [role |-> row.role, status |-> row.status]

HandleEdit(u, of) ==
  /\ pages[u].form = NoForm /\ pages[u].list[of].status # "GONE"
  /\ LET row == pages[u].list[of]
     IN pages' = [pages EXCEPT ![u].form = [of |-> of, shown |-> row, fields |-> FormOf(row)]]
  /\ UNCHANGED <<users, keys, tokens, logins, handlers, voided, excused, requests, trouble>>

(* A request is sent with the page's token; authenticate finds its key and *)
(* the sender's row, and authorize asks for an administrator where the     *)
(* route does.  `asked` tells whether its sender chose to take the role of *)
(* whom it is about, and `late` whether that account has changed since it  *)
(* was shown or checked.                                                   *)
Send(u, what, of, shown, fields, asked) ==
  /\ requests < MaxRequests /\ requests' = requests + 1
  /\ what \in {"update", "delete"} => users[u].role = "ADMIN"
  /\ \E t \in tokens :
       /\ t.who = u /\ Valid(t)
       /\ handlers' = handlers \cup
            {[by |-> t, what |-> what, of |-> of, fields |-> fields, asked |-> asked,
              late |-> shown # users[of], at |-> IF what = "logout" THEN "get" ELSE "read"]}

Unchanged == UNCHANGED <<users, keys, tokens, logins, voided, excused, trouble>>

(* The form is sent whole, with at most one thing changed: the role, the   *)
(* status or the password.                                                 *)
Payloads(form) ==
  {f \in [role : Roles, status : Statuses, password : BOOLEAN, confirm : {FALSE}] :
     Cardinality({c \in {"role", "status"} : f[c] # form.fields[c]})
       + (IF f.password THEN 1 ELSE 0) <= 1}

SubmitForm(u) ==
  /\ pages[u].form # NoForm
  /\ LET form == pages[u].form
     IN \E fields \in Payloads(form) :
          Send(u, "update", form.of, form.shown, fields, fields.role # form.fields.role)
  /\ pages' = [pages EXCEPT ![u].form = NoForm]
  /\ Unchanged

(* The menu of a row turns its status, or deletes, confirming what it      *)
(* lists as active.                                                        *)
HandleToggleStatus(u, of) ==
  LET row == pages[u].list[of]
  IN /\ row.status # "GONE"
     /\ Send(u, "update", of, row,
             [NoFields EXCEPT !.status = IF row.status = "ACTIVE" THEN "INACTIVE" ELSE "ACTIVE"],
             FALSE)
     /\ UNCHANGED pages /\ Unchanged

ConfirmDeleteUser(u, of) ==
  LET row == pages[u].list[of]
  IN /\ row.status # "GONE"
     /\ Send(u, "delete", of, row, [NoFields EXCEPT !.confirm = (row.status = "ACTIVE")], FALSE)
     /\ UNCHANGED pages /\ Unchanged

(* Anybody changes a password of their own, and logs out.                  *)
ChangePassword(u) ==
  /\ Send(u, "password", u, users[u], [NoFields EXCEPT !.password = TRUE], FALSE)
  /\ UNCHANGED pages /\ Unchanged

LogOut(u) ==
  /\ Send(u, "logout", u, users[u], NoFields, FALSE)
  /\ UNCHANGED pages /\ Unchanged

-----------------------------------------------------------------------------
Goes(h, at)   == handlers' = (handlers \ {h}) \cup {[h EXCEPT !.at = at]}
Ends(h)       == handlers' = handlers \ {h}

Deactivates(h) == h.fields.status = "INACTIVE"
Removes(h)     == h.what = "delete" \/ Deactivates(h)

(* The handler reads the account.                                          *)
Refused(h) ==
  LET existing == users[h.of]
  IN \/ existing.status = "GONE"
     \/ Deactivates(h) /\ h.by.who = h.of
     \/ h.what = "delete" /\ existing.status = "ACTIVE" /\ ~h.fields.confirm

Proceeds(h) == IF h.what = "delete" THEN "revoke" ELSE "write"

Read(h) ==
  /\ h.at = "read"
  /\ IF Refused(h) THEN Ends(h)
     ELSE handlers' = (handlers \ {h}) \cup
            {[h EXCEPT !.late = h.late /\ ~Removes(h),
                       !.at = IF Removes(h) /\ users[h.of].role = "ADMIN" THEN "count" ELSE Proceeds(h)]}
  /\ UNCHANGED <<users, keys, tokens, logins, pages, voided, excused, requests, trouble>>

(* Mutant: the account itself is among those it counts.                    *)
CountActiveAdmins(of) == Cardinality(Administrators)

(* Then, when it is an administrator's, it counts the other active ones.   *)
CountActiveAdminsExcluding(of) == Cardinality(Administrators \ {of})

Count(h) ==
  /\ h.at = "count"
  /\ IF CountActiveAdminsExcluding(h.of) < 1 THEN Ends(h) ELSE Goes(h, Proceeds(h))
  /\ UNCHANGED <<users, keys, tokens, logins, pages, voided, excused, requests, trouble>>

(* The statement that writes the row, behind the computation of a hash.    *)
(* Others that have read or counted before it are late.                    *)
Written(h) ==
  LET row == users[h.of]
  IN [role   |-> IF h.fields.role = "same" THEN row.role ELSE h.fields.role,
      status |-> IF h.fields.status = "same" THEN row.status ELSE h.fields.status]

Late(others, of) ==
  {[g EXCEPT !.late = g.late \/ (g.at # "read" /\ (Removes(g) \/ g.of = of))] : g \in others}

Put(h, row, next) ==
  /\ users' = [users EXCEPT ![h.of] = row]
  /\ LET others == handlers \ {h}
     IN handlers' = IF row = users[h.of] THEN others \cup next ELSE Late(others, h.of) \cup next
  /\ excused' = (excused \/ h.late \/ h.asked)

Revokes(h) == h.fields.password \/ Deactivates(h)

UpdateUser(h) ==
  /\ h.at = "write"
  /\ IF users[h.of].status = "GONE" THEN Ends(h) /\ UNCHANGED <<users, excused>>
     ELSE Put(h, Written(h), IF Revokes(h) THEN {[h EXCEPT !.at = "revoke"]} ELSE {})
  /\ UNCHANGED <<keys, tokens, logins, pages, voided, requests, trouble>>

-----------------------------------------------------------------------------
(* forceLogout deletes the key, and so does logout when it is the token's; *)
(* between its GET and its DEL another login may set a new one.  What was  *)
(* a session until then is voided.                                         *)
AfterRevoke(h) == IF h.what = "delete" THEN Goes(h, "erase") ELSE Ends(h)

Sessions(u) == {t \in tokens : t.who = u}

(* Mutant: the key of whoever asked for it is deleted.                     *)
LogoutOfActor(h) ==
  /\ h.at = "revoke"
  /\ keys' = [keys EXCEPT ![h.by.who] = 0]
  /\ voided' = voided \cup Sessions(h.of)
  /\ AfterRevoke(h)
  /\ UNCHANGED <<users, tokens, logins, pages, excused, requests, trouble>>

ForceLogout(h) ==
  /\ h.at = "revoke"
  /\ keys' = [keys EXCEPT ![h.of] = 0]
  /\ voided' = voided \cup Sessions(h.of)
  /\ AfterRevoke(h)
  /\ UNCHANGED <<users, tokens, logins, pages, excused, requests, trouble>>

(* Redis fails, behind a catch: the handler goes on.                       *)
ForceLogoutFails(h) ==
  /\ h.at = "revoke"
  /\ trouble < MaxTrouble /\ trouble' = trouble + 1
  /\ AfterRevoke(h)
  /\ UNCHANGED <<users, keys, tokens, logins, pages, voided, excused, requests>>

LogoutGet(h) ==
  /\ h.at = "get"
  /\ IF keys[h.of] = h.by.jti THEN Goes(h, "del") ELSE Ends(h)
  /\ UNCHANGED <<users, keys, tokens, logins, pages, voided, excused, requests, trouble>>

LogoutDel(h) ==
  /\ h.at = "del"
  /\ keys' = [keys EXCEPT ![h.of] = 0] /\ voided' = voided \cup {h.by} /\ Ends(h)
  /\ UNCHANGED <<users, tokens, logins, pages, excused, requests, trouble>>

(* The transaction that deletes the account, after its chats were freed;   *)
(* an account that is gone already makes it fail.                          *)
DeleteUserHard(h) ==
  /\ h.at = "erase"
  /\ IF users[h.of].status = "GONE" THEN Ends(h) /\ UNCHANGED <<users, excused>>
     ELSE Put(h, [users[h.of] EXCEPT !.status = "GONE"], {})
  /\ UNCHANGED <<keys, tokens, logins, pages, voided, requests, trouble>>

Next ==
  \/ \E u \in Users : LoginReads(u) \/ LoadUsers(u) \/ SubmitForm(u) \/ ChangePassword(u) \/ LogOut(u)
  \/ \E u, of \in Users : HandleEdit(u, of) \/ HandleToggleStatus(u, of) \/ ConfirmDeleteUser(u, of)
  \/ \E l \in logins : LoginSets(l)
  \/ \E h \in handlers :
       \/ Read(h) \/ Count(h) \/ UpdateUser(h)
       \/ ForceLogout(h) \/ ForceLogoutFails(h) \/ LogoutGet(h) \/ LogoutDel(h) \/ DeleteUserHard(h)

Spec == Init /\ [][Next]_vars

-----------------------------------------------------------------------------
(* An active administrator remains.  The checks of the handlers do not see *)
(* everything: two removals that both count before either writes, a role   *)
(* that is taken away, which no check is about, and a page or a form that  *)
(* lists what has changed since.  Without these, and in every order of the *)
(* awaits of handlers and logins, somebody is left to administer.          *)
AnAdministratorRemains == excused \/ Administrators # {}

(* A session that a logout, a new password, a deactivation or a deletion   *)
(* ended authenticates no request again, whatever logins and handlers are  *)
(* under way and even when the account is made active again.  (A login     *)
(* that had read the row before still makes a session; and one is left     *)
(* when Redis fails.)                                                      *)
RevocationHolds == \A t \in voided : ~Valid(t)

=============================================================================
