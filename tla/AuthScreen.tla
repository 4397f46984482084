----------------------------- MODULE AuthScreen -----------------------------
(***************************************************************************)
(* The session of a user in a browser tab                                  *)
(* (frontend/src/context/AuthContext.jsx, api/client.js, pages/Login.jsx): *)
(* the token it shows and stores, its requests and their answers, which    *)
(* come in any order, and the key that the server keeps for the user       *)
(* (Accounts).                                                             *)
(*                                                                         *)
(* The effect `bootstrap` asks /auth/me with the stored token and then     *)
(* shows and stores the session again.  It runs when the page is loaded    *)
(* and, because fetchMe depends on the client and the client on the token, *)
(* after every change of the token that is shown.  Nothing takes back an   *)
(* answer that comes after a logout.                                       *)
(***************************************************************************)
EXTENDS Integers, FiniteSets

CONSTANTS
  MaxLogins,  \* bound: logins, of this tab and of other ones
  MaxCalls,   \* bound: requests under way
  MaxClicks   \* bound: logins, logouts, requests, reloads, and answers that fail

ASSUME TabAssumption == {MaxLogins, MaxCalls, MaxClicks} \subseteq Nat

None == 0

VARIABLES
  shown,   \* state.token, which the user goes with, or None
  stored,  \* the session in the browser's storage
  due,     \* the effect has to run
  calls,   \* requests under way: what, with which token, and what the server made of it
  late,    \* requests that the tab has given up and the server has yet to handle
  key,     \* jti under the user's key on the server
  made,    \* tokens signed
  out,     \* history: tokens that the user has logged out of
  clicks

tab     == <<shown, stored, due>>
server  == <<key, made>>
tabVars == <<tab, calls, late, server, out, clicks>>

Kinds   == {"me", "login", "logout", "work"}
Answers == {"none", "ok", "401"}
Call    == [what : Kinds, token : Nat, answer : Answers]

TabTypeOK ==
  /\ {shown, stored, key, made} \subseteq Nat /\ due \in BOOLEAN
  /\ calls \cup late \subseteq Call
  /\ out \subseteq Nat /\ clicks \in 0..MaxClicks

TabInit ==  \* a page just loaded, with or without a session, which may be over
  /\ stored \in {None, 1} /\ key \in {None, 1} /\ made = 1
  /\ shown = None /\ due = TRUE
  /\ calls = {} /\ late = {} /\ out = {} /\ clicks = 0

Click == clicks < MaxClicks /\ clicks' = clicks + 1

Calls(what, token) ==
  /\ Cardinality(calls \cup late) < MaxCalls
  /\ calls' = calls \cup {[what |-> what, token |-> token, answer |-> "none"]}

-----------------------------------------------------------------------------
Bootstrap ==
  /\ due /\ due' = FALSE
  /\ IF stored = None THEN UNCHANGED calls ELSE Calls("me", stored)
  /\ UNCHANGED <<shown, stored, late, server, out, clicks>>

(* The login page is there while no user is shown, and has one login at a  *)
(* time under way.                                                         *)
Login ==
  /\ shown = None /\ \A c \in calls : c.what # "login"
  /\ Click /\ Calls("login", None)
  /\ UNCHANGED <<tab, late, server, out>>

LogoutRemote ==
  /\ shown # None
  /\ Click /\ Calls("logout", shown)
  /\ UNCHANGED <<tab, late, server, out>>

AuthorizedFetch ==
  /\ shown # None
  /\ Click /\ Calls("work", shown)
  /\ UNCHANGED <<tab, late, server, out>>

(* The page is loaded again: its answers come to nobody.                   *)
Reload ==
  /\ Click
  /\ shown' = None /\ due' = TRUE
  /\ calls' = {} /\ late' = late \cup {c \in calls : c.answer = "none"}
  /\ UNCHANGED <<stored, server, out>>

-----------------------------------------------------------------------------
(* The server verifies the token and does what is asked for.               *)
Handled(c) ==
  IF c.what = "login" THEN [c EXCEPT !.answer = "ok", !.token = made + 1]
  ELSE [c EXCEPT !.answer = IF c.token = key THEN "ok" ELSE "401"]

Serve(c) ==
  /\ c.answer = "none"
  /\ c.what = "login" => made < MaxLogins
  /\ IF c \in calls THEN calls' = (calls \ {c}) \cup {Handled(c)} /\ UNCHANGED late
                    ELSE late' = late \ {c} /\ UNCHANGED calls
  /\ made' = IF c.what = "login" THEN made + 1 ELSE made
  /\ key' = IF c.what = "login" THEN made + 1
            ELSE IF c.what = "logout" /\ c.token = key THEN None ELSE key
  /\ UNCHANGED <<tab, out, clicks>>

(* The session ends elsewhere: it is revoked, or the user logs in there.   *)
EndsElsewhere ==
  /\ key # None
  /\ \/ key' = None /\ UNCHANGED made
     \/ made < MaxLogins /\ made' = made + 1 /\ key' = made + 1
  /\ UNCHANGED <<tab, calls, late, out, clicks>>

-----------------------------------------------------------------------------
(* Mutant: fetchMe does not depend on the token.                           *)
BecomesOnce(token) ==
  /\ shown' = token /\ stored' = token
  /\ UNCHANGED due

(* persist and clearSession write the state and the storage together.      *)
Becomes(token) ==
  /\ shown' = token /\ stored' = token
  /\ due' = (due \/ token # shown)

(* An answer: a 401 of any request, and of whichever token, ends what is   *)
(* shown; so do all answers to a logout and the failure of a /me.          *)
Answer(c) ==
  /\ c.answer # "none"
  /\ calls' = calls \ {c}
  /\ \/ c.answer = "ok" /\ c.what \in {"me", "login"} /\ Becomes(c.token)
     \/ c.answer = "ok" /\ c.what = "work" /\ UNCHANGED tab
     \/ c.answer = "401" /\ Becomes(None)
     \/ c.answer = "ok" /\ c.what = "logout" /\ Becomes(None)
  /\ out' = IF c.what = "logout" THEN out \cup {c.token} ELSE out
  /\ UNCHANGED <<late, server, clicks>>

(* The network or the server fails, or the answer does not come in time:   *)
(* then the server may handle the request still.                           *)
Fails(c) ==
  /\ Click
  /\ calls' = calls \ {c}
  /\ late' = IF c.answer = "none" THEN late \cup {c} ELSE late
  /\ IF c.what \in {"me", "logout"} THEN Becomes(None) ELSE UNCHANGED tab
  /\ UNCHANGED <<server, out>>

(* The events socket is refused the token that is shown.                   *)
SocketAuthError ==
  /\ shown # None /\ shown # key
  /\ Becomes(None)
  /\ UNCHANGED <<calls, late, server, out, clicks>>

TabNext ==
  \/ Bootstrap \/ Login \/ LogoutRemote \/ AuthorizedFetch \/ Reload
  \/ \E c \in calls \cup late : Serve(c)
  \/ \E c \in calls : Answer(c) \/ Fails(c)
  \/ EndsElsewhere \/ SocketAuthError

TabSpec == TabInit /\ [][TabNext]_tabVars

-----------------------------------------------------------------------------
(* A logout sticks: when no request is under way and no effect is due, the *)
(* tab shows no session that the user has logged out of and storage keeps  *)
(* none.  An answer to /me that comes after the logout brings the session  *)
(* back, and only because the effect then asks again with the token that   *)
(* it brought does the 401 end it.  (A logout that fails leaves a session  *)
(* that is valid, and it may come back for good.)                          *)
LogoutSticks == calls = {} /\ ~due => {shown, stored} \cap out = {}

=============================================================================
