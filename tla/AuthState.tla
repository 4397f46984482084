----------------------------- MODULE AuthState -----------------------------
(***************************************************************************)
(* The credentials and keys of one WhatsApp session: the key store of      *)
(* createPostgresAuthState (backend/src/whatsapp/whatsappAuthState.js)     *)
(* between the socket library and the row in whatsapp_sessions.  The       *)
(* library calls set, saveCreds and, through the handler of a log-out,     *)
(* resetState; each changes the memory at once, and then saves all of it   *)
(* under the session's advisory lock, on a connection of the pool that is  *)
(* held while another one is asked for the tenant.                         *)
(*                                                                         *)
(* One key stands for all: its value is the number of the call that set    *)
(* it.  mergeKeys copies the outer object only, so a key is changed in     *)
(* place in the inner object, which calls under way share: `heap` holds    *)
(* the inner objects, named after the call that made them.                 *)
(***************************************************************************)
EXTENDS Integers, FiniteSets

CONSTANTS
  MaxCalls,   \* bound: calls
  PoolMax,    \* connections of the pool
  MaxTrouble  \* bound: statements that fail, crashes

ASSUME AuthAssumption ==
  MaxCalls \in Nat \ {0} /\ PoolMax \in Nat \ {0} /\ MaxTrouble \in Nat

Calls   == 1..MaxCalls
Loaded  == 0            \* the inner object of createPostgresAuthState
NoKey   == -1
NoCall  == 0
Objects == 0..(2 * MaxCalls)
Made(c)   == c              \* the object a call puts a key into
Merged(c) == MaxCalls + c   \* the object its save makes

VARIABLES
  stored,  \* key and creds in whatsapp_sessions
  heap, keys,  \* the inner objects; the one the store refers to
  creds,   \* generation of the credentials the store refers to
  kind, given,  \* of each call: what it is; keys and creds it passed on
  pc,      \* where it is
  lock,    \* holder of the advisory lock of the session
  last,    \* history: the value the key was given last
  raced,   \* history: a call began while the memory was behind, met a reset, or
           \* overtook another one
  unsaved, \* history: the youngest call when a save failed, until a later one is
           \* saved; no later one makes a failed reset good
  mishaps

memory  == <<heap, keys, creds>>
calls   == <<kind, given, pc, lock>>
history == <<last, raced, unsaved>>
storeVars == <<stored, memory, calls, history, mishaps>>

UnderWay == {c \in Calls : pc[c] \in {"connect", "lock", "tenant", "write"}}
Begun    == {c \in Calls : pc[c] # "new"}
Holders  == {c \in UnderWay : pc[c] # "connect"}   \* of a connection
Free     == PoolMax - Cardinality(Holders)

Nothing == [keys |-> Loaded, creds |-> 0]

NoHeap == [o \in Objects |-> NoKey]

StoreInit ==
  /\ stored = [key |-> 0, creds |-> 0]
  /\ heap = [NoHeap EXCEPT ![Loaded] = 0] /\ keys = Loaded
  /\ creds = 0
  /\ kind = [c \in Calls |-> "none"]
  /\ given = [c \in Calls |-> Nothing]
  /\ pc = [c \in Calls |-> "new"]
  /\ lock = NoCall
  /\ last = 0 /\ raced = FALSE /\ unsaved = 0
  /\ mishaps = 0

Happens == mishaps < MaxTrouble /\ mishaps' = mishaps + 1

-----------------------------------------------------------------------------
(* A call begins: c is the next one.  From here on its save goes its way.  *)
Begin(c, what) ==
  /\ pc[c] = "new" /\ \A b \in Calls : b < c => pc[b] # "new"
  /\ kind' = [kind EXCEPT ![c] = what]
  /\ pc' = [pc EXCEPT ![c] = "connect"]
  /\ raced' = (raced \/ heap[keys] # last
                       \/ \E b \in UnderWay : "reset" \in {what, kind[b]})
  /\ UNCHANGED <<stored, lock, unsaved, mishaps>>

(* keyStore.set.  The inner object is changed, or made if there is none.   *)
set(c) ==
  /\ Begin(c, "set")
  /\ last' = c
  /\ LET inner == IF heap[keys] = NoKey THEN Made(c) ELSE keys IN
       /\ heap' = [heap EXCEPT ![inner] = c]
       /\ keys' = inner
       /\ given' = [given EXCEPT ![c] = [keys |-> inner, creds |-> creds]]
  /\ UNCHANGED creds

saveCreds(c) ==
  /\ Begin(c, "creds")
  /\ given' = [given EXCEPT ![c] = [keys |-> keys, creds |-> creds]]
  /\ UNCHANGED <<memory, last>>

(* resetState has new credentials and an empty object.                     *)
resetState(c) ==
  /\ Begin(c, "reset")
  /\ last' = NoKey
  /\ keys' = Made(c) /\ heap' = [heap EXCEPT ![Made(c)] = NoKey]
  /\ creds' = c
  /\ given' = [given EXCEPT ![c] = [keys |-> Made(c), creds |-> c]]

-----------------------------------------------------------------------------
(* withSessionLock: a connection, and on it the lock.                      *)
ConnectPool(c) ==
  /\ pc[c] = "connect" /\ Free > 0
  /\ pc' = [pc EXCEPT ![c] = "lock"]
  /\ UNCHANGED <<stored, memory, kind, given, lock, history, mishaps>>

mergeKeysDbWins(c) ==  \* mutant
  IF stored.key = NoKey THEN heap[given[c].keys] ELSE stored.key

(* What persistState makes of the row and the keys it was given.           *)
mergeKeys(c) ==
  IF kind[c] = "reset" \/ heap[given[c].keys] # NoKey THEN heap[given[c].keys] ELSE stored.key

LockRow(c) ==
  /\ pc[c] = "lock" /\ lock = NoCall
  /\ lock' = c
  /\ heap' = [heap EXCEPT ![Merged(c)] = mergeKeys(c)]
  /\ pc' = [pc EXCEPT ![c] = "tenant"]
  /\ raced' = (raced \/ \E b \in Calls : b > c /\ pc[b] \in {"tenant", "write", "ended", "failed"})
  /\ UNCHANGED <<stored, keys, creds, kind, given, last, unsaved, mishaps>>

(* resolveTenantId asks the pool, not the connection that it has.          *)
resolveTenantId(c) ==
  /\ pc[c] = "tenant" /\ Free > 0
  /\ pc' = [pc EXCEPT ![c] = "write"]
  /\ UNCHANGED <<stored, memory, kind, given, lock, history, mishaps>>

(* What a call knew is gone when it ends.                                  *)
Forget(c) ==
  /\ given' = [given EXCEPT ![c] = Nothing]
  /\ kind' = [kind EXCEPT ![c] = "none"]

(* The upsert and the COMMIT; then the store refers to what was saved,     *)
(* whatever it has been given meanwhile.                                   *)
Persist(c) ==
  /\ pc[c] = "write"
  /\ stored' = [key |-> heap[Merged(c)], creds |-> given[c].creds]
  /\ IF kind[c] = "reset" THEN UNCHANGED <<keys, creds>>
     ELSE keys' = Merged(c) /\ creds' = given[c].creds
  /\ pc' = [pc EXCEPT ![c] = "ended"]
  /\ lock' = NoCall
  /\ Forget(c)
  /\ unsaved' = IF c > unsaved THEN 0 ELSE unsaved
  /\ UNCHANGED <<heap, last, raced, mishaps>>

(* A call fails, its transaction is rolled back and its connection given   *)
(* back.                                                                   *)
Fail(c) ==
  /\ pc' = [pc EXCEPT ![c] = "failed"]
  /\ Forget(c)
  /\ lock' = IF lock = c THEN NoCall ELSE lock
  /\ unsaved' = IF kind[c] = "reset" \/ unsaved = MaxCalls THEN MaxCalls ELSE Cardinality(Begun)
  /\ UNCHANGED <<stored, memory, last, raced>>

PoolTimesOutNever(c) ==  \* mutant: without connectionTimeoutMillis
  FALSE /\ Fail(c) /\ UNCHANGED mishaps

(* connectionTimeoutMillis: nobody waits for a connection forever.         *)
PoolTimesOut(c) ==
  /\ pc[c] \in {"connect", "tenant"} /\ Free = 0
  /\ Fail(c) /\ UNCHANGED mishaps

StatementFails(c) == pc[c] \in {"lock", "tenant", "write"} /\ Happens /\ Fail(c)

-----------------------------------------------------------------------------
(* The process ends and is started again: createPostgresAuthState loads    *)
(* the row.                                                                *)
Restart ==
  /\ Happens
  /\ heap' = [NoHeap EXCEPT ![Loaded] = stored.key] /\ keys' = Loaded
  /\ creds' = stored.creds
  /\ kind' = [c \in Calls |-> "none"]
  /\ given' = [c \in Calls |-> Nothing]
  /\ pc' = [c \in Calls |-> IF c \in Begun THEN "failed" ELSE "new"]
  /\ lock' = NoCall
  /\ last' = stored.key /\ raced' = FALSE /\ unsaved' = 0
  /\ UNCHANGED stored

CallStep(c) ==
  \/ ConnectPool(c) \/ LockRow(c) \/ resolveTenantId(c) \/ Persist(c) \/ PoolTimesOut(c)

StoreNext ==
  \/ \E c \in Calls : set(c) \/ saveCreds(c) \/ resetState(c) \/ CallStep(c) \/ StatementFails(c)
  \/ Restart

StoreSpec == StoreInit /\ [][StoreNext]_storeVars

(* The database and the event loop go on.                                  *)
StoreFairSpec == StoreSpec /\ \A c \in Calls : WF_storeVars(CallStep(c))

-----------------------------------------------------------------------------
StoreTypeOK ==
  /\ stored \in [key : Calls \cup {0, NoKey}, creds : Calls \cup {0}]
  /\ heap \in [Objects -> Calls \cup {0, NoKey}] /\ keys \in Objects
  /\ creds \in Calls \cup {0}
  /\ kind \in [Calls -> {"none", "set", "creds", "reset"}]
  /\ given \in [Calls -> [keys : Objects, creds : Calls \cup {0}]]
  /\ pc \in [Calls -> {"new", "connect", "lock", "tenant", "write", "ended", "failed"}]
  /\ lock \in Calls \cup {NoCall}
  /\ last \in Calls \cup {0, NoKey} /\ raced \in BOOLEAN /\ unsaved \in 0..MaxCalls
  /\ mishaps \in 0..MaxTrouble

(* The row keeps the last value of the key ("Auth state persistido en      *)
(* PostgreSQL para Baileys: incluye creds y todas las claves", :1): when   *)
(* no call is under way, it is in the row, and after a reset nothing of    *)
(* before is.  The exceptions are what breaks it: a call that begins while *)
(* the memory is behind, because the save before it has put back what it   *)
(* had read (:185); a call overtaken by a younger one; a reset among other *)
(* calls; a save that failed and was not made good by a later one (and a   *)
(* reset never is: the next save puts new credentials beside old keys).    *)
KeysPersisted ==
  UnderWay = {} /\ ~raced /\ unsaved = 0 => stored.key = last

(* A save ends, though each holds a connection while it waits for another  *)
(* one: the connections that the saves of one moment take from the pool    *)
(* come back (:53).                                                        *)
SavesEnd == \A c \in Calls : c \in UnderWay ~> c \notin UnderWay

=============================================================================
