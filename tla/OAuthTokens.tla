----------------------------- MODULE OAuthTokens -----------------------------
(***************************************************************************)
(* The stored OAuth logins of internal/oauth: managers that refresh a      *)
(* token before it is used, and the file of all tokens that saves and      *)
(* deletions rewrite under a lock file, here a BreakableLock, which may    *)
(* break: TokenLock shows that the lock file implements that.              *)
(*                                                                         *)
(* Tokens of one provider are numbered in the order in which its server    *)
(* issues them; a refresh token is good once, as with servers that rotate  *)
(* them.  Everybody else's tokens are one entry, there or not.  A user of  *)
(* the lock is a goroutine that performs one operation after another, the  *)
(* refreshes of a RefreshScheduler among them; the goroutines of a manager *)
(* share its store and its refresh lock.                                   *)
(***************************************************************************)
EXTENDS Naturals, FiniteSets, BreakableLock

CONSTANTS Managers,   \* one per process, or per use within one
          ManagerOf,  \* of each goroutine
          Tasks,      \* the operations each goroutine may perform
          MaxTokens   \* bound on the tokens issued

Operations == {"refresh", "login", "logout", "other"}
Nobody == "nobody"

ASSUME OAuthTokensAssumption ==
    /\ Nobody \notin Users
    /\ ManagerOf \in [Users -> Managers]
    /\ Tasks \in [Users -> SUBSET Operations]
    /\ MaxTokens \in Nat \ {0}

VARIABLES
    stored,      \* the file: the provider's token, and whether the other entry is there
    op, step,    \* each goroutine's operation, and where it is in it
    current,     \* the token it loaded
    fresh,       \* the token it got from the server
    state,       \* the file as it read it under the lock
    refreshing,  \* who holds the refresh lock of each manager
    issued,      \* the last token the server has issued
    taken,       \* the tokens whose refresh token the server has taken
    spent,       \* auxiliary: <<m, t>>: manager m has sent the refresh token of t,
                 \* and what it got was neither lost nor deleted since
    wasted       \* auxiliary: a manager has sent one again

lock == <<holders, broken>>
vars == <<lock, stored, op, step, current, fresh, state, refreshing, issued, taken, spent, wasted>>

NoToken == 0
Tokens == 1..MaxTokens
File == [token : Tokens \cup {NoToken}, other : BOOLEAN]

\* Within Store.mu; the last three also within the lock file.
InStore == {"acquire", "save", "read", "wrote"}

\* Type invariant.
TypeOK ==
    /\ holders = {p \in Users : step[p] \in InStore \ {"acquire"}}
    /\ stored \in File
    /\ op \in [Users -> Operations]
    /\ step \in [Users -> {"idle", "wait", "reload", "post", "lock"} \cup InStore]
    /\ current \in [Users -> Tokens \cup {NoToken}]
    /\ fresh \in [Users -> Tokens \cup {NoToken}]
    /\ state \in [Users -> File]
    /\ refreshing \in [Managers -> Users \cup {Nobody}]
    /\ issued \in Tokens
    /\ taken \subseteq Tokens
    /\ spent \subseteq Managers \X Tokens
    /\ wasted \in BOOLEAN

\* The user has logged in.
Login0 == [token |-> 1, other |-> FALSE]

Init ==
    /\ LockInit
    /\ stored = Login0
    /\ op = [p \in Users |-> "refresh"]
    /\ step = [p \in Users |-> "idle"]
    /\ current = [p \in Users |-> NoToken]
    /\ fresh = [p \in Users |-> NoToken]
    /\ state = [p \in Users |-> Login0]
    /\ refreshing = [m \in Managers |-> Nobody]
    /\ issued = 1
    /\ taken = {}
    /\ spent = {}
    /\ wasted = FALSE

\* Store.mu is held from before the lock file is asked for until after its release.
StoreIsFree(p) == \A q \in Users : ManagerOf[q] = ManagerOf[p] => step[q] \notin InStore

Step(p, from, to) == step[p] = from /\ step' = [step EXCEPT ![p] = to]

\* As if the refresh lock were kept when the token of another refresh is used.
EndKeepsTheLock(ps) ==
    /\ step' = [p \in Users |-> IF p \in ps THEN "idle" ELSE step[p]]
    /\ current' = [p \in Users |-> IF p \in ps THEN NoToken ELSE current[p]]
    /\ fresh' = [p \in Users |-> IF p \in ps THEN NoToken ELSE fresh[p]]
    /\ state' = [p \in Users |-> IF p \in ps THEN Login0 ELSE state[p]]
    /\ refreshing' = [m \in Managers |->
           IF refreshing[m] \in {p \in ps : step[p] # "reload"} THEN Nobody ELSE refreshing[m]]

\* The operations of some goroutines end, and let go of the refresh lock.
End(ps) ==
    /\ step' = [p \in Users |-> IF p \in ps THEN "idle" ELSE step[p]]
    /\ current' = [p \in Users |-> IF p \in ps THEN NoToken ELSE current[p]]
    /\ fresh' = [p \in Users |-> IF p \in ps THEN NoToken ELSE fresh[p]]
    /\ state' = [p \in Users |-> IF p \in ps THEN Login0 ELSE state[p]]
    /\ refreshing' = [m \in Managers |-> IF refreshing[m] \in ps THEN Nobody ELSE refreshing[m]]

-----------------------------------------------------------------------------
(* GetFresh with a token that needs a refresh, and Handle401.              *)

Load(p) ==
    /\ "refresh" \in Tasks[p] /\ StoreIsFree(p)
    /\ stored.token # NoToken
    /\ Step(p, "idle", "wait")
    /\ op' = [op EXCEPT ![p] = "refresh"]
    /\ current' = [current EXCEPT ![p] = stored.token]
    /\ UNCHANGED <<lock, stored, fresh, state, refreshing, issued, taken, spent, wasted>>

LockRefresh(p) ==
    /\ refreshing[ManagerOf[p]] = Nobody
    /\ Step(p, "wait", "reload")
    /\ refreshing' = [refreshing EXCEPT ![ManagerOf[p]] = p]
    /\ UNCHANGED <<lock, stored, op, current, fresh, state, issued, taken, spent, wasted>>

ReloadIgnored(p) ==
    /\ StoreIsFree(p)
    /\ Step(p, "reload", "post")
    /\ UNCHANGED <<lock, stored, op, current, fresh, state, refreshing, issued, taken, spent, wasted>>

\* Another token is there: somebody has refreshed meanwhile, and it is used.
\* The same or none, which a deletion leaves, goes on with the one loaded first.
Reload(p) ==
    /\ StoreIsFree(p)
    /\ \/ /\ stored.token \notin {current[p], NoToken}
          /\ step[p] = "reload" /\ End({p})
       \/ /\ stored.token \in {current[p], NoToken}
          /\ Step(p, "reload", "post")
          /\ UNCHANGED <<current, fresh, state, refreshing>>
    /\ UNCHANGED <<lock, stored, op, issued, taken, spent, wasted>>

\* Nothing came of tokens that some managers sent.
Lost(ms, ts) == spent' = {use \in spent : use[1] \notin ms \/ use[2] \notin ts}

\* Refresh: the server takes a refresh token once.  The answer may be lost.
Refresh(p) ==
    LET use == <<ManagerOf[p], current[p]>>
    IN /\ taken' = taken \cup {current[p]}
       /\ wasted' = (wasted \/ use \in spent)
       /\ \/ /\ current[p] \notin taken /\ issued < MaxTokens
             /\ issued' = issued + 1
             /\ fresh' = [fresh EXCEPT ![p] = issued + 1]
             /\ Step(p, "post", "lock")
             /\ spent' = spent \cup {use}
             /\ UNCHANGED <<current, state, refreshing>>
          \/ /\ step[p] = "post" /\ End({p})
             /\ Lost({ManagerOf[p]}, {current[p]})
             /\ UNCHANGED issued
       /\ UNCHANGED <<lock, stored, op>>

-----------------------------------------------------------------------------
(* Operations that write at once: a login, or a change to another entry,   *)
(* and a logout.                                                           *)

Login(p) ==
    /\ "login" \in Tasks[p] /\ issued < MaxTokens
    /\ Step(p, "idle", "lock")
    /\ op' = [op EXCEPT ![p] = "login"]
    /\ issued' = issued + 1
    /\ fresh' = [fresh EXCEPT ![p] = issued + 1]
    /\ UNCHANGED <<lock, stored, current, state, refreshing, taken, spent, wasted>>

LogoutOrOther(p) ==
    /\ \E o \in Tasks[p] \cap {"logout", "other"} : op' = [op EXCEPT ![p] = o]
    /\ Step(p, "idle", "lock")
    /\ UNCHANGED <<lock, stored, current, fresh, state, refreshing, issued, taken, spent, wasted>>

-----------------------------------------------------------------------------
(* Store.Save and Store.Delete: read, change and replace the file, under   *)
(* the lock file.                                                          *)

\* Another goroutine of the manager may hold Store.mu meanwhile.
LockStore(p) ==
    /\ StoreIsFree(p)
    /\ Step(p, "lock", "acquire")
    /\ UNCHANGED <<lock, stored, op, current, fresh, state, refreshing, issued, taken, spent, wasted>>

\* As if the lock file were opened without O_EXCL.
LockFileNotExclusive(p) ==
    /\ holders' = holders \cup {p}
    /\ Step(p, "acquire", "save")
    /\ UNCHANGED <<broken, stored, op, current, fresh, state, refreshing, issued, taken, spent, wasted>>

LockFile(p) ==
    /\ Take(p)
    /\ Step(p, "acquire", "save")
    /\ UNCHANGED <<stored, op, current, fresh, state, refreshing, issued, taken, spent, wasted>>

ReadState(p) ==
    /\ Step(p, "save", "read")
    /\ state' = [state EXCEPT ![p] = stored]
    /\ UNCHANGED <<lock, stored, op, current, fresh, refreshing, issued, taken, spent, wasted>>

Changed(p) ==
    CASE op[p] \in {"refresh", "login"} -> [state[p] EXCEPT !.token = fresh[p]]
      [] op[p] = "logout" -> [state[p] EXCEPT !.token = NoToken]
      [] OTHER -> [state[p] EXCEPT !.other = TRUE]

\* A temporary file and a rename.  Without this the operation ends in an error.
WriteState(p) ==
    /\ Step(p, "read", "wrote")
    /\ stored' = Changed(p)
    /\ state' = [state EXCEPT ![p] = Login0]
    /\ IF op[p] = "logout" THEN Lost(Managers, 1..issued) ELSE UNCHANGED spent
    /\ UNCHANGED <<lock, op, current, fresh, refreshing, issued, taken, wasted>>

\* The end of an operation, in success or for an error of the disk.
Unlock(p) ==
    /\ Drop(p) /\ End({p})
    /\ IF step[p] # "wrote" THEN Lost({ManagerOf[p]}, {current[p]}) ELSE UNCHANGED spent
    /\ UNCHANGED <<stored, op, issued, taken, wasted>>

\* After five seconds, or for an error of the disk.
GiveUp(p) ==
    /\ step[p] = "acquire" /\ End({p})
    /\ Lost({ManagerOf[p]}, {current[p]})
    /\ UNCHANGED <<lock, stored, op, issued, taken, wasted>>

\* A process dies, and another takes its place.
Die(m) ==
    LET ps == {p \in Users : ManagerOf[p] = m}
    IN /\ \E p \in ps : step[p] # "idle"
       /\ End(ps)
       /\ holders' = holders \ ps
       /\ Lost({m}, {current[p] : p \in ps})
       /\ UNCHANGED <<broken, stored, op, issued, taken, wasted>>

\* A process that took the lock file for stale has moved aside that of another,
\* younger holder: from then on a second one may enter.
Displace ==
    /\ ~broken /\ Break
    /\ UNCHANGED <<stored, op, step, current, fresh, state, refreshing, issued, taken, spent, wasted>>

-----------------------------------------------------------------------------

GoOn(p) ==
    \/ LockRefresh(p) \/ Reload(p) \/ Refresh(p) \/ LockStore(p) \/ LockFile(p) \/ GiveUp(p)
    \/ ReadState(p) \/ WriteState(p) \/ Unlock(p)

Next ==
    \/ \E p \in Users : Load(p) \/ Login(p) \/ LogoutOrOther(p) \/ GoOn(p)
    \/ \E m \in Managers : Die(m)
    \/ Displace

\* An operation goes on; a mutex of Go lets a waiter in that has waited long,
\* an exchange with the server and a wait for the lock file have a deadline.
Spec ==
    /\ Init /\ [][Next]_vars
    /\ \A p \in Users : SF_vars(GoOn(p))

-----------------------------------------------------------------------------
(* Properties.                                                             *)

\* "so parallel callers don't each spend the single-use refresh token"
\* (manager.go): the callers of one manager send a refresh token once, unless
\* the first of them could not store what it got, a logout came between, or the
\* lock file was broken, so that another save put the old token back.
RefreshIsSingleFlight == TypeOK /\ (wasted => broken)

\* Nobody replaces the file between the read and the write of one who holds the
\* lock, so that no save undoes that of another entry, until the lock file is broken.
SavesAreKept == ~broken => \A p \in Users : step[p] = "read" => state[p] = stored

\* Callers of one key wait for each other, for Store.mu and for the lock file,
\* in this order: every operation ends.
OperationsEnd == \A p \in Users : []<>(step[p] = "idle")

-----------------------------------------------------------------------------
(* Claims that the interleavings refute.                                   *)

\* Callers in two managers are about to send the same refresh token.
RefreshTokensAreSpentOnce ==
    \A p, q \in Users : p # q /\ step[p] = "post" /\ step[q] = "post" => current[p] # current[q]

\* "Logout removes a provider's stored token": a refresh under way brings it back.
LogoutStands ==
    [][stored.token = NoToken /\ stored'.token # NoToken =>
          \E p \in Users : op[p] = "login" /\ step'[p] = "wrote"]_vars

\* A refresh of the old login under way replaces the token of a new one.
LoginStands == [][stored'.token # NoToken => stored'.token >= stored.token]_vars
=============================================================================
