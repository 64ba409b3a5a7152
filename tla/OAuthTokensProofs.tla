-------------------------- MODULE OAuthTokensProofs --------------------------
(***************************************************************************)
(* Theorems about OAuthTokens, for every set of goroutines and managers,   *)
(* whatever operations each may perform, and every number of tokens; and   *)
(* about the lock file that it uses, TokenLock, for every set of           *)
(* processes and every number of acquisitions and crashes.                 *)
(***************************************************************************)
EXTENDS OAuthTokens, TLAPS

USE OAuthTokensAssumption

-----------------------------------------------------------------------------
(* The inductive invariant.                                                *)

\* The lock file has one holder.
StoreIsExclusive == \A p, q \in holders : p = q

\* The steps at which an operation has still to replace the file.
Unsaved == {"lock", "acquire", "save", "read"}

\* A refresh, from its second look at the stored token to its end.
Refreshes(p) ==
    \/ step[p] \in {"reload", "post"}
    \/ op[p] = "refresh" /\ step[p] \in Unsaved \cup {"wrote"}

\* A refresh holds the refresh lock of its manager.
RefreshesAreApart == \A p \in Users : Refreshes(p) => refreshing[ManagerOf[p]] = p

\* Only tokens that were issued are about, and a refresh has one.
TokensAreIssued ==
    /\ stored.token <= issued
    /\ \A p \in Users : current[p] <= issued /\ fresh[p] <= issued /\ state[p].token <= issued
    /\ \A use \in spent : use[2] <= issued
    /\ \A p \in Users : step[p] \in {"wait", "reload", "post"} => op[p] = "refresh" /\ current[p] # NoToken

\* A token on its way into the file is nowhere else yet.
Pending(p) == op[p] \in {"refresh", "login"} /\ step[p] \in Unsaved

\* It is not stored, loaded or sent by anybody, and on its way once.
FreshIsNew ==
    \A p \in Users : Pending(p) =>
       /\ fresh[p] # NoToken
       /\ fresh[p] # stored.token
       /\ \A q \in Users : current[q] # fresh[p]
       /\ \A q \in Users : Pending(q) /\ fresh[q] = fresh[p] => q = p
       /\ \A use \in spent : use[2] # fresh[p]

\* Who spent a refresh token is about to store what it got, or the file has moved on.
InHand(m, t) ==
    \E p \in Users : ManagerOf[p] = m /\ op[p] = "refresh" /\ step[p] \in Unsaved /\ current[p] = t

\* A token the manager has sent is not what another caller of it would load.
SpentIsReplaced ==
    \A m \in Managers, t \in Tokens : <<m, t>> \in spent =>
       InHand(m, t) \/ stored.token \notin {t, NoToken}

\* Who is about to send one has not sent it before.
PostIsFirst == \A p \in Users : step[p] = "post" => <<ManagerOf[p], current[p]>> \notin spent

\* What holds whatever becomes of the lock file ...
Typed == TypeOK /\ TokensAreIssued

\* ... what holds until it is broken: the first two lines are what the theorems state ...
Sound ==
    /\ ~broken /\ ~wasted
    /\ StoreIsExclusive /\ SavesAreKept
    /\ RefreshesAreApart /\ FreshIsNew
    /\ SpentIsReplaced /\ PostIsFirst

\* ... and all of it.
IInv == Typed /\ (broken \/ Sound)

\* What the types say of the numbers.
LEMMA Numbers ==
  ASSUME TypeOK
  PROVE  /\ issued \in Nat /\ issued <= MaxTokens /\ stored.token \in Nat
         /\ \A q \in Users : current[q] \in Nat /\ fresh[q] \in Nat /\ state[q].token \in Nat
         /\ \A use \in spent : use = <<use[1], use[2]>> /\ use[1] \in Managers /\ use[2] \in Tokens /\ use[2] \in Nat
BY DEF TypeOK, File, Tokens, NoToken

-----------------------------------------------------------------------------
(* The types, and which tokens there are.                                  *)

\* What an operation leaves at its end was issued.
LEMMA EndIssued ==
  ASSUME TypeOK, TokensAreIssued, NEW ps, End(ps)
  PROVE  /\ \A q \in Users : current'[q] <= issued /\ fresh'[q] <= issued /\ state'[q].token <= issued
         /\ \A q \in Users : step'[q] \in {"wait", "reload", "post"} => step[q] = step'[q] /\ current'[q] = current[q]
<1>1. NoToken <= issued /\ Login0.token <= issued
  BY Numbers DEF TypeOK, NoToken, Login0, Tokens
<1>2. \A q \in Users : /\ current'[q] \in {current[q], NoToken} /\ fresh'[q] \in {fresh[q], NoToken}
                      /\ state'[q] \in {state[q], Login0}
  BY DEF End
<1>3. \A q \in Users : step'[q] \in {"wait", "reload", "post"} => step[q] = step'[q] /\ current'[q] = current[q]
  BY DEF End
<1> QED
  BY <1>1, <1>2, <1>3 DEF TokensAreIssued

\* So was what an operation writes.
LEMMA ChangedIssued ==
  ASSUME TypeOK, TokensAreIssued, NEW p \in Users
  PROVE  Changed(p).token <= issued
<1>1. state[p] \in File /\ state[p].token <= issued /\ fresh[p] <= issued /\ op[p] \in Operations
  BY DEF TypeOK, TokensAreIssued
<1>2. NoToken <= issued
  BY Numbers DEF NoToken
<1>3. CASE op[p] \in {"refresh", "login"}
  BY <1>1, <1>3 DEF Changed, File
<1>4. CASE op[p] = "logout"
  BY <1>1, <1>2, <1>4 DEF Changed, File
<1>5. CASE op[p] = "other"
  BY <1>1, <1>5 DEF Changed, File
<1> QED
  BY <1>1, <1>3, <1>4, <1>5 DEF Operations

\* A token that is loaded has been issued.
LEMMA LoadTypes ==
  ASSUME Typed, NEW p \in Users, Load(p)
  PROVE  Typed'
<1>1. TypeOK'
  BY DEF Typed, Load, TypeOK, InStore, Step, lock, File
<1>2. TokensAreIssued'
  BY DEF Typed, Load, TypeOK, TokensAreIssued, Step
<1> QED
  BY <1>1, <1>2 DEF Typed

\* The second look of a refresh is that of one which has a token.
LEMMA LockRefreshTypes ==
  ASSUME Typed, NEW p \in Users, LockRefresh(p)
  PROVE  Typed'
<1>1. TypeOK'
  BY DEF Typed, LockRefresh, TypeOK, InStore, Step, lock
<1>2. TokensAreIssued'
  BY DEF Typed, LockRefresh, TokensAreIssued, Step
<1> QED
  BY <1>1, <1>2 DEF Typed

\* Whether another token is stored or not, the refresh has kept its own or has ended.
LEMMA ReloadTypes ==
  ASSUME Typed, NEW p \in Users, Reload(p)
  PROVE  Typed'
<1>1. CASE stored.token \notin {current[p], NoToken} /\ step[p] = "reload" /\ End({p})
  <2>1. TypeOK'
    BY <1>1 DEF Typed, Reload, TypeOK, InStore, End, lock, File, Tokens, Login0
  <2>2. TokensAreIssued'
    BY <1>1, EndIssued DEF Typed, Reload, TokensAreIssued
  <2> QED
    BY <2>1, <2>2 DEF Typed
<1>2. CASE /\ stored.token \in {current[p], NoToken} /\ Step(p, "reload", "post")
         /\ UNCHANGED <<current, fresh, state, refreshing>>
  <2>1. TypeOK'
    BY <1>2 DEF Typed, Reload, TypeOK, InStore, Step, lock
  <2>2. TokensAreIssued'
    BY <1>2 DEF Typed, Reload, TokensAreIssued, Step
  <2> QED
    BY <2>1, <2>2 DEF Typed
<1> QED
  BY <1>1, <1>2 DEF Reload

\* A refresh sends a token that was issued, and its answer is the last one.
LEMMA RefreshTypes ==
  ASSUME Typed, NEW p \in Users, Refresh(p)
  PROVE  Typed'
<1>1. CASE /\ current[p] \notin taken /\ issued < MaxTokens
         /\ issued' = issued + 1
         /\ fresh' = [fresh EXCEPT ![p] = issued + 1]
         /\ Step(p, "post", "lock")
         /\ spent' = spent \cup {<<ManagerOf[p], current[p]>>}
         /\ UNCHANGED <<current, state, refreshing>>
  <2>1. TypeOK'
    <3>0. current[p] \in Tokens /\ ManagerOf[p] \in Managers
      BY DEF Typed, TypeOK, TokensAreIssued, Refresh, Step
    <3>1. taken' \subseteq Tokens
      BY <3>0 DEF Typed, TypeOK, Refresh
    <3>4. spent' \subseteq Managers \X Tokens
      BY <3>0 DEF Typed, TypeOK, Refresh, Lost
    <3>3. wasted' \in BOOLEAN
      BY DEF Refresh
    <3>2. issued' \in Tokens
      BY <1>1, Numbers DEF Typed, Tokens
    <3> QED
      BY <1>1, <3>1, <3>2 DEF Typed, Refresh, TypeOK, InStore, Step, lock
  <2>2. TokensAreIssued'
    <3>1. \A use \in spent' : use[2] <= issued'
      BY <1>1, Numbers DEF Typed, TokensAreIssued
    <3> QED
      BY <1>1, Numbers DEF Typed, Refresh, TokensAreIssued, Step
  <2> QED
    BY <2>1, <2>2 DEF Typed
<1>2. CASE /\ step[p] = "post" /\ End({p})
         /\ Lost({ManagerOf[p]}, {current[p]})
         /\ UNCHANGED issued
  <2>1. TypeOK'
    <3>0. current[p] \in Tokens /\ ManagerOf[p] \in Managers
      BY DEF Typed, TypeOK, TokensAreIssued, Refresh, Step
    <3>1. taken' \subseteq Tokens
      BY <3>0 DEF Typed, TypeOK, Refresh
    <3>4. spent' \subseteq Managers \X Tokens
      BY <3>0 DEF Typed, TypeOK, Refresh, Lost
    <3>3. wasted' \in BOOLEAN
      BY DEF Refresh
    <3>2. issued' \in Tokens
      BY <1>2 DEF Typed, TypeOK
    <3> QED
      BY <1>2, <3>1, <3>4 DEF Typed, Refresh, TypeOK, InStore, End, lock, File, Tokens,
         Login0
  <2>2. TokensAreIssued'
    BY <1>2, EndIssued DEF Typed, Refresh, TokensAreIssued, Lost
  <2> QED
    BY <2>1, <2>2 DEF Typed
<1> QED
  BY <1>1, <1>2 DEF Refresh

\* So is the token of a login.
LEMMA LoginTypes ==
  ASSUME Typed, NEW p \in Users, Login(p)
  PROVE  Typed'
<1>1. TypeOK'
  BY DEF Typed, Login, TypeOK, InStore, Step, lock, Tokens
<1>2. TokensAreIssued'
  <2>1. issued' = issued + 1 /\ fresh' = [fresh EXCEPT ![p] = issued + 1]
    BY DEF Login
  <2> QED
    BY Numbers DEF Typed, Login, TokensAreIssued, Step
<1> QED
  BY <1>1, <1>2 DEF Typed

\* A logout and the change of another entry begin without a token.
LEMMA LogoutOrOtherTypes ==
  ASSUME Typed, NEW p \in Users, LogoutOrOther(p)
  PROVE  Typed'
<1>1. TypeOK'
  BY DEF Typed, LogoutOrOther, TypeOK, InStore, Step, lock
<1>2. TokensAreIssued'
  BY DEF Typed, LogoutOrOther, TokensAreIssued, Step
<1> QED
  BY <1>1, <1>2 DEF Typed

\* Store.mu is about no token.
LEMMA LockStoreTypes ==
  ASSUME Typed, NEW p \in Users, LockStore(p)
  PROVE  Typed'
<1>1. TypeOK'
  BY DEF Typed, LockStore, TypeOK, InStore, Step, lock
<1>2. TokensAreIssued'
  BY DEF Typed, LockStore, TokensAreIssued, Step
<1> QED
  BY <1>1, <1>2 DEF Typed

\* Who creates the lock file becomes a holder.
LEMMA LockFileTypes ==
  ASSUME Typed, NEW p \in Users, LockFile(p)
  PROVE  Typed'
<1>1. TypeOK'
  BY DEF Typed, LockFile, TypeOK, InStore, Step, Take
<1>2. TokensAreIssued'
  BY DEF Typed, LockFile, TokensAreIssued, Step
<1> QED
  BY <1>1, <1>2 DEF Typed

\* What is read is stored.
LEMMA ReadStateTypes ==
  ASSUME Typed, NEW p \in Users, ReadState(p)
  PROVE  Typed'
<1>1. TypeOK'
  BY DEF Typed, ReadState, TypeOK, InStore, Step, lock
<1>2. TokensAreIssued'
  BY DEF Typed, ReadState, TokensAreIssued, Step
<1> QED
  BY <1>1, <1>2 DEF Typed

\* What is written is fresh, was read or is no token.
LEMMA WriteStateTypes ==
  ASSUME Typed, NEW p \in Users, WriteState(p)
  PROVE  Typed'
<1>1. state[p] \in File /\ fresh[p] \in Tokens \cup {NoToken} /\ op[p] \in Operations
  BY DEF Typed, TypeOK
<1>2. stored' \in File /\ state' \in [Users -> File] /\ spent' \subseteq spent
  <2>1. Changed(p) \in File
    <3>1. CASE op[p] \in {"refresh", "login"}
      BY <1>1, <3>1 DEF Changed, File
    <3>2. CASE op[p] = "logout"
      BY <1>1, <3>2 DEF Changed, File
    <3>3. CASE op[p] = "other"
      BY <1>1, <3>3 DEF Changed, File
    <3> QED
      BY <1>1, <3>1, <3>2, <3>3 DEF Operations
  <2> QED
    BY <2>1 DEF Typed, TypeOK, WriteState, Lost, Login0, File, Tokens
<1>3. TypeOK'
  BY <1>2 DEF Typed, WriteState, TypeOK, InStore, Step, lock
<1>4. TokensAreIssued'
  <2>1. stored'.token <= issued
    BY ChangedIssued DEF Typed, WriteState
  <2>2. Login0.token <= issued
    BY Numbers DEF Typed, TypeOK, Tokens, Login0
  <2> QED
    BY <1>2, <2>1, <2>2 DEF Typed, TypeOK, WriteState, TokensAreIssued, Step
<1> QED
  BY <1>3, <1>4 DEF Typed

\* Who removes the lock file is a holder no longer.
LEMMA UnlockTypes ==
  ASSUME Typed, NEW p \in Users, Unlock(p)
  PROVE  Typed'
<1>1. TypeOK'
  BY DEF Typed, Unlock, TypeOK, InStore, End, Lost, Drop, File, Tokens, Login0
<1>2. TokensAreIssued'
  BY EndIssued DEF Typed, Unlock, TokensAreIssued, Lost
<1> QED
  BY <1>1, <1>2 DEF Typed

\* Who gives up was none.
LEMMA GiveUpTypes ==
  ASSUME Typed, NEW p \in Users, GiveUp(p)
  PROVE  Typed'
<1>1. TypeOK'
  BY DEF Typed, GiveUp, TypeOK, InStore, End, lock, Lost, File, Tokens, Login0
<1>2. TokensAreIssued'
  BY EndIssued DEF Typed, GiveUp, lock, TokensAreIssued, Lost
<1> QED
  BY <1>1, <1>2 DEF Typed

\* With a process go its holders.
LEMMA DieTypes ==
  ASSUME Typed, NEW m \in Managers, Die(m)
  PROVE  Typed'
<1>1. TypeOK'
  BY DEF Typed, Die, TypeOK, InStore, End, Lost, File, Tokens, Login0
<1>2. TokensAreIssued'
  BY EndIssued DEF Typed, Die, TokensAreIssued, Lost
<1> QED
  BY <1>1, <1>2 DEF Typed

\* Of a broken lock file nothing is said but the types.
LEMMA DisplaceTypes ==
  ASSUME Typed, Displace
  PROVE  Typed'
BY DEF Typed, TypeOK, TokensAreIssued, Displace, Break

\* The types stay.
LEMMA TypesStay ==
  ASSUME Typed, Next
  PROVE  Typed'
BY LoadTypes, LockRefreshTypes, ReloadTypes, RefreshTypes, LoginTypes, LogoutOrOtherTypes, LockStoreTypes, LockFileTypes, ReadStateTypes, WriteStateTypes, UnlockTypes, GiveUpTypes, DieTypes, DisplaceTypes
   DEF Next, GoOn

-----------------------------------------------------------------------------
(* Until the lock file is broken.                                          *)

\* What is loaded is stored, so it is nobody's fresh token.
LEMMA LoadKeeps ==
  ASSUME Typed, Sound, NEW p \in Users, Load(p)
  PROVE  Sound'
<1>1. ~broken' /\ ~wasted'
  BY DEF Typed, Sound, Load, lock
<1>2. StoreIsExclusive'
  BY DEF Typed, Sound, Load, StoreIsExclusive, lock
<1>3. SavesAreKept'
  BY DEF Typed, Sound, Load, SavesAreKept, Step
<1>4. RefreshesAreApart'
  BY DEF Typed, Sound, Load, RefreshesAreApart, Refreshes, Unsaved, Step
<1>5. FreshIsNew'
  BY DEF Typed, Sound, Load, FreshIsNew, Pending, Unsaved, Step
<1>6. SpentIsReplaced'
  BY DEF Typed, Sound, Load, SpentIsReplaced, InHand, Unsaved, Step
<1>7. PostIsFirst'
  BY DEF Typed, Sound, Load, PostIsFirst, Step
<1> QED
  BY <1>1, <1>2, <1>3, <1>4, <1>5, <1>6, <1>7 DEF Sound

\* The refresh lock is free, so the second look is the only one of its manager.
LEMMA LockRefreshKeeps ==
  ASSUME Typed, Sound, NEW p \in Users, LockRefresh(p)
  PROVE  Sound'
<1>1. ~broken' /\ ~wasted'
  BY DEF Typed, Sound, LockRefresh, lock
<1>2. StoreIsExclusive'
  BY DEF Typed, Sound, LockRefresh, StoreIsExclusive, lock
<1>3. SavesAreKept'
  BY DEF Typed, Sound, LockRefresh, SavesAreKept, Step
<1>4. RefreshesAreApart'
  BY DEF Typed, Sound, LockRefresh, TypeOK, RefreshesAreApart, Refreshes, Step
<1>5. FreshIsNew'
  BY DEF Typed, Sound, LockRefresh, FreshIsNew, Pending, Unsaved, Step
<1>6. SpentIsReplaced'
  BY DEF Typed, Sound, LockRefresh, SpentIsReplaced, InHand, Unsaved, Step
<1>7. PostIsFirst'
  BY DEF Typed, Sound, LockRefresh, PostIsFirst, Step
<1> QED
  BY <1>1, <1>2, <1>3, <1>4, <1>5, <1>6, <1>7 DEF Sound

\* A refresh goes on to send a token that is stored, or that was when there was none:
\* its manager has not sent it.
LEMMA ReloadKeeps ==
  ASSUME Typed, Sound, NEW p \in Users, Reload(p)
  PROVE  Sound'
<1>1. CASE stored.token \notin {current[p], NoToken} /\ step[p] = "reload" /\ End({p})
  <2>1. ~broken' /\ ~wasted'
    BY DEF Typed, Sound, Reload, lock
  <2>2. StoreIsExclusive'
    BY DEF Typed, Sound, Reload, StoreIsExclusive, lock
  <2>3. SavesAreKept'
    BY DEF Typed, Sound, Reload, TypeOK, SavesAreKept, Step, End
  <2>4. RefreshesAreApart'
    BY <1>1 DEF Typed, Sound, Reload, RefreshesAreApart, Refreshes, Unsaved, End
  <2>5. FreshIsNew'
    BY <1>1 DEF Typed, Sound, Reload, FreshIsNew, Pending, Unsaved, End
  <2>6. SpentIsReplaced'
    BY <1>1 DEF Typed, Sound, Reload, SpentIsReplaced, InHand, End
  <2>7. PostIsFirst'
    BY <1>1 DEF Typed, Sound, Reload, PostIsFirst, End
  <2> QED
    BY <2>1, <2>2, <2>3, <2>4, <2>5, <2>6, <2>7 DEF Sound
<1>2. CASE /\ stored.token \in {current[p], NoToken} /\ Step(p, "reload", "post")
         /\ UNCHANGED <<current, fresh, state, refreshing>>
  <2>1. ~broken' /\ ~wasted'
    BY DEF Typed, Sound, Reload, lock
  <2>2. StoreIsExclusive'
    BY DEF Typed, Sound, Reload, StoreIsExclusive, lock
  <2>3. SavesAreKept'
    BY DEF Typed, Sound, Reload, TypeOK, SavesAreKept, Step, End
  <2>4. RefreshesAreApart'
    BY <1>2 DEF Typed, Sound, Reload, RefreshesAreApart, Refreshes, Step
  <2>5. FreshIsNew'
    BY <1>2 DEF Typed, Sound, Reload, FreshIsNew, Pending, Unsaved, Step
  <2>6. SpentIsReplaced'
    BY <1>2 DEF Typed, Sound, Reload, SpentIsReplaced, InHand, Unsaved, Step
  <2>7. PostIsFirst'
    BY <1>2 DEF Typed, Sound, Reload, TypeOK, RefreshesAreApart, SpentIsReplaced, PostIsFirst,
       InHand, Refreshes, Unsaved, Step
  <2> QED
    BY <2>1, <2>2, <2>3, <2>4, <2>5, <2>6, <2>7 DEF Sound
<1> QED
  BY <1>1, <1>2 DEF Reload

\* The answer is a token that was not issued before, and who got it has it in hand;
\* without an answer nothing came of the token that was sent.
LEMMA RefreshKeeps ==
  ASSUME Typed, Sound, NEW p \in Users, Refresh(p)
  PROVE  Sound'
<1>1. CASE /\ current[p] \notin taken /\ issued < MaxTokens
         /\ issued' = issued + 1
         /\ fresh' = [fresh EXCEPT ![p] = issued + 1]
         /\ Step(p, "post", "lock")
         /\ spent' = spent \cup {<<ManagerOf[p], current[p]>>}
         /\ UNCHANGED <<current, state, refreshing>>
  <2>1. ~broken' /\ ~wasted'
    BY DEF Typed, Sound, Refresh, lock, TypeOK, PostIsFirst, Step
  <2>2. StoreIsExclusive'
    BY DEF Typed, Sound, Refresh, StoreIsExclusive, lock
  <2>3. SavesAreKept'
    BY DEF Typed, Sound, Refresh, TypeOK, SavesAreKept, Step, End
  <2>4. RefreshesAreApart'
    BY <1>1 DEF Typed, Sound, Refresh, RefreshesAreApart, Refreshes, Step
  <2>5. FreshIsNew'
    BY <1>1 DEF Typed, Sound, Refresh, TypeOK, TokensAreIssued, FreshIsNew, Pending, Step, Tokens,
       NoToken
  <2>6. SpentIsReplaced'
    <3> SUFFICES ASSUME NEW m \in Managers, NEW t \in Tokens, <<m, t>> \in spent'
                 PROVE  InHand(m, t)' \/ stored'.token \notin {t, NoToken}
      BY DEF SpentIsReplaced
    <3>1. CASE <<m, t>> = <<ManagerOf[p], current[p]>>
      <4>1. step'[p] = "lock" /\ op'[p] = "refresh" /\ current'[p] = t /\ ManagerOf[p] = m
        BY <1>1, <3>1 DEF Typed, Sound, Refresh, TypeOK, TokensAreIssued, Step
      <4> QED
        BY <4>1 DEF InHand, Unsaved
    <3>2. CASE <<m, t>> \in spent
      BY <3>2 DEF Typed, Sound, Refresh, TypeOK, SpentIsReplaced, PostIsFirst, InHand, Step, End
    <3> QED
      BY <1>1, <3>1, <3>2
  <2>7. PostIsFirst'
    BY <1>1 DEF Typed, Sound, TypeOK, RefreshesAreApart, PostIsFirst, Refreshes, Step
  <2> QED
    BY <2>1, <2>2, <2>3, <2>4, <2>5, <2>6, <2>7 DEF Sound
<1>2. CASE /\ step[p] = "post" /\ End({p})
         /\ Lost({ManagerOf[p]}, {current[p]})
         /\ UNCHANGED issued
  <2>1. ~broken' /\ ~wasted'
    BY <1>2 DEF Typed, Sound, Refresh, lock, TypeOK, PostIsFirst
  <2>2. StoreIsExclusive'
    BY DEF Typed, Sound, Refresh, StoreIsExclusive, lock
  <2>3. SavesAreKept'
    BY DEF Typed, Sound, Refresh, TypeOK, SavesAreKept, Step, End
  <2>4. RefreshesAreApart'
    BY <1>2 DEF Typed, Sound, Refresh, RefreshesAreApart, Refreshes, Unsaved, End
  <2>5. FreshIsNew'
    BY <1>2 DEF Typed, Sound, Refresh, FreshIsNew, Pending, Unsaved, End, Lost
  <2>6. SpentIsReplaced'
    BY <1>2 DEF Typed, Sound, Refresh, SpentIsReplaced, InHand, End, Lost
  <2>7. PostIsFirst'
    BY <1>2 DEF Typed, Sound, TypeOK, PostIsFirst, End, Lost
  <2> QED
    BY <2>1, <2>2, <2>3, <2>4, <2>5, <2>6, <2>7 DEF Sound
<1> QED
  BY <1>1, <1>2 DEF Refresh

\* A login brings a token that was not issued before.
LEMMA LoginKeeps ==
  ASSUME Typed, Sound, NEW p \in Users, Login(p)
  PROVE  Sound'
<1>1. ~broken' /\ ~wasted'
  BY DEF Typed, Sound, Login, lock
<1>2. StoreIsExclusive'
  BY DEF Typed, Sound, Login, StoreIsExclusive, lock
<1>3. SavesAreKept'
  BY DEF Typed, Sound, Login, SavesAreKept, Step
<1>4. RefreshesAreApart'
  BY DEF Typed, Sound, Login, TypeOK, RefreshesAreApart, Refreshes, Step
<1>5. FreshIsNew'
  BY DEF Typed, Sound, Login, TypeOK, TokensAreIssued, FreshIsNew, Pending, Step, Tokens, NoToken
<1>6. SpentIsReplaced'
  BY DEF Typed, Sound, Login, SpentIsReplaced, InHand, Unsaved, Step
<1>7. PostIsFirst'
  BY DEF Typed, Sound, Login, PostIsFirst, Step
<1> QED
  BY <1>1, <1>2, <1>3, <1>4, <1>5, <1>6, <1>7 DEF Sound

\* A logout and the change of another entry bring no token.
LEMMA LogoutOrOtherKeeps ==
  ASSUME Typed, Sound, NEW p \in Users, LogoutOrOther(p)
  PROVE  Sound'
<1>1. ~broken' /\ ~wasted'
  BY DEF Typed, Sound, LogoutOrOther, lock
<1>2. StoreIsExclusive'
  BY DEF Typed, Sound, LogoutOrOther, StoreIsExclusive, lock
<1>3. SavesAreKept'
  BY DEF Typed, Sound, LogoutOrOther, SavesAreKept, Step
<1>4. RefreshesAreApart'
  BY DEF Typed, Sound, LogoutOrOther, TypeOK, RefreshesAreApart, Refreshes, Step
<1>5. FreshIsNew'
  BY DEF Typed, Sound, LogoutOrOther, TypeOK, FreshIsNew, Pending, Step
<1>6. SpentIsReplaced'
  BY DEF Typed, Sound, LogoutOrOther, SpentIsReplaced, InHand, Unsaved, Step
<1>7. PostIsFirst'
  BY DEF Typed, Sound, LogoutOrOther, PostIsFirst, Step
<1> QED
  BY <1>1, <1>2, <1>3, <1>4, <1>5, <1>6, <1>7 DEF Sound

\* Store.mu changes nothing that the invariant is about.
LEMMA LockStoreKeeps ==
  ASSUME Typed, Sound, NEW p \in Users, LockStore(p)
  PROVE  Sound'
<1>1. ~broken' /\ ~wasted'
  BY DEF Typed, Sound, LockStore, lock
<1>2. StoreIsExclusive'
  BY DEF Typed, Sound, LockStore, StoreIsExclusive, lock
<1>3. SavesAreKept'
  BY DEF Typed, Sound, LockStore, SavesAreKept, Step
<1>4. RefreshesAreApart'
  BY DEF Typed, Sound, LockStore, RefreshesAreApart, Refreshes, Unsaved, Step
<1>5. FreshIsNew'
  BY DEF Typed, Sound, LockStore, FreshIsNew, Pending, Unsaved, Step
<1>6. SpentIsReplaced'
  BY DEF Typed, Sound, LockStore, SpentIsReplaced, InHand, Unsaved, Step
<1>7. PostIsFirst'
  BY DEF Typed, Sound, LockStore, PostIsFirst, Step
<1> QED
  BY <1>1, <1>2, <1>3, <1>4, <1>5, <1>6, <1>7 DEF Sound

\* The lock file is created by one at a time.
LEMMA LockFileKeeps ==
  ASSUME Typed, Sound, NEW p \in Users, LockFile(p)
  PROVE  Sound'
<1>1. ~broken' /\ ~wasted'
  BY DEF Typed, Sound, LockFile, Take
<1>2. StoreIsExclusive'
  BY DEF Typed, Sound, LockFile, StoreIsExclusive, Take
<1>3. SavesAreKept'
  BY DEF Typed, Sound, LockFile, SavesAreKept, Step
<1>4. RefreshesAreApart'
  BY DEF Typed, Sound, LockFile, RefreshesAreApart, Refreshes, Unsaved, Step
<1>5. FreshIsNew'
  BY DEF Typed, Sound, LockFile, FreshIsNew, Pending, Unsaved, Step
<1>6. SpentIsReplaced'
  BY DEF Typed, Sound, LockFile, SpentIsReplaced, InHand, Unsaved, Step
<1>7. PostIsFirst'
  BY DEF Typed, Sound, LockFile, PostIsFirst, Step
<1> QED
  BY <1>1, <1>2, <1>3, <1>4, <1>5, <1>6, <1>7 DEF Sound

\* What is read under the lock file is what is stored.
LEMMA ReadStateKeeps ==
  ASSUME Typed, Sound, NEW p \in Users, ReadState(p)
  PROVE  Sound'
<1>1. ~broken' /\ ~wasted'
  BY DEF Typed, Sound, ReadState, lock
<1>2. StoreIsExclusive'
  BY DEF Typed, Sound, ReadState, StoreIsExclusive, lock
<1>3. SavesAreKept'
  BY DEF Typed, Sound, ReadState, TypeOK, SavesAreKept, Step
<1>4. RefreshesAreApart'
  BY DEF Typed, Sound, ReadState, RefreshesAreApart, Refreshes, Unsaved, Step
<1>5. FreshIsNew'
  BY DEF Typed, Sound, ReadState, FreshIsNew, Pending, Unsaved, Step
<1>6. SpentIsReplaced'
  BY DEF Typed, Sound, ReadState, SpentIsReplaced, InHand, Unsaved, Step
<1>7. PostIsFirst'
  BY DEF Typed, Sound, ReadState, PostIsFirst, Step
<1> QED
  BY <1>1, <1>2, <1>3, <1>4, <1>5, <1>6, <1>7 DEF Sound

\* Nobody else is between read and write; a fresh token replaces what was spent, and
\* a logout takes back what was sent before.
LEMMA WriteStateKeeps ==
  ASSUME Typed, Sound, NEW p \in Users, WriteState(p)
  PROVE  Sound'
<1>1. CASE op[p] \in {"refresh", "login"}
  <2>1. ~broken' /\ ~wasted'
    BY DEF Typed, Sound, WriteState, lock
  <2>2. StoreIsExclusive'
    BY DEF Typed, Sound, WriteState, StoreIsExclusive, lock
  <2>3. SavesAreKept'
    BY <1>1 DEF Typed, Sound, WriteState, TypeOK, StoreIsExclusive, SavesAreKept,
       RefreshesAreApart, TokensAreIssued, FreshIsNew, SpentIsReplaced, PostIsFirst,
       InHand, Pending, Refreshes, Unsaved, InStore, StoreIsFree, Step, End, lock, Lost,
       Take, Drop, Changed, File, Tokens, NoToken, Operations, Login0, Nobody
  <2>4. RefreshesAreApart'
    BY DEF Typed, Sound, WriteState, RefreshesAreApart, Refreshes, Unsaved, Step
  <2>5. FreshIsNew'
    BY <1>1 DEF Typed, Sound, WriteState, TypeOK, FreshIsNew, Pending, Unsaved, Step, Changed
  <2>6. SpentIsReplaced'
    BY <1>1 DEF Typed, Sound, WriteState, FreshIsNew, SpentIsReplaced, Pending, Unsaved, Step,
       Changed
  <2>7. PostIsFirst'
    BY <1>1 DEF Typed, Sound, WriteState, PostIsFirst, Step
  <2> QED
    BY <2>1, <2>2, <2>3, <2>4, <2>5, <2>6, <2>7 DEF Sound
<1>2. CASE op[p] = "logout"
  <2>1. ~broken' /\ ~wasted'
    BY DEF Typed, Sound, WriteState, lock
  <2>2. StoreIsExclusive'
    BY DEF Typed, Sound, WriteState, StoreIsExclusive, lock
  <2>3. SavesAreKept'
    BY DEF Typed, Sound, WriteState, TypeOK, StoreIsExclusive, SavesAreKept, Step
  <2>4. RefreshesAreApart'
    BY DEF Typed, Sound, WriteState, RefreshesAreApart, Refreshes, Unsaved, Step
  <2>5. FreshIsNew'
    BY DEF Typed, Sound, WriteState, TypeOK, SavesAreKept, FreshIsNew, Pending, Unsaved, Step,
       Lost, Changed
  <2>6. SpentIsReplaced'
    BY <1>2 DEF Typed, Sound, WriteState, TokensAreIssued, SpentIsReplaced, Lost, Tokens
  <2>7. PostIsFirst'
    BY DEF Typed, Sound, WriteState, PostIsFirst, Step, Lost
  <2> QED
    BY <2>1, <2>2, <2>3, <2>4, <2>5, <2>6, <2>7 DEF Sound
<1>3. CASE op[p] = "other"
  <2>1. ~broken' /\ ~wasted'
    BY DEF Typed, Sound, WriteState, lock
  <2>2. StoreIsExclusive'
    BY DEF Typed, Sound, WriteState, StoreIsExclusive, lock
  <2>3. SavesAreKept'
    BY DEF Typed, Sound, WriteState, TypeOK, StoreIsExclusive, SavesAreKept, Step
  <2>4. RefreshesAreApart'
    BY DEF Typed, Sound, WriteState, RefreshesAreApart, Refreshes, Unsaved, Step
  <2>5. FreshIsNew'
    BY <1>3 DEF Typed, Sound, WriteState, TypeOK, SavesAreKept, FreshIsNew, Pending, Step,
       Changed, File
  <2>6. SpentIsReplaced'
    BY SMTT(60), <1>3 DEF Typed, Sound, WriteState, TypeOK, SavesAreKept, SpentIsReplaced, InHand, Step,
       Changed, File
  <2>7. PostIsFirst'
    BY <1>3 DEF Typed, Sound, WriteState, PostIsFirst, Step
  <2> QED
    BY <2>1, <2>2, <2>3, <2>4, <2>5, <2>6, <2>7 DEF Sound
<1> QED
  BY <1>1, <1>2, <1>3 DEF Typed, Sound, TypeOK, Operations

\* An operation that ends with an error has not stored what it got; otherwise the file
\* has moved on.
LEMMA UnlockKeeps ==
  ASSUME Typed, Sound, NEW p \in Users, Unlock(p)
  PROVE  Sound'
<1>1. ~broken' /\ ~wasted'
  BY DEF Typed, Sound, Unlock, Drop
<1>2. StoreIsExclusive'
  BY DEF Typed, Sound, Unlock, StoreIsExclusive, Drop
<1>3. SavesAreKept'
  BY DEF Typed, Sound, Unlock, SavesAreKept, End
<1>4. RefreshesAreApart'
  BY DEF Typed, Sound, Unlock, RefreshesAreApart, Refreshes, Unsaved, End
<1>5. FreshIsNew'
  BY DEF Typed, Sound, Unlock, FreshIsNew, Pending, Unsaved, End, Lost
<1>6. SpentIsReplaced'
  BY DEF Typed, Sound, Unlock, SpentIsReplaced, InHand, Unsaved, End, Lost
<1>7. PostIsFirst'
  BY DEF Typed, Sound, Unlock, PostIsFirst, End, Lost
<1> QED
  BY <1>1, <1>2, <1>3, <1>4, <1>5, <1>6, <1>7 DEF Sound

\* Who gives up the lock file has not stored what it got.
LEMMA GiveUpKeeps ==
  ASSUME Typed, Sound, NEW p \in Users, GiveUp(p)
  PROVE  Sound'
<1>1. ~broken' /\ ~wasted'
  BY DEF Typed, Sound, GiveUp, lock
<1>2. StoreIsExclusive'
  BY DEF Typed, Sound, GiveUp, StoreIsExclusive, lock
<1>3. SavesAreKept'
  BY DEF Typed, Sound, GiveUp, SavesAreKept, End
<1>4. RefreshesAreApart'
  BY DEF Typed, Sound, GiveUp, RefreshesAreApart, Refreshes, Unsaved, End
<1>5. FreshIsNew'
  BY DEF Typed, Sound, GiveUp, FreshIsNew, Pending, Unsaved, End, Lost
<1>6. SpentIsReplaced'
  BY DEF Typed, Sound, GiveUp, SpentIsReplaced, InHand, End, Lost
<1>7. PostIsFirst'
  BY DEF Typed, Sound, GiveUp, PostIsFirst, End, Lost
<1> QED
  BY <1>1, <1>2, <1>3, <1>4, <1>5, <1>6, <1>7 DEF Sound

\* With a process go the locks and the tokens of all its goroutines.
LEMMA DieKeeps ==
  ASSUME Typed, Sound, NEW m \in Managers, Die(m)
  PROVE  Sound'
<1>1. ~broken' /\ ~wasted'
  BY DEF Typed, Sound, Die
<1>2. StoreIsExclusive'
  BY DEF Typed, Sound, Die, StoreIsExclusive
<1>3. SavesAreKept'
  BY DEF Typed, Sound, Die, SavesAreKept, End
<1>4. RefreshesAreApart'
  BY DEF Typed, Sound, Die, RefreshesAreApart, Refreshes, Unsaved, End
<1>5. FreshIsNew'
  BY DEF Typed, Sound, Die, FreshIsNew, Pending, Unsaved, End, Lost
<1>6. SpentIsReplaced'
  BY DEF Typed, Sound, Die, SpentIsReplaced, InHand, End, Lost
<1>7. PostIsFirst'
  BY DEF Typed, Sound, Die, PostIsFirst, End, Lost
<1> QED
  BY <1>1, <1>2, <1>3, <1>4, <1>5, <1>6, <1>7 DEF Sound

-----------------------------------------------------------------------------
(* The theorems.                                                           *)

\* After the login the invariant holds.
LEMMA InitIInv == Init => IInv
<1> SUFFICES ASSUME Init PROVE IInv
  OBVIOUS
<1>1. TypeOK
  <2>1. stored \in File /\ state \in [Users -> File] /\ issued \in Tokens
    BY DEF Init, Login0, File, Tokens
  <2> QED
    BY <2>1 DEF Init, LockInit, TypeOK, InStore, Tokens, NoToken, Operations
<1>2. ~broken /\ ~wasted
  BY DEF Init, LockInit
<1>3. StoreIsExclusive
  BY DEF Init, LockInit, StoreIsExclusive
<1>4. SavesAreKept
  BY DEF Init, SavesAreKept
<1>5. RefreshesAreApart
  BY DEF Init, RefreshesAreApart, Refreshes, Unsaved
<1>6. TokensAreIssued
  BY DEF Init, TokensAreIssued, NoToken, Login0
<1>7. FreshIsNew
  BY DEF Init, FreshIsNew, Pending, Unsaved
<1>8. SpentIsReplaced
  BY DEF Init, SpentIsReplaced
<1>9. PostIsFirst
  BY DEF Init, PostIsFirst
<1> QED
  BY <1>1, <1>2, <1>3, <1>4, <1>5, <1>6, <1>7, <1>8, <1>9 DEF IInv, Typed, Sound

\* Nothing mends a lock file that was broken.
LEMMA BrokenStays ==
  ASSUME broken, Next
  PROVE  broken'
BY DEF Next, GoOn, Load, LockRefresh, Reload, Refresh, Login, LogoutOrOther, LockStore, LockFile, ReadState, WriteState, Unlock, GiveUp, Die, Displace, Break, lock, Take, Drop

\* Every step keeps it.
LEMMA NextKeepsIInv ==
  ASSUME IInv, [Next]_vars
  PROVE  IInv'
<1>1. CASE Next
  <2>1. Typed'
    BY <1>1, TypesStay DEF IInv
  <2>2. CASE broken
    BY <1>1, <2>1, <2>2, BrokenStays DEF IInv
  <2>3. CASE Displace
    BY <2>1, <2>3 DEF IInv, Displace, Break
  <2>4. CASE ~broken /\ ~Displace
    <3>1. Typed /\ Sound
      BY <2>4 DEF IInv
    <3>2. Sound'
      BY <1>1, <2>4, <3>1, LoadKeeps, LockRefreshKeeps, ReloadKeeps, RefreshKeeps, LoginKeeps,
         LogoutOrOtherKeeps, LockStoreKeeps, LockFileKeeps, ReadStateKeeps, WriteStateKeeps,
         UnlockKeeps, GiveUpKeeps, DieKeeps DEF Next, GoOn
    <3> QED
      BY <2>1, <3>2 DEF IInv
  <2> QED
    BY <2>2, <2>3, <2>4
<1>2. CASE UNCHANGED vars
  BY <1>2 DEF vars, IInv, Typed, Sound, TypeOK, StoreIsExclusive, SavesAreKept, RefreshesAreApart,
     TokensAreIssued, FreshIsNew, SpentIsReplaced, PostIsFirst, InHand, Pending,
     Refreshes, lock
<1> QED
  BY <1>1, <1>2

\* The invariant holds in every behaviour.
LEMMA Inductive == Spec => []IInv
<1>1. Init => IInv
  BY InitIInv
<1>2. IInv /\ [Next]_vars => IInv'
  BY NextKeepsIInv
<1> QED
  BY <1>1, <1>2, PTL DEF Spec

\* The callers of one manager send a refresh token once: what refreshAndSave
\* promises of its lock and its second look (manager.go), as long as the lock file of
\* the store is not broken.
THEOREM RefreshStaysSingleFlight == Spec => []RefreshIsSingleFlight
<1>1. IInv => RefreshIsSingleFlight
  BY DEF IInv, Typed, Sound, RefreshIsSingleFlight
<1> QED
  BY <1>1, Inductive, PTL

\* Store.Save and Store.Delete change the file that they have read, whoever
\* else saves, logs out or dies, until a live lock file is moved aside (store.go).
THEOREM SavesStayKept == Spec => []SavesAreKept
<1>1. IInv => SavesAreKept
  BY DEF IInv, Sound, SavesAreKept
<1> QED
  BY <1>1, Inductive, PTL

-----------------------------------------------------------------------------
(* The users of the lock, as the lock file promises to serve them.         *)

\* Store.mu has one holder in each manager.
StoreIsSerial ==
    \A p, q \in Users :
       ManagerOf[p] = ManagerOf[q] /\ step[p] \in InStore /\ step[q] \in InStore => p = q

\* Who locks the store finds nobody of its manager in it; nobody else enters.
LEMMA StoreStaysSerial ==
  ASSUME TypeOK, StoreIsSerial, [Next]_vars
  PROVE  StoreIsSerial'
<1>1. ASSUME NEW p \in Users, LockStore(p)
      PROVE  StoreIsSerial'
  <2>1. \A q \in Users : step'[q] = IF q = p THEN "acquire" ELSE step[q]
    BY <1>1 DEF LockStore, Step, TypeOK
  <2>2. \A q \in Users : ManagerOf[q] = ManagerOf[p] => step[q] \notin InStore
    BY <1>1 DEF LockStore, StoreIsFree
  <2> QED
    BY <2>1, <2>2 DEF StoreIsSerial
<1>2. CASE ~\E p \in Users : LockStore(p)
  <2>1. \A q \in Users : step'[q] \in InStore => step[q] \in InStore
    <3>1. ASSUME NEW ps, End(ps)
          PROVE  \A q \in Users : step'[q] \in InStore => step[q] \in InStore
      BY <3>1 DEF End, InStore
    <3>2. ASSUME NEW p \in Users,
                 \/ Load(p) \/ Login(p) \/ LogoutOrOther(p) \/ LockRefresh(p) \/ Reload(p)
                 \/ Refresh(p) \/ LockFile(p) \/ ReadState(p) \/ WriteState(p)
          PROVE  \A q \in Users : step'[q] \in InStore => step[q] \in InStore
      BY <3>1, <3>2 DEF TypeOK, Load, Login, LogoutOrOther, LockRefresh, Reload, Refresh, LockFile,
         ReadState, WriteState, Step, InStore
    <3>3. ASSUME \/ \E p \in Users : Unlock(p) \/ GiveUp(p)
                 \/ \E m \in Managers : Die(m)
          PROVE  \A q \in Users : step'[q] \in InStore => step[q] \in InStore
      BY <3>1, <3>3 DEF Unlock, GiveUp, Die
    <3>4. ASSUME Displace \/ UNCHANGED vars
          PROVE  step' = step
      BY <3>4 DEF Displace, vars
    <3> QED
      BY <1>2, <3>2, <3>3, <3>4 DEF Next, GoOn
  <2> QED
    BY <2>1 DEF StoreIsSerial
<1> QED
  BY <1>1, <1>2

\* Save and Delete ask the lock file for no more than BreakableLock gives, which
\* TokenLock implements: they enter when it is free or broken, and leave one at a
\* time, also when a process dies, since Store.mu lets one goroutine of it in (store.go).
THEOREM StoreUsesTheLock == Spec => LockSpec
<1>1. Init => LockInit /\ StoreIsSerial
  BY DEF Init, StoreIsSerial, InStore
<1>2. IInv /\ StoreIsSerial /\ [Next]_vars => StoreIsSerial'
  BY StoreStaysSerial DEF IInv, Typed
<1>3. ASSUME IInv, StoreIsSerial, [Next]_vars
      PROVE  [LockNext]_lock
  <2>1. ASSUME NEW p \in Users, LockFile(p)
        PROVE  LockNext
    BY <2>1 DEF LockFile, LockNext
  <2>2. ASSUME NEW p \in Users, Unlock(p)
        PROVE  LockNext
    BY <2>2 DEF Unlock, LockNext
  <2>3. ASSUME NEW m \in Managers, Die(m)
        PROVE  [LockNext]_lock
    <3> DEFINE ps == {p \in Users : ManagerOf[p] = m}
    <3>1. holders' = holders \ ps /\ broken' = broken
      BY <2>3 DEF Die
    <3>2. holders \subseteq Users /\ \A p \in holders : step[p] \in InStore
      BY <1>3 DEF IInv, Typed, TypeOK
    <3>3. \A p, q \in holders \cap ps : p = q
      BY <1>3, <3>2 DEF StoreIsSerial
    <3>4. CASE holders \cap ps = {}
      <4>1. holders' = holders
        BY <3>1, <3>4
      <4> QED
        BY <3>1, <4>1 DEF lock
    <3>5. CASE holders \cap ps # {}
      <4>1. PICK p \in holders \cap ps : TRUE
        BY <3>5
      <4>2. holders' = holders \ {p}
        BY <3>1, <3>3, <4>1
      <4>3. Drop(p)
        BY <3>1, <4>1, <4>2 DEF Drop
      <4> QED
        BY <3>2, <4>1, <4>3 DEF LockNext
    <3> QED
      BY <3>4, <3>5
  <2>4. CASE Displace
    BY <2>4 DEF Displace, LockNext
  <2>5. ASSUME \/ UNCHANGED vars
               \/ \E p \in Users :
                     \/ Load(p) \/ Login(p) \/ LogoutOrOther(p) \/ LockRefresh(p) \/ Reload(p)
                     \/ Refresh(p) \/ LockStore(p) \/ GiveUp(p) \/ ReadState(p) \/ WriteState(p)
        PROVE  UNCHANGED lock
    BY <2>5 DEF vars, Load, Login, LogoutOrOther, LockRefresh, Reload, Refresh, LockStore, GiveUp,
       ReadState, WriteState
  <2> QED
    BY <1>3, <2>1, <2>2, <2>3, <2>4, <2>5 DEF Next, GoOn
<1> QED
  BY <1>1, <1>2, <1>3, Inductive, PTL DEF Spec, LockSpec, lock

-----------------------------------------------------------------------------
(* The lock file, system call by system call.                              *)

CONSTANTS Procs, MaxAcquires, MaxCrashes, DiskMayFail
VARIABLES pc, tries, atPath, aside, old, displaced

\* Its model, of internal/cron, internal/hooks, internal/oauth and internal/lockutil.
Path == INSTANCE TokenLock

HIDE OAuthTokensAssumption

-----------------------------------------------------------------------------
(* The inductive invariant.                                                *)

\* The files that are somewhere, or were when they grew old.
Known(f) == f = atPath \/ f \in old \/ \E q \in Procs : f = aside[q]

\* No file of an acquisition is about before its create.
FilesAreCreated ==
    \A p \in Procs :
       /\ \A k \in 1..MaxAcquires : Known(<<p, k>>) => k <= tries[p]
       /\ pc[p] \in Path!Acquiring => ~Known(Path!Own(p))
       /\ pc[p] \in Path!Acquiring \cup Path!InUse => tries[p] \in 1..MaxAcquires

\* A file in use is younger than the stale threshold.
UsedIsYoung == \A f \in old : ~Path!Using(f)

\* Between the rename aside and the decision the moved file is at hand.
AsideIsHeld == \A p \in Procs : pc[p] \in {"inspect", "restore", "link"} => aside[p] # Path!None

\* As long as only old files are moved, none is put back.
OnlyOldIsMoved ==
    ~displaced => \A p \in Procs : aside[p] \in old \cup {Path!None} /\ pc[p] \notin {"restore", "link"}

\* All of it.
PathIInv ==
    /\ Path!TokenLockAssumption
    /\ Path!TypeOK /\ Path!OwnerIsAtPath
    /\ FilesAreCreated /\ UsedIsYoung
    /\ AsideIsHeld /\ OnlyOldIsMoved

-----------------------------------------------------------------------------
(* Every action keeps it.                                                  *)

\* Files of different acquisitions are different files.
LEMMA FilesDiffer ==
  /\ Path!None # Path!Crashed
  /\ \A p \in Procs, k \in Nat : <<p, k>> # Path!None /\ <<p, k>> # Path!Crashed
  /\ \A p, q \in Procs, j, k \in Nat : <<p, j>> = <<q, k>> => p = q /\ j = k
BY DEF Path!None, Path!Crashed

\* The absence of a file is not a file, the one a crash has left is.
LEMMA NoneIsNoFile == Path!None \notin Path!Files /\ Path!Crashed \in Path!Files
BY FilesDiffer DEF Path!Files

\* A new acquisition has no file yet.
LEMMA BeginKeeps ==
  ASSUME PathIInv, NEW p \in Procs, Path!Begin(p)
  PROVE  PathIInv'
<1>1. Path!TypeOK'
  BY DEF PathIInv, Path!Begin, Path!TypeOK, Path!Go, Path!Acquiring
<1>2. Path!OwnerIsAtPath'
  BY DEF PathIInv, Path!Begin, Path!OwnerIsAtPath, Path!Own, Path!Go, Path!InUse
<1>3. FilesAreCreated'
  BY DEF PathIInv, Path!Begin, Path!TypeOK, FilesAreCreated, Known, Path!Own, Path!Go,
     Path!Acquiring, Path!InUse
<1>4. UsedIsYoung'
  BY DEF PathIInv, Path!Begin, UsedIsYoung, Path!Using, Path!Own, Path!Go, Path!InUse
<1>5. AsideIsHeld'
  BY DEF PathIInv, Path!Begin, AsideIsHeld, Path!Go
<1>6. OnlyOldIsMoved'
  BY DEF PathIInv, Path!Begin, OnlyOldIsMoved, Path!Go
<1> QED
  BY <1>1, <1>2, <1>3, <1>4, <1>5, <1>6 DEF PathIInv

\* The file that is created was not about before, so it is not old.
LEMMA CreateKeeps ==
  ASSUME PathIInv, NEW p \in Procs, Path!Create(p)
  PROVE  PathIInv'
<1>1. Path!TypeOK'
  BY DEF PathIInv, Path!Create, Path!TypeOK, FilesAreCreated, Path!Own, Path!Go, Path!Files,
     Path!Acquiring, Path!InUse
<1>2. Path!OwnerIsAtPath'
  BY FilesDiffer DEF PathIInv, Path!Create, Path!TypeOK, Path!OwnerIsAtPath, Path!Own, Path!Go,
     Path!InUse
<1>3. FilesAreCreated'
  BY DEF PathIInv, Path!Create, Path!TypeOK, FilesAreCreated, Known, Path!Own, Path!Go,
     Path!Acquiring
<1>4. UsedIsYoung'
  BY DEF PathIInv, Path!Create, Path!TypeOK, FilesAreCreated, UsedIsYoung, Known, Path!Using,
     Path!Own, Path!Go
<1>5. AsideIsHeld'
  BY DEF PathIInv, Path!Create, Path!TypeOK, AsideIsHeld, Path!Go
<1>6. OnlyOldIsMoved'
  BY DEF PathIInv, Path!Create, Path!TypeOK, OnlyOldIsMoved, Path!Go
<1> QED
  BY <1>1, <1>2, <1>3, <1>4, <1>5, <1>6 DEF PathIInv

\* The holder is the creator of the file at the path.
LEMMA WriteTokenKeeps ==
  ASSUME PathIInv, NEW p \in Procs, Path!WriteToken(p)
  PROVE  PathIInv'
<1>1. Path!TypeOK'
  BY DEF PathIInv, Path!WriteToken, Path!TypeOK, Path!Go, Path!InUse
<1>2. Path!OwnerIsAtPath'
  BY DEF PathIInv, Path!WriteToken, Path!OwnerIsAtPath, Path!Own, Path!Go, Path!InUse
<1>3. FilesAreCreated'
  BY DEF PathIInv, Path!WriteToken, Path!TypeOK, FilesAreCreated, Known, Path!Own, Path!Go,
     Path!Acquiring, Path!InUse
<1>4. UsedIsYoung'
  BY DEF PathIInv, Path!WriteToken, Path!TypeOK, FilesAreCreated, UsedIsYoung, Known, Path!Using,
     Path!Own, Path!Go
<1>5. AsideIsHeld'
  BY DEF PathIInv, Path!WriteToken, AsideIsHeld, Path!Go
<1>6. OnlyOldIsMoved'
  BY DEF PathIInv, Path!WriteToken, OnlyOldIsMoved, Path!Go
<1> QED
  BY <1>1, <1>2, <1>3, <1>4, <1>5, <1>6 DEF PathIInv

\* A failed write removes its own file, as long as only old ones are moved.
LEMMA WriteFailsKeeps ==
  ASSUME PathIInv, NEW p \in Procs, Path!WriteFails(p)
  PROVE  PathIInv'
<1>1. Path!TypeOK'
  BY DEF PathIInv, Path!WriteFails, Path!TypeOK, Path!Go
<1>2. Path!OwnerIsAtPath'
  BY DEF PathIInv, Path!WriteFails, Path!TypeOK, Path!OwnerIsAtPath, Path!Own, Path!Go, Path!InUse
<1>3. FilesAreCreated'
  BY FilesDiffer DEF PathIInv, Path!WriteFails, FilesAreCreated, Known, Path!Own, Path!Go,
     Path!Acquiring, Path!InUse
<1>4. UsedIsYoung'
  BY DEF PathIInv, Path!WriteFails, Path!TypeOK, FilesAreCreated, UsedIsYoung, Known, Path!Using,
     Path!Own, Path!Go
<1>5. AsideIsHeld'
  BY DEF PathIInv, Path!WriteFails, AsideIsHeld, Path!Go
<1>6. OnlyOldIsMoved'
  BY DEF PathIInv, Path!WriteFails, OnlyOldIsMoved, Path!Go
<1> QED
  BY <1>1, <1>2, <1>3, <1>4, <1>5, <1>6 DEF PathIInv

\* A reclaim begins after a look at an old file; the file may change after it.
LEMMA StatKeeps ==
  ASSUME PathIInv, NEW p \in Procs, Path!Stat(p)
  PROVE  PathIInv'
<1>1. Path!TypeOK'
  BY DEF PathIInv, Path!Stat, Path!TypeOK, Path!Go, Path!Acquiring
<1>2. Path!OwnerIsAtPath'
  BY DEF PathIInv, Path!Stat, Path!TypeOK, Path!OwnerIsAtPath, Path!Own, Path!Go, Path!InUse
<1>3. FilesAreCreated'
  BY DEF PathIInv, Path!Stat, Path!TypeOK, FilesAreCreated, Known, Path!Own, Path!Go, Path!InUse
<1>4. UsedIsYoung'
  BY DEF PathIInv, Path!Stat, Path!TypeOK, UsedIsYoung, Path!Using, Path!Own, Path!Go, Path!InUse
<1>5. AsideIsHeld'
  BY DEF PathIInv, Path!Stat, Path!TypeOK, AsideIsHeld, Path!Go
<1>6. OnlyOldIsMoved'
  BY DEF PathIInv, Path!Stat, Path!TypeOK, OnlyOldIsMoved, Path!Go
<1> QED
  BY <1>1, <1>2, <1>3, <1>4, <1>5, <1>6 DEF PathIInv

\* Who times out holds nothing.
LEMMA TimeOutKeeps ==
  ASSUME PathIInv, NEW p \in Procs, Path!TimeOut(p)
  PROVE  PathIInv'
<1>1. Path!TypeOK'
  BY DEF PathIInv, Path!TimeOut, Path!TypeOK, Path!Go
<1>2. Path!OwnerIsAtPath'
  BY DEF PathIInv, Path!TimeOut, Path!OwnerIsAtPath, Path!Own, Path!Go, Path!InUse
<1>3. FilesAreCreated'
  BY DEF PathIInv, Path!TimeOut, Path!TypeOK, FilesAreCreated, Known, Path!Own, Path!Go,
     Path!Acquiring, Path!InUse
<1>4. UsedIsYoung'
  BY DEF PathIInv, Path!TimeOut, Path!TypeOK, FilesAreCreated, UsedIsYoung, Known, Path!Using,
     Path!Own, Path!Go
<1>5. AsideIsHeld'
  BY DEF PathIInv, Path!TimeOut, AsideIsHeld, Path!Go
<1>6. OnlyOldIsMoved'
  BY DEF PathIInv, Path!TimeOut, OnlyOldIsMoved, Path!Go
<1> QED
  BY <1>1, <1>2, <1>3, <1>4, <1>5, <1>6 DEF PathIInv

\* Who tries again has not created its file.
LEMMA RetryKeeps ==
  ASSUME PathIInv, NEW p \in Procs, Path!Retry(p)
  PROVE  PathIInv'
<1>1. Path!TypeOK'
  BY DEF PathIInv, Path!Retry, Path!TypeOK, Path!Go, Path!Acquiring
<1>2. Path!OwnerIsAtPath'
  BY DEF PathIInv, Path!Retry, Path!OwnerIsAtPath, Path!Own, Path!Go, Path!InUse
<1>3. FilesAreCreated'
  BY DEF PathIInv, Path!Retry, Path!TypeOK, FilesAreCreated, Known, Path!Own, Path!Go,
     Path!Acquiring, Path!InUse
<1>4. UsedIsYoung'
  BY DEF PathIInv, Path!Retry, Path!TypeOK, FilesAreCreated, UsedIsYoung, Known, Path!Using,
     Path!Own, Path!Go
<1>5. AsideIsHeld'
  BY DEF PathIInv, Path!Retry, AsideIsHeld, Path!Go
<1>6. OnlyOldIsMoved'
  BY DEF PathIInv, Path!Retry, OnlyOldIsMoved, Path!Go
<1> QED
  BY <1>1, <1>2, <1>3, <1>4, <1>5, <1>6 DEF PathIInv

\* Either the file that is moved is old, and nobody uses it, or displaced tells.
LEMMA RenameAsideKeeps ==
  ASSUME PathIInv, NEW p \in Procs, Path!RenameAside(p)
  PROVE  PathIInv'
<1>1. Path!TypeOK'
  BY ZenonT(60) DEF PathIInv, Path!RenameAside, Path!TypeOK, AsideIsHeld, Path!Go, Path!Acquiring
<1>2. Path!OwnerIsAtPath'
  BY ZenonT(60) DEF PathIInv, Path!RenameAside, Path!TypeOK, Path!OwnerIsAtPath, UsedIsYoung, Path!Using,
     Path!Own, Path!Go, Path!InUse
<1>3. FilesAreCreated'
  <2>1. \A f \in Path!Files : Known(f)' => Known(f)
    BY FilesDiffer, NoneIsNoFile DEF PathIInv, Path!TypeOK, Path!RenameAside, Known
  <2> QED
    BY <2>1 DEF PathIInv, Path!TypeOK, Path!RenameAside, FilesAreCreated, Path!Own, Path!Go,
       Path!Files, Path!Acquiring, Path!InUse
<1>4. UsedIsYoung'
  BY DEF PathIInv, Path!RenameAside, Path!TypeOK, UsedIsYoung, Path!Using, Path!Own, Path!Go,
     Path!InUse
<1>5. AsideIsHeld'
  BY DEF PathIInv, Path!RenameAside, Path!TypeOK, AsideIsHeld, Path!Go
<1>6. OnlyOldIsMoved'
  BY DEF PathIInv, Path!RenameAside, Path!TypeOK, OnlyOldIsMoved, Path!Go
<1> QED
  BY <1>1, <1>2, <1>3, <1>4, <1>5, <1>6 DEF PathIInv

\* Only a displaced file is not old, so only such a one is put back.
LEMMA InspectKeeps ==
  ASSUME PathIInv, NEW p \in Procs, Path!Inspect(p)
  PROVE  PathIInv'
<1>1. Path!TypeOK'
  BY DEF PathIInv, Path!Inspect, Path!TypeOK, AsideIsHeld, Path!Go, Path!Acquiring
<1>2. Path!OwnerIsAtPath'
  BY DEF PathIInv, Path!Inspect, Path!TypeOK, Path!OwnerIsAtPath, Path!Own, Path!Go, Path!InUse
<1>3. FilesAreCreated'
  BY FilesDiffer DEF PathIInv, Path!Inspect, Path!TypeOK, FilesAreCreated, Known, Path!Own,
     Path!Go, Path!Acquiring, Path!InUse
<1>4. UsedIsYoung'
  BY DEF PathIInv, Path!Inspect, Path!TypeOK, FilesAreCreated, UsedIsYoung, Known, Path!Using,
     Path!Own, Path!Go
<1>5. AsideIsHeld'
  BY DEF PathIInv, Path!Inspect, Path!TypeOK, AsideIsHeld, Path!Go
<1>6. OnlyOldIsMoved'
  BY DEF PathIInv, Path!Inspect, Path!TypeOK, AsideIsHeld, OnlyOldIsMoved, Path!Go
<1> QED
  BY <1>1, <1>2, <1>3, <1>4, <1>5, <1>6 DEF PathIInv

\* A file is put back only after one was displaced.
LEMMA RestoreKeeps ==
  ASSUME PathIInv, NEW p \in Procs, Path!Restore(p)
  PROVE  PathIInv'
<1>1. Path!TypeOK'
  BY DEF PathIInv, Path!Restore, Path!TypeOK, AsideIsHeld, Path!Go, Path!Acquiring
<1>2. Path!OwnerIsAtPath'
  BY DEF PathIInv, Path!Restore, Path!OwnerIsAtPath, OnlyOldIsMoved
<1>3. FilesAreCreated'
  BY FilesDiffer DEF PathIInv, Path!Restore, Path!TypeOK, FilesAreCreated, Known, Path!Own,
     Path!Go, Path!Acquiring, Path!InUse
<1>4. UsedIsYoung'
  BY DEF PathIInv, Path!Restore, Path!TypeOK, FilesAreCreated, UsedIsYoung, Known, Path!Using,
     Path!Own, Path!Go
<1>5. AsideIsHeld'
  BY DEF PathIInv, Path!Restore, Path!TypeOK, AsideIsHeld, Path!Go
<1>6. OnlyOldIsMoved'
  BY DEF PathIInv, Path!Restore, OnlyOldIsMoved
<1> QED
  BY <1>1, <1>2, <1>3, <1>4, <1>5, <1>6 DEF PathIInv

\* The link, too, follows a displacement.
LEMMA RestoreByLinkKeeps ==
  ASSUME PathIInv, NEW p \in Procs, Path!RestoreByLink(p)
  PROVE  PathIInv'
<1>1. Path!TypeOK'
  BY DEF PathIInv, Path!RestoreByLink, Path!TypeOK, AsideIsHeld, Path!Go, Path!Acquiring
<1>2. Path!OwnerIsAtPath'
  BY DEF PathIInv, Path!RestoreByLink, Path!OwnerIsAtPath, OnlyOldIsMoved
<1>3. FilesAreCreated'
  BY FilesDiffer DEF PathIInv, Path!RestoreByLink, Path!TypeOK, FilesAreCreated, Known, Path!Own,
     Path!Go, Path!Acquiring, Path!InUse
<1>4. UsedIsYoung'
  BY DEF PathIInv, Path!RestoreByLink, Path!TypeOK, FilesAreCreated, UsedIsYoung, Known,
     Path!Using, Path!Own, Path!Go
<1>5. AsideIsHeld'
  BY DEF PathIInv, Path!RestoreByLink, Path!TypeOK, AsideIsHeld, Path!Go
<1>6. OnlyOldIsMoved'
  BY DEF PathIInv, Path!RestoreByLink, OnlyOldIsMoved
<1> QED
  BY <1>1, <1>2, <1>3, <1>4, <1>5, <1>6 DEF PathIInv

\* The file stays in use until the release has ended.
LEMMA LeaveKeeps ==
  ASSUME PathIInv, NEW p \in Procs, Path!Leave(p)
  PROVE  PathIInv'
<1>1. Path!TypeOK'
  BY DEF PathIInv, Path!Leave, Path!TypeOK, Path!Go, Path!InUse
<1>2. Path!OwnerIsAtPath'
  BY DEF PathIInv, Path!Leave, Path!OwnerIsAtPath, Path!Own, Path!Go, Path!InUse
<1>3. FilesAreCreated'
  BY DEF PathIInv, Path!Leave, Path!TypeOK, FilesAreCreated, Known, Path!Own, Path!Go,
     Path!Acquiring, Path!InUse
<1>4. UsedIsYoung'
  BY DEF PathIInv, Path!Leave, Path!TypeOK, FilesAreCreated, UsedIsYoung, Known, Path!Using,
     Path!Own, Path!Go
<1>5. AsideIsHeld'
  BY DEF PathIInv, Path!Leave, AsideIsHeld, Path!Go
<1>6. OnlyOldIsMoved'
  BY DEF PathIInv, Path!Leave, OnlyOldIsMoved, Path!Go
<1> QED
  BY <1>1, <1>2, <1>3, <1>4, <1>5, <1>6 DEF PathIInv

\* The owner finds its file, as long as only old ones are moved.
LEMMA CheckTokenKeeps ==
  ASSUME PathIInv, NEW p \in Procs, Path!CheckToken(p)
  PROVE  PathIInv'
<1>1. Path!TypeOK'
  BY DEF PathIInv, Path!CheckToken, Path!TypeOK, Path!Go, Path!InUse
<1>2. Path!OwnerIsAtPath'
  BY DEF PathIInv, Path!CheckToken, Path!TypeOK, Path!OwnerIsAtPath, Path!Own, Path!Go, Path!InUse
<1>3. FilesAreCreated'
  BY DEF PathIInv, Path!CheckToken, Path!TypeOK, FilesAreCreated, Known, Path!Own, Path!Go,
     Path!Acquiring
<1>4. UsedIsYoung'
  BY DEF PathIInv, Path!CheckToken, Path!TypeOK, FilesAreCreated, UsedIsYoung, Known, Path!Using,
     Path!Own, Path!Go
<1>5. AsideIsHeld'
  BY DEF PathIInv, Path!CheckToken, Path!TypeOK, AsideIsHeld, Path!Go
<1>6. OnlyOldIsMoved'
  BY DEF PathIInv, Path!CheckToken, Path!TypeOK, OnlyOldIsMoved, Path!Go
<1> QED
  BY <1>1, <1>2, <1>3, <1>4, <1>5, <1>6 DEF PathIInv

\* The file that is removed is that of its owner, so no other user loses one.
LEMMA RemoveKeeps ==
  ASSUME PathIInv, NEW p \in Procs, Path!Remove(p)
  PROVE  PathIInv'
<1>1. Path!TypeOK'
  BY DEF PathIInv, Path!Remove, Path!TypeOK, Path!Go
<1>2. Path!OwnerIsAtPath'
  BY DEF PathIInv, Path!Remove, Path!TypeOK, Path!OwnerIsAtPath, Path!Own, Path!Go, Path!InUse
<1>3. FilesAreCreated'
  BY FilesDiffer DEF PathIInv, Path!Remove, Path!TypeOK, FilesAreCreated, Known, Path!Own,
     Path!Go, Path!Acquiring, Path!InUse
<1>4. UsedIsYoung'
  BY DEF PathIInv, Path!Remove, Path!TypeOK, FilesAreCreated, UsedIsYoung, Known, Path!Using,
     Path!Own, Path!Go
<1>5. AsideIsHeld'
  BY DEF PathIInv, Path!Remove, AsideIsHeld, Path!Go
<1>6. OnlyOldIsMoved'
  BY DEF PathIInv, Path!Remove, OnlyOldIsMoved, Path!Go
<1> QED
  BY <1>1, <1>2, <1>3, <1>4, <1>5, <1>6 DEF PathIInv

\* A crash leaves the file, and its user is none any more.
LEMMA CrashKeeps ==
  ASSUME PathIInv, NEW p \in Procs, Path!Crash(p)
  PROVE  PathIInv'
<1>1. Path!TypeOK'
  BY DEF PathIInv, Path!Crash, Path!TypeOK, Path!Go
<1>2. Path!OwnerIsAtPath'
  BY DEF PathIInv, Path!Crash, Path!OwnerIsAtPath, Path!Own, Path!Go, Path!InUse
<1>3. FilesAreCreated'
  BY DEF PathIInv, Path!Crash, Path!TypeOK, FilesAreCreated, Known, Path!Own, Path!Go,
     Path!Acquiring, Path!InUse
<1>4. UsedIsYoung'
  BY DEF PathIInv, Path!Crash, Path!TypeOK, FilesAreCreated, UsedIsYoung, Known, Path!Using,
     Path!Own, Path!Go
<1>5. AsideIsHeld'
  BY DEF PathIInv, Path!Crash, AsideIsHeld, Path!Go
<1>6. OnlyOldIsMoved'
  BY DEF PathIInv, Path!Crash, OnlyOldIsMoved, Path!Go
<1> QED
  BY <1>1, <1>2, <1>3, <1>4, <1>5, <1>6 DEF PathIInv

\* Only what nobody uses grows old.
LEMMA GrowOldKeeps ==
  ASSUME PathIInv, Path!GrowOld
  PROVE  PathIInv'
<1>1. Path!TypeOK'
  BY DEF PathIInv, Path!GrowOld, Path!TypeOK
<1>2. Path!OwnerIsAtPath'
  BY DEF PathIInv, Path!GrowOld, Path!OwnerIsAtPath, Path!Own
<1>3. FilesAreCreated'
  BY DEF PathIInv, Path!GrowOld, FilesAreCreated, Known, Path!Own
<1>4. UsedIsYoung'
  BY DEF PathIInv, Path!GrowOld, UsedIsYoung, Path!Using, Path!Own
<1>5. AsideIsHeld'
  BY DEF PathIInv, Path!GrowOld, AsideIsHeld
<1>6. OnlyOldIsMoved'
  BY DEF PathIInv, Path!GrowOld, OnlyOldIsMoved
<1> QED
  BY <1>1, <1>2, <1>3, <1>4, <1>5, <1>6 DEF PathIInv

\* The file of a crashed holder may be at the path from the start.
LEMMA PathInit ==
  ASSUME Path!TokenLockAssumption, Path!Init
  PROVE  PathIInv
<1>1. Path!TypeOK
  <2>1. tries \in [Procs -> 0..MaxAcquires] /\ pc \in [Procs -> {"idle"}]
    BY DEF Path!Init
  <2>2. aside \in [Procs -> {Path!None}] /\ atPath \in {Path!None, Path!Crashed} /\ old \subseteq Path!Files /\ displaced \in BOOLEAN
    BY DEF Path!Init
  <2> QED
    BY <2>1, <2>2, NoneIsNoFile DEF Path!TypeOK
<1>2. Path!OwnerIsAtPath
  BY DEF Path!Init, Path!OwnerIsAtPath, Path!InUse
<1>3. FilesAreCreated
  BY FilesDiffer DEF Path!Init, FilesAreCreated, Known, Path!Own, Path!Acquiring, Path!InUse
<1>4. UsedIsYoung
  BY DEF Path!Init, UsedIsYoung
<1>5. AsideIsHeld
  BY DEF Path!Init, AsideIsHeld
<1>6. OnlyOldIsMoved
  BY DEF Path!Init, OnlyOldIsMoved
<1> QED
  BY <1>1, <1>2, <1>3, <1>4, <1>5, <1>6 DEF PathIInv

\* Every step keeps the invariant.
LEMMA PathNext ==
  ASSUME PathIInv, [Path!Next]_(Path!vars)
  PROVE  PathIInv'
<1>1. CASE Path!Next
  BY <1>1, BeginKeeps, CreateKeeps, WriteTokenKeeps, WriteFailsKeeps, StatKeeps, TimeOutKeeps,
     RetryKeeps, RenameAsideKeeps, InspectKeeps, RestoreKeeps, RestoreByLinkKeeps, LeaveKeeps,
     CheckTokenKeeps, RemoveKeeps, CrashKeeps, GrowOldKeeps DEF Path!Next, Path!Acquire, Path!Release
<1>2. CASE UNCHANGED Path!vars
  BY <1>2 DEF Path!vars, PathIInv, Path!TypeOK, Path!OwnerIsAtPath, FilesAreCreated, UsedIsYoung,
     AsideIsHeld, OnlyOldIsMoved, Known, Path!Using, Path!Own
<1> QED
  BY <1>1, <1>2

\* The invariant holds in every behaviour.
LEMMA PathInductive ==
  ASSUME Path!TokenLockAssumption
  PROVE  Path!Spec => []PathIInv
<1>0. Path!Init => PathIInv
  BY PathInit
<1>1. PathIInv /\ [Path!Next]_(Path!vars) => PathIInv'
  BY PathNext
<1> QED
  BY <1>0, <1>1, PTL DEF Path!Spec

-----------------------------------------------------------------------------

\* A holder finds its own file at the path until a file that was not old is
\* moved aside: the types and OwnerIsAtPath of the release and the failed write
\* (cron/lock.go).
THEOREM OwnersKeepThePath ==
  ASSUME Path!TokenLockAssumption
  PROVE  Path!Spec => [](Path!TypeOK /\ Path!OwnerIsAtPath)
<1>1. PathIInv => Path!TypeOK /\ Path!OwnerIsAtPath
  BY DEF PathIInv
<1> QED
  BY <1>1, PathInductive, PTL

\* What ReclaimStaleLock removes for good (lockutil/reclaim.go) is never in use.
THEOREM StolenStayDead ==
  ASSUME Path!TokenLockAssumption
  PROVE  Path!Spec => Path!StolenLocksAreDead
<1>1. ASSUME PathIInv, [Path!Next]_(Path!vars)
      PROVE  [\A p \in Procs : pc[p] = "inspect" /\ aside[p] # Path!None /\ aside'[p] = Path!None => ~Path!Using(aside[p])]_(Path!vars)
  <2> SUFFICES ASSUME Path!Next, NEW p \in Procs,
                      pc[p] = "inspect", aside[p] # Path!None, aside'[p] = Path!None
               PROVE  ~Path!Using(aside[p])
    BY <1>1
  <2>1. PICK q \in Procs : Path!Inspect(q) \/ Path!RenameAside(q) \/ Path!Restore(q) \/ Path!RestoreByLink(q)
    BY <1>1 DEF PathIInv, Path!TypeOK, Path!Next, Path!Acquire, Path!Release, Path!Begin,
       Path!Create, Path!WriteToken, Path!Stat, Path!Retry, Path!WriteFails, Path!TimeOut,
       Path!Leave, Path!CheckToken, Path!Remove, Path!Crash, Path!GrowOld
  <2>2. CASE Path!Inspect(q)
    <3>1. q = p /\ aside[p] \in old
      BY <1>1, <2>2 DEF PathIInv, Path!TypeOK, Path!Inspect
    <3> QED
      BY <1>1, <3>1 DEF PathIInv, UsedIsYoung
  <2>3. CASE Path!RenameAside(q) \/ Path!Restore(q) \/ Path!RestoreByLink(q)
    <3>1. q # p
      BY <2>3 DEF Path!RenameAside, Path!Restore, Path!RestoreByLink
    <3>2. aside'[p] = aside[p]
      BY <1>1, <2>3, <3>1 DEF PathIInv, Path!TypeOK, Path!RenameAside, Path!Restore,
         Path!RestoreByLink
    <3> QED
      BY <3>2
  <2> QED
    BY <2>1, <2>2, <2>3
<1> QED
  BY <1>1, PathInductive, PTL DEF Path!Spec, Path!StolenLocksAreDead

\* The lock files exclude as BreakableLock has it: one holder at a time, from the
\* create of lockJob to the end of its release, until a reclaim has moved a file
\* that was not old.
THEOREM LocksExclude ==
  ASSUME Path!TokenLockAssumption
  PROVE  Path!Spec => Path!LockExcludes
<1>1. Path!Init => Path!Lock!LockInit
  BY DEF Path!Init, Path!Lock!LockInit, Path!InUse
<1>2. ASSUME PathIInv, [Path!Next]_(Path!vars)
      PROVE  [Path!Lock!LockNext]_<<{p \in Procs : pc[p] \in Path!InUse}, displaced>>
  <2>1. CASE UNCHANGED Path!vars
    BY <2>1 DEF Path!vars
  <2>2. CASE Path!GrowOld
    BY <2>2 DEF Path!GrowOld
  <2>3. ASSUME NEW p \in Procs, Path!Begin(p) \/ Path!Acquire(p) \/ Path!WriteFails(p) \/ Path!TimeOut(p) \/ Path!Release(p) \/ Path!Crash(p)
        PROVE  [Path!Lock!LockNext]_<<{q \in Procs : pc[q] \in Path!InUse}, displaced>>
    <3>1. CASE Path!Create(p) /\ atPath = Path!None
      BY <3>1, FilesDiffer, <1>2 DEF PathIInv, Path!TypeOK, Path!OwnerIsAtPath, Path!Own, Path!Go,
         Path!InUse, Path!Create, Path!Lock!LockNext, Path!Lock!Take
    <3>2. CASE Path!Create(p) /\ atPath # Path!None
      BY <3>2, <1>2 DEF PathIInv, Path!TypeOK, Path!Go, Path!InUse, Path!Create
    <3>3. CASE Path!RenameAside(p)
      BY ZenonT(60), <3>3, <1>2 DEF PathIInv, Path!TypeOK, Path!OwnerIsAtPath, FilesAreCreated, UsedIsYoung,
         AsideIsHeld, OnlyOldIsMoved, Known, Path!Using, Path!Own, Path!Go, Path!Files, Path!None,
         Path!Crashed, Path!Acquiring, Path!InUse, Path!RenameAside, Path!Lock!LockNext,
         Path!Lock!Break
    <3>4. CASE Path!WriteFails(p) \/ Path!Remove(p) \/ Path!CheckToken(p) \/ Path!Crash(p)
      BY <3>4, <1>2 DEF PathIInv, Path!TypeOK, Path!Go, Path!InUse, Path!WriteFails, Path!Remove,
         Path!CheckToken, Path!Crash, Path!Lock!LockNext, Path!Lock!Drop
    <3>5. CASE Path!Begin(p) \/ Path!WriteToken(p) \/ Path!Stat(p) \/ Path!Retry(p) \/ Path!Inspect(p) \/ Path!Restore(p) \/ Path!RestoreByLink(p) \/ Path!TimeOut(p) \/ Path!Leave(p)
      BY <3>5, <1>2 DEF PathIInv, Path!TypeOK, Path!Go, Path!InUse, Path!Begin, Path!WriteToken,
         Path!Stat, Path!Retry, Path!Inspect, Path!Restore, Path!RestoreByLink, Path!TimeOut,
         Path!Leave
    <3> QED
      BY <2>3, <3>1, <3>2, <3>3, <3>4, <3>5 DEF Path!Acquire, Path!Release
  <2> QED
    BY <1>2, <2>1, <2>2, <2>3 DEF Path!Next
<1> QED
  BY <1>1, <1>2, PathInductive, PTL DEF Path!Spec, Path!LockExcludes, Path!Lock!LockSpec

\* All of it together: the property that the run checks.
THEOREM ReclaimStaysSafe ==
  ASSUME Path!TokenLockAssumption
  PROVE  Path!Spec => Path!ReclaimIsSafe
BY LocksExclude, OwnersKeepThePath, StolenStayDead, PTL DEF Path!ReclaimIsSafe

=============================================================================
