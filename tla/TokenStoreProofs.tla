--------------------------- MODULE TokenStoreProofs ---------------------------
(* Proofs about logins (Accounts) and the token store (TokenStore).          *)
EXTENDS Accounts, TokenStore, TLAPS
-----------------------------------------------------------------------------
(* Logins: a callback that is about to write has chosen a new user, the user *)
(* of its session, or the user of a row that its EVE account still owns.     *)
OwnRow(l) ==
    /\ chars[l.char] # None /\ chars[l.char].user = l.user /\ chars[l.char].owner = l.owner

ChosenInv ==
    \A s \in Sessions : login[s] # None /\ login[s].at = "write" =>
        IF login[s].created THEN login[s].user \notin users
        ELSE login[s].user = login[s].was \/ OwnRow(login[s])

LoginCalls ==
    /\ DOMAIN session = Sessions /\ DOMAIN login = Sessions /\ DOMAIN active = Users
    /\ \A s \in Sessions : DOMAIN session[s] = {"user", "pending"}
    /\ \A s \in Sessions : login[s] # None =>
          DOMAIN login[s] = {"at", "char", "owner", "attach", "was", "user", "created"}

AccountsInv == LoginCalls /\ ChosenInv /\ AccountsTypeOK

LEMMA AccountsInitial == AccountsInit => AccountsInv
  <1> SUFFICES ASSUME AccountsInit
               PROVE  AccountsInv
    OBVIOUS
  <1>1. LoginCalls /\ ChosenInv
    BY DEF AccountsInit, LoginCalls, ChosenInv, NewSession
  <1>2. AccountsTypeOK
    BY DEF AccountsInit, AccountsTypeOK
  <1> QED  BY <1>1, <1>2 DEF AccountsInv

(* Only the end of a callback makes a session an existing user. *)
Entered(s) ==
    LET u == session'[s].user  l == login[s] IN
    u \in users /\ u # session[s].user =>
       \/ u = l.was
       \/ chars[l.char] # None /\ chars[l.char].user = u /\ chars[l.char].owner = l.owner

LEMMA AccountsStep ==
    ASSUME None \notin Users, users \subseteq Users, AccountsInv, AccountsNext
    PROVE  AccountsInv' /\ users' = users /\ \A s \in Sessions : Entered(s)
  <1>a. LoginCalls /\ ChosenInv /\ AccountsTypeOK
    BY DEF AccountsInv
  <1>b. users' = users /\ chars' = chars
    BY DEF AccountsNext, Login, Upgrade, Callback, CallbackMismatch, Lookup, Write, WriteFails, Logout,
           SetActiveCharacter, Transfer
  <1>c. UNCHANGED active => AccountsTypeOK'
    BY <1>a, <1>b DEF AccountsTypeOK, CharactersOf
  <1>1. ASSUME NEW s \in Sessions, NEW p, session' = [session EXCEPT ![s].pending = p],
               UNCHANGED <<active, login>>
        PROVE  AccountsInv' /\ \A t \in Sessions : Entered(t)
    <2>1. \A t \in Sessions : session'[t].user = session[t].user /\ DOMAIN session'[t] = {"user", "pending"}
      BY <1>1, <1>a DEF LoginCalls
    <2>2. LoginCalls' /\ ChosenInv'
      BY <1>1, <1>a, <1>b, <2>1 DEF LoginCalls, ChosenInv, OwnRow
    <2> QED  BY <1>1, <1>c, <2>1, <2>2 DEF AccountsInv, Entered
  <1>2. ASSUME NEW s \in Sessions, NEW l, login' = [login EXCEPT ![s] = l], UNCHANGED <<active, session>>,
               l # None => DOMAIN l = {"at", "char", "owner", "attach", "was", "user", "created"},
               l # None /\ l.at = "write" => IF l.created THEN l.user \notin users ELSE l.user = l.was \/ OwnRow(l)
        PROVE  AccountsInv' /\ \A t \in Sessions : Entered(t)
    <2>1. login'[s] = l /\ \A t \in Sessions : t # s => login'[t] = login[t]
      BY <1>2, <1>a DEF LoginCalls
    <2>2. LoginCalls'
      BY <1>2, <1>a, <2>1 DEF LoginCalls
    <2>3. ChosenInv'
      BY <1>2, <1>a, <1>b, <2>1 DEF ChosenInv, OwnRow
    <2> QED  BY <1>2, <1>c, <2>2, <2>3 DEF AccountsInv, Entered
  <1>3. ASSUME NEW s \in Sessions, NEW u, SaveSession(s, u), login' = [login EXCEPT ![s] = None],
               UNCHANGED active, u \in users => u = login[s].was \/ OwnRow([login[s] EXCEPT !.user = u]),
               login[s] # None
        PROVE  AccountsInv' /\ \A t \in Sessions : Entered(t)
    <2>1. login'[s] = None /\ \A t \in Sessions : t # s => login'[t] = login[t]
      BY <1>3, <1>a DEF LoginCalls
    <2>2. session'[s] = [user |-> u, pending |-> None] /\ \A t \in Sessions : t # s => session'[t] = session[t]
      BY <1>3, <1>a DEF LoginCalls, SaveSession
    <2>3. LoginCalls'
      BY <1>3, <1>a, <2>1, <2>2 DEF LoginCalls, SaveSession
    <2>4. ChosenInv'
      BY <1>a, <1>b, <2>1 DEF ChosenInv, OwnRow
    <2>5. Entered(s)
      <3>1. LET l == [login[s] EXCEPT !.user = u] IN l.char = login[s].char /\ l.owner = login[s].owner /\ l.user = u
        BY <1>3, <1>a DEF LoginCalls
      <3> QED  BY <1>3, <2>2, <3>1 DEF Entered, OwnRow
    <2>6. \A t \in Sessions : t # s => Entered(t)
      BY <2>2 DEF Entered
    <2> QED  BY <1>3, <1>c, <2>3, <2>4, <2>5, <2>6 DEF AccountsInv
  <1>4. ASSUME NEW s \in Sessions, session' = [session EXCEPT ![s] = NewSession], UNCHANGED <<active, login>>
        PROVE  AccountsInv' /\ \A t \in Sessions : Entered(t)
    <2>1. session'[s] = [user |-> None, pending |-> None] /\ \A t \in Sessions : t # s => session'[t] = session[t]
      BY <1>4, <1>a DEF LoginCalls, NewSession
    <2>2. LoginCalls' /\ ChosenInv'
      BY <1>4, <1>a, <1>b, <2>1 DEF LoginCalls, ChosenInv, OwnRow
    <2>3. \A t \in Sessions : Entered(t)
      BY <2>1 DEF Entered
    <2> QED  BY <1>4, <1>c, <2>2, <2>3 DEF AccountsInv
  <1>5. ASSUME UNCHANGED <<session, login>>, DOMAIN active' = Users, AccountsTypeOK'
        PROVE  AccountsInv' /\ \A t \in Sessions : Entered(t)
    BY <1>5, <1>a, <1>b DEF AccountsInv, LoginCalls, ChosenInv, OwnRow, Entered
  <1>6. ASSUME NEW s \in Sessions, NEW c \in Characters, Callback(s, c)
        PROVE  AccountsInv' /\ \A t \in Sessions : Entered(t)
    BY <1>2, <1>6 DEF Callback
  <1>7. ASSUME NEW s \in Sessions, Lookup(s)
        PROVE  AccountsInv' /\ \A t \in Sessions : Entered(t)
    <2>1. PICK l : l = login[s] /\ l # None
      BY <1>7 DEF Lookup
    <2>2. PICK u \in Targets(l) :
            \/ login' = [login EXCEPT ![s] = None] /\ SaveSession(s, l.was)
            \/ /\ login' = [login EXCEPT ![s] = [l EXCEPT !.at = "write", !.user = u, !.created = Creates(l)]]
               /\ UNCHANGED session
      BY <1>7, <2>1 DEF Lookup
    <2>3. UNCHANGED active
      BY <1>7 DEF Lookup
    <2>4. CASE login' = [login EXCEPT ![s] = None] /\ SaveSession(s, l.was)
      BY <1>3, <2>1, <2>3, <2>4
    <2>5. CASE /\ login' = [login EXCEPT ![s] = [l EXCEPT !.at = "write", !.user = u, !.created = Creates(l)]]
               /\ UNCHANGED session
      <3>1. DOMAIN l = {"at", "char", "owner", "attach", "was", "user", "created"}
        BY <1>a, <2>1 DEF LoginCalls
      <3>2. PICK n : n = [l EXCEPT !.at = "write", !.user = u, !.created = Creates(l)]
        OBVIOUS
      <3>3. /\ DOMAIN n = {"at", "char", "owner", "attach", "was", "user", "created"}
            /\ n.user = u /\ n.created = Creates(l) /\ n.was = l.was /\ n.char = l.char /\ n.owner = l.owner
        BY <3>1, <3>2
      <3>4. CASE Creates(l)
        <4>1. u \notin users
          BY <3>4 DEF Targets, Creates, FreshUsers
        <4> QED  BY <1>2, <2>3, <2>5, <3>2, <3>3, <3>4, <4>1
      <3>5. CASE ~Creates(l)
        <4>1. u = l.was \/ OwnRow(n)
          BY <3>3, <3>5 DEF Targets, OwnRow, SameOwner
        <4> QED  BY <1>2, <2>3, <2>5, <3>2, <3>3, <3>5, <4>1
      <3> QED  BY <3>4, <3>5
    <2> QED  BY <2>2, <2>4, <2>5
  <1>8. ASSUME NEW s \in Sessions, Write(s)
        PROVE  AccountsInv' /\ \A t \in Sessions : Entered(t)
    <2>1. PICK l : l = login[s] /\ l # None /\ l.at = "write"
      BY <1>8 DEF Write
    <2>2. /\ SaveSession(s, l.user) /\ login' = [login EXCEPT ![s] = None] /\ UNCHANGED active
      BY <1>8, <2>1 DEF Write, EndLogin
    <2>3. DOMAIN l = {"at", "char", "owner", "attach", "was", "user", "created"}
      BY <1>a, <2>1 DEF LoginCalls
    <2>4. PICK n : n = [l EXCEPT !.user = l.user]
      OBVIOUS
    <2>5. n.char = l.char /\ n.owner = l.owner /\ n.user = l.user
      BY <2>3, <2>4
    <2>6. l.user \in users => l.user = l.was \/ OwnRow(n)
      BY <1>a, <2>1, <2>5 DEF ChosenInv, OwnRow
    <2> QED  BY <1>3, <2>1, <2>2, <2>4, <2>6
  <1>9. ASSUME NEW s \in Sessions, NEW c \in Characters \cup {None}, SetActiveCharacter(s, c)
        PROVE  AccountsInv' /\ \A t \in Sessions : Entered(t)
    <2>1. PICK u \in users : u = session[s].user
      BY <1>9 DEF SetActiveCharacter
    <2>2. /\ active' = [active EXCEPT ![u] = c] /\ UNCHANGED <<session, login>>
          /\ c # None => c \in CharactersOf(u)
      BY <1>9, <2>1 DEF SetActiveCharacter, CharactersOf
    <2>3. AccountsTypeOK'
      BY <1>a, <1>b, <2>1, <2>2 DEF AccountsTypeOK, CharactersOf, LoginCalls
    <2>4. DOMAIN active' = Users
      BY <1>a, <2>2 DEF LoginCalls
    <2> QED  BY <1>5, <2>2, <2>3, <2>4
  <1>10. ASSUME NEW s \in Sessions, WriteFails(s)
         PROVE  AccountsInv' /\ \A t \in Sessions : Entered(t)
    BY <1>2, <1>10 DEF WriteFails, EndLogin
  <1>11. ASSUME NEW s \in Sessions, CallbackMismatch(s) \/ (\E b \in BOOLEAN : Login(s, b))
                                      \/ (\E c \in Characters : Upgrade(s, c))
         PROVE  AccountsInv' /\ \A t \in Sessions : Entered(t)
    BY <1>1, <1>11 DEF CallbackMismatch, Login, Upgrade
  <1>12. ASSUME NEW s \in Sessions, Logout(s)
         PROVE  AccountsInv' /\ \A t \in Sessions : Entered(t)
    BY <1>4, <1>12 DEF Logout
  <1>13. ASSUME NEW c \in Characters, NEW o \in Owners, Transfer(c, o)
         PROVE  AccountsInv' /\ \A t \in Sessions : Entered(t)
    BY <1>5, <1>13, <1>a, <1>c DEF Transfer, LoginCalls
  <1> QED  BY <1>b, <1>6, <1>7, <1>8, <1>9, <1>10, <1>11, <1>12, <1>13 DEF AccountsNext

LEMMA AccountsStutter ==
    ASSUME AccountsInv, UNCHANGED accountVars
    PROVE  AccountsInv' /\ users' = users
  BY DEF AccountsInv, LoginCalls, ChosenInv, OwnRow, AccountsTypeOK, CharactersOf, accountVars

(* Nobody gets into another player's account through EVE SSO                 *)
(* (upsert_character): for any number of users, sessions and characters, and *)
(* while characters are sold. Rows and users are what they were when the     *)
(* process came up, and an active character stays one of the user's own.     *)
THEOREM NobodyEntersAnotherAccount ==
    ASSUME None \notin Users
    PROVE  AccountsSpec => []AccountsTypeOK /\ EntersOwnAccount
  <1> DEFINE I == AccountsInv /\ users \subseteq Users
  <1>1. AccountsInit => I
    BY AccountsInitial DEF AccountsInit
  <1>2. I /\ [AccountsNext]_accountVars => I'
    BY AccountsStep, AccountsStutter
  <1>3. I /\ [AccountsNext]_accountVars =>
           [\A s \in Sessions :
              LET u == session'[s].user  l == login[s] IN
              u \in users /\ u # session[s].user =>
                 \/ u = l.was
                 \/ chars[l.char] # None /\ chars[l.char].user = u /\ chars[l.char].owner = l.owner]_accountVars
    BY AccountsStep DEF Entered
  <1>4. I => AccountsTypeOK
    BY DEF AccountsInv
  <1> QED  BY <1>1, <1>2, <1>3, <1>4, PTL DEF AccountsSpec, EntersOwnAccount
-----------------------------------------------------------------------------
(* The token store: the types of its state. *)
Steps == {"idle", "loaded", "removing", "building", "using", "persist", "writing"}
Call == [at : Steps, char : Characters \cup {None}, token : Tokens \cup {None},
         client : Clients \cup {None}]
SweptRow == [char : Characters, token : Tokens, kid : Kids]

StoreRows ==
    /\ lock \in [Characters -> Procs \cup {None, LoginTx}]
    /\ stored \in [Characters -> [token : Tokens, kid : Kids]]
    /\ sso \in [Characters -> Tokens]
    /\ primary \in [Procs -> Kids]
    /\ heap \in [Clients -> Client \cup {None}]
    /\ cache \in [Procs -> [Characters -> CachedClient \cup {None}]]
    /\ job \in [Jobs -> Call]
    /\ sweep \in [Procs -> SweptRow \cup {None}]
    /\ dropped \in [Characters -> SUBSET Tokens]
    /\ strayed \in [Characters -> SUBSET Tokens]

(* A call under way has its character and the token it has read, and a call  *)
(* that removes or uses a client has one.                                    *)
CallInv ==
    \A j \in Jobs :
        /\ job[j].at # "idle" => job[j].char \in Characters /\ job[j].token \in Tokens
        /\ job[j].at \in {"removing", "using"} => job[j].client \in Clients

(* No token is newer than the one EVE accepts, and what a call has read is   *)
(* not newer than the row.                                                   *)
OrderInv ==
    /\ \A c \in Characters : stored[c].token <= sso[c]
    /\ \A k \in Clients : heap[k] # None => heap[k].token <= sso[heap[k].char]
    /\ \A j \in Jobs : job[j].at \in {"loaded", "removing", "building"} =>
                          job[j].token <= stored[job[j].char].token

(* The cache and the calls point to clients of their process and character.  *)
ClientsInv ==
    /\ \A p \in Procs, c \in Characters : cache[p][c] # None =>
          LET k == cache[p][c].client IN
          heap[k] # None /\ heap[k].proc = p /\ heap[k].char = c
    /\ \A j \in Jobs : job[j].at = "using" =>
          LET k == job[j].client IN
          heap[k] # None /\ heap[k].proc = ProcOf[j] /\ heap[k].char = job[j].char

(* A token that is not stored is in one client only. *)
Newest(k, c) == heap[k] # None /\ heap[k].char = c /\ heap[k].token = sso[c]

OneNewest ==
    \A c \in Characters : stored[c].token # sso[c] =>
        \A k, m \in Clients : Newest(k, c) /\ Newest(m, c) => k = m

(* A client whose token is not written has the one EVE accepts. *)
RotatedInv ==
    \A p \in Procs, c \in Characters : cache[p][c] # None /\ Unwritten(cache[p][c]) =>
        Newest(cache[p][c].client, c) /\ stored[c].token # sso[c]

(* What persist_rotations is writing is the token EVE accepts, and the       *)
(* cached client has it.                                                     *)
WritingInv ==
    /\ \A j \in Jobs : job[j].at = "writing" =>
          /\ job[j].token = sso[job[j].char] /\ stored[job[j].char].token # sso[job[j].char]
          /\ Cached(j) # None /\ ~Unwritten(Cached(j)) /\ Newest(Cached(j).client, job[j].char)
    /\ \A i, j \in Jobs : job[i].at = "writing" /\ job[j].at = "writing"
                            /\ job[i].char = job[j].char => i = j

(* Until a token is gone: a cached client that has rotated has rotated the   *)
(* stored token, and a call that has just read the row has read that token.  *)
KnownInv ==
    \A p \in Procs, c \in Characters :
        ~Gone(c) /\ cache[p][c] # None /\ Unwritten(cache[p][c]) =>
            /\ cache[p][c].known = stored[c].token
            /\ \A j \in Jobs : ProcOf[j] = p /\ job[j].char = c /\ job[j].at = "loaded" =>
                                  job[j].token = stored[c].token

(* Until a token is gone: the client a call is about to remove has nothing   *)
(* to write, and gets nothing to write while calls are short.                *)
Removes(j, e) == job[j].at = "removing" /\ e # None /\ e.client = job[j].client

RemovingInv ==
    \A j \in Jobs, p \in Procs, c \in Characters :
        p = ProcOf[j] /\ c = job[j].char /\ Removes(j, cache[p][c]) /\ ~Gone(c) =>
            /\ ~Unwritten(cache[p][c])
            /\ Newest(cache[p][c].client, c) => job[j].token # stored[c].token \/ Persisting(p, c)

(* The sweeper holds the lock of the row it has read. *)
SweepInv ==
    \A p \in Procs : sweep[p] # None =>
        /\ lock[sweep[p].char] = p
        /\ stored[sweep[p].char] = [token |-> sweep[p].token, kid |-> sweep[p].kid]

StoreInv ==
    /\ StoreRows /\ CallInv /\ OrderInv /\ ClientsInv /\ OneNewest /\ RotatedInv
    /\ WritingInv /\ KnownInv /\ RemovingInv /\ TokenNotLost /\ SweepInv

-----------------------------------------------------------------------------
(* What the types give the proofs below, for one call and one character. *)
LEMMA StoreTypes ==
    ASSUME StoreRows
    PROVE  /\ \A c \in Characters : stored[c].token \in Nat /\ sso[c] \in Nat
           /\ \A k \in Clients : heap[k] # None =>
                 heap[k].proc \in Procs /\ heap[k].char \in Characters /\ heap[k].token \in Nat
           /\ \A p \in Procs, c \in Characters : cache[p][c] # None =>
                 cache[p][c].client \in Clients /\ cache[p][c].known \in Nat
           /\ \A c \in Characters : dropped[c] \cup strayed[c] \subseteq Nat
           /\ \A j \in Jobs : ProcOf[j] \in Procs
           /\ Tokens \subseteq Nat
  BY TokenStoreAssumption DEF StoreRows, Client, CachedClient, Tokens

(* A token that is not stored and not gone is known to the cache entry that  *)
(* has the client, or is being written.                                      *)
LEMMA NewestIsHeld ==
    ASSUME StoreInv, NEW p \in Procs, NEW c \in Characters,
           cache[p][c] # None, Newest(cache[p][c].client, c),
           stored[c].token # sso[c], ~Gone(c), ~Unwritten(cache[p][c])
    PROVE  Persisting(p, c)
  <1>1. /\ \A q \in Procs : cache[q][c] # None => cache[q][c].client \in Clients
        /\ \A i \in Jobs : ProcOf[i] \in Procs
    BY StoreTypes DEF StoreInv
  <1>2. Held(c)
    BY DEF StoreInv, TokenNotLost, Accepted
  <1>3. ASSUME NEW q \in Procs, cache[q][c] # None, Newest(cache[q][c].client, c)
        PROVE  q = p
    BY <1>1, <1>3 DEF StoreInv, OneNewest, ClientsInv
  <1>4. CASE \E q \in Procs : cache[q][c] # None /\ Unwritten(cache[q][c])
                               /\ heap[cache[q][c].client].token = sso[c]
    BY <1>3, <1>4 DEF StoreInv, ClientsInv, Newest
  <1>5. CASE \E i \in Jobs : job[i].at = "writing" /\ job[i].char = c /\ job[i].token = sso[c]
    <2>1. PICK i \in Jobs : job[i].at = "writing" /\ job[i].char = c
      BY <1>5
    <2>2. cache[ProcOf[i]][c] # None /\ Newest(cache[ProcOf[i]][c].client, c)
      BY <2>1 DEF StoreInv, WritingInv, Cached
    <2>3. ProcOf[i] = p
      BY <1>1, <1>3, <2>2
    <2> QED  BY <2>1, <2>3 DEF Persisting
  <1> QED  BY <1>2, <1>4, <1>5 DEF Held

(* The parts of the invariant that are about tokens and clients. *)
TokensInv ==
    /\ CallInv /\ OrderInv /\ ClientsInv /\ OneNewest /\ RotatedInv
    /\ WritingInv /\ KnownInv /\ RemovingInv /\ TokenNotLost

(* Steps that touch locks and keys only. *)
LEMMA TokensKept ==
    ASSUME TokensInv, UNCHANGED <<sso, heap, cache, job, dropped, strayed>>,
           \A c \in Characters : stored'[c].token = stored[c].token
    PROVE  TokensInv'
  <1> USE DEF TokensInv
  <1>1. CallInv' /\ ClientsInv'
    BY DEF CallInv, ClientsInv
  <1>2. OrderInv'
    <2>1. \A c \in Characters : stored'[c].token <= sso'[c]
      BY DEF OrderInv
    <2>2. \A k \in Clients : heap'[k] # None => heap'[k].token <= sso'[heap'[k].char]
      BY DEF OrderInv
    <2>3. \A j \in Jobs : job'[j].at \in {"loaded", "removing", "building"} =>
                          job'[j].token <= stored'[job'[j].char].token
      BY DEF OrderInv, CallInv
    <2> QED  BY <2>1, <2>2, <2>3 DEF OrderInv
  <1>3. OneNewest' /\ RotatedInv'
    BY DEF OneNewest, RotatedInv, Newest, Unwritten
  <1>4. WritingInv'
    BY DEF WritingInv, Newest, Unwritten, Cached, CallInv
  <1>5. \A c \in Characters : Gone(c)' <=> Gone(c)
    BY DEF Gone
  <1>6. KnownInv'
    BY <1>5 DEF KnownInv, Unwritten
  <1>7. RemovingInv'
    BY <1>5 DEF RemovingInv, Removes, Newest, Unwritten, Cached, Persisting, CallInv
  <1>8. TokenNotLost'
    BY <1>5 DEF TokenNotLost, Accepted, Held, Unwritten
  <1> QED  BY <1>1, <1>2, <1>3, <1>4, <1>6, <1>7, <1>8

(* A call that goes on without changing anything else, and does not write. *)
GoesOn(j) ==
    LET r == job'[j]  c == r.char IN
    /\ job' \in [Jobs -> Call]
    /\ \A i \in Jobs : i # j => job'[i] = job[i]
    /\ job[j].at # "writing" /\ r.at # "writing"
    /\ r.at # "idle" => c \in Characters /\ r.token \in Tokens
    /\ r.at \in {"loaded", "removing", "building"} => r.token <= stored[c].token
    /\ r.at = "loaded" => r.token = stored[c].token
    /\ r.at = "using" => /\ r.client \in Clients /\ heap[r.client] # None
                         /\ heap[r.client].proc = ProcOf[j] /\ heap[r.client].char = c
    /\ r.at = "removing" => /\ job[j].at = "loaded" /\ c = job[j].char /\ r.token = job[j].token
                            /\ cache[ProcOf[j]][c] # None
                            /\ cache[ProcOf[j]][c].known # r.token
                            /\ r.client = cache[ProcOf[j]][c].client

LEMMA CallGoesOn ==
    ASSUME StoreInv, NEW j \in Jobs, GoesOn(j),
           UNCHANGED <<lock, stored, sso, primary, heap, cache, sweep, dropped, strayed>>
    PROVE  StoreInv'
  <1> USE DEF StoreInv
  <1>a. /\ \A p \in Procs, c \in Characters : cache[p][c] # None =>
              cache[p][c].client \in Clients /\ cache[p][c].known \in Nat
        /\ \A i \in Jobs : ProcOf[i] \in Procs
    BY StoreTypes
  <1>b. \A i \in Jobs : i # j => job'[i] = job[i]
    BY DEF GoesOn
  <1>1. StoreRows'
    BY DEF StoreRows, GoesOn
  <1>2. CallInv'
    BY <1>a DEF CallInv, GoesOn
  <1>3. OrderInv'
    BY <1>b DEF OrderInv, GoesOn
  <1>4. ClientsInv'
    BY <1>b DEF ClientsInv, GoesOn
  <1>5. OneNewest' /\ RotatedInv' /\ SweepInv'
    BY DEF OneNewest, RotatedInv, SweepInv, Newest, Unwritten
  <1>6. WritingInv'
    BY <1>b DEF WritingInv, Newest, Unwritten, Cached, GoesOn
  <1>7. \A c \in Characters : Gone(c)' <=> Gone(c)
    BY DEF Gone
  <1>8. KnownInv'
    BY <1>7, <1>b DEF KnownInv, Unwritten, GoesOn
  <1>9. \A p \in Procs, c \in Characters : Persisting(p, c) => Persisting(p, c)'
    BY <1>b DEF Persisting, GoesOn
  <1>10. RemovingInv'
    <2> SUFFICES ASSUME NEW i \in Jobs, NEW p \in Procs, NEW c \in Characters,
                        p = ProcOf[i], c = job'[i].char, Removes(i, cache[p][c])', ~Gone(c)'
                 PROVE  /\ ~Unwritten(cache[p][c])'
                        /\ Newest(cache[p][c].client, c)' =>
                              job'[i].token # stored'[c].token \/ Persisting(p, c)'
      BY DEF RemovingInv
    <2>1. ASSUME i # j
          PROVE  /\ ~Unwritten(cache[p][c])
                 /\ Newest(cache[p][c].client, c) => job[i].token # stored[c].token \/ Persisting(p, c)
      BY <1>b, <1>7, <2>1 DEF RemovingInv, Removes
    <2>2. ASSUME i = j
          PROVE  /\ ~Unwritten(cache[p][c])
                 /\ Newest(cache[p][c].client, c) => job[i].token # stored[c].token \/ Persisting(p, c)
      <3>1. /\ job[j].at = "loaded" /\ job[j].char = c /\ job'[j].token = job[j].token
            /\ cache[p][c] # None /\ cache[p][c].known # job[j].token /\ ~Gone(c)
        BY <2>2, <1>7 DEF GoesOn, Removes
      <3>2. ~Unwritten(cache[p][c])
        BY <2>2, <3>1 DEF KnownInv
      <3>3. Newest(cache[p][c].client, c) /\ stored[c].token = job[j].token => Persisting(p, c)
        BY <3>1, <3>2, NewestIsHeld DEF Newest, Unwritten
      <3> QED  BY <2>2, <3>2, <3>3
    <2>3. job'[i].token = job[i].token
      BY <1>b DEF GoesOn, Removes
    <2> QED  BY <1>9, <2>1, <2>2, <2>3 DEF Unwritten, Newest
  <1>11. TokenNotLost'
    <2> SUFFICES ASSUME NEW c \in Characters, Held(c)
                 PROVE  Held(c)'
      BY <1>7 DEF TokenNotLost, Accepted
    <2> QED  BY <1>b DEF Held, Unwritten, GoesOn
  <1> QED  BY <1>1, <1>2, <1>3, <1>4, <1>5, <1>6, <1>8, <1>10, <1>11

LEMMA CallChanged ==
    ASSUME NEW r \in Call, NEW at \in Steps, NEW k \in Clients \cup {None}
    PROVE  /\ [r EXCEPT !.at = at, !.client = k] =
                 [at |-> at, char |-> r.char, token |-> r.token, client |-> k]
           /\ [at |-> at, char |-> r.char, token |-> r.token, client |-> k] \in Call
  <1>1. [at |-> at, char |-> r.char, token |-> r.token, client |-> k] \in Call
    BY DEF Call
  <1>2. [r EXCEPT !.at = at] = [at |-> at, char |-> r.char, token |-> r.token, client |-> r.client]
    BY DEF Call
  <1>3. [r EXCEPT !.at = at, !.client = k] = [[r EXCEPT !.at = at] EXCEPT !.client = k]
    OBVIOUS
  <1>4. [[at |-> at, char |-> r.char, token |-> r.token, client |-> r.client] EXCEPT !.client = k] =
           [at |-> at, char |-> r.char, token |-> r.token, client |-> k]
    OBVIOUS
  <1> QED  BY <1>1, <1>2, <1>3, <1>4

LEMMA CallsKeep ==
    ASSUME StoreInv, NEW j \in Jobs,
           (\E c \in Characters : LoadTokens(j, c)) \/ LookUpClient(j) \/ EndCalls(j) \/ CallsFail(j)
    PROVE  StoreInv'
  <1> USE DEF StoreInv
  <1>a. /\ \A p \in Procs, c \in Characters : cache[p][c] # None =>
              cache[p][c].client \in Clients /\ cache[p][c].known \in Nat
        /\ \A c \in Characters : stored[c].token \in Nat /\ stored[c].token \in Tokens
        /\ ProcOf[j] \in Procs
    BY StoreTypes DEF StoreRows
  <1>b. /\ job \in [Jobs -> Call] /\ job[j] \in Call
        /\ job[j].at # "idle" => job[j].char \in Characters /\ job[j].token \in Tokens
    BY DEF StoreRows, CallInv
  <1>c. \A r \in Call : job' = [job EXCEPT ![j] = r] =>
            job' \in [Jobs -> Call] /\ job'[j] = r /\ \A i \in Jobs : i # j => job'[i] = job[i]
    BY <1>b
  <1>1. ASSUME NEW c \in Characters, LoadTokens(j, c)
        PROVE  GoesOn(j)
    <2>1. job' = [job EXCEPT ![j] = [at |-> "loaded", char |-> c, token |-> stored[c].token,
                                     client |-> None]]
      BY <1>1 DEF LoadTokens
    <2>2. [at |-> "loaded", char |-> c, token |-> stored[c].token, client |-> None] \in Call
      BY <1>a DEF Call, Steps
    <2> QED  BY <1>1, <1>a, <1>b, <2>1, <2>2 DEF GoesOn, LoadTokens
  <1>2. ASSUME LookUpClient(j)
        PROVE  GoesOn(j)
    <2>1. PICK p \in Procs, c \in Characters : p = ProcOf[j] /\ c = job[j].char
      BY <1>2, <1>a, <1>b DEF LookUpClient
    <2>2. \A at \in Steps, k \in Clients \cup {None} :
             JobGoes(j, at, k) =>
                /\ job' = [job EXCEPT ![j] = [at |-> at, char |-> c, token |-> job[j].token, client |-> k]]
                /\ [at |-> at, char |-> c, token |-> job[j].token, client |-> k] \in Call
      BY <1>b, <2>1 DEF JobGoes, Call
    <2>3. job[j].at = "loaded" /\ job[j].token \in Tokens /\ job[j].token <= stored[c].token
      BY <1>2, <1>b, <2>1 DEF LookUpClient, OrderInv
    <2>4. CASE Cached(j) = None /\ JobGoes(j, "building", None)
      <3>1. job'[j] = [at |-> "building", char |-> c, token |-> job[j].token, client |-> None]
        BY <2>2, <2>4, <1>b DEF Steps
      <3> QED  BY <2>1, <2>2, <2>3, <2>4, <3>1, <1>c DEF GoesOn, Steps
    <2>5. CASE Cached(j) # None /\ Cached(j).known = job[j].token /\ JobGoes(j, "using", Cached(j).client)
      <3>1. /\ Cached(j).client \in Clients /\ heap[Cached(j).client] # None
            /\ heap[Cached(j).client].proc = p /\ heap[Cached(j).client].char = c
        BY <1>a, <2>1, <2>5 DEF ClientsInv, Cached
      <3>2. job'[j] = [at |-> "using", char |-> c, token |-> job[j].token, client |-> Cached(j).client]
        BY <2>2, <2>5, <3>1, <1>b DEF Steps
      <3> QED  BY <2>1, <2>2, <2>3, <2>5, <3>1, <3>2, <1>c DEF GoesOn, Steps
    <2>6. CASE Cached(j) # None /\ Cached(j).known # job[j].token /\ JobGoes(j, "removing", Cached(j).client)
      <3>1. Cached(j).client \in Clients /\ Cached(j) = cache[p][c]
        BY <1>a, <2>1, <2>6 DEF Cached
      <3>2. job'[j] = [at |-> "removing", char |-> c, token |-> job[j].token, client |-> Cached(j).client]
        BY <2>2, <2>6, <3>1, <1>b DEF Steps
      <3> QED  BY <2>1, <2>2, <2>3, <2>6, <3>1, <3>2, <1>c DEF GoesOn, Steps
    <2> QED  BY <1>2, <2>4, <2>5, <2>6 DEF LookUpClient
  <1>3. Idle \in Call
    BY DEF Call, Steps, Idle
  <1>4. ASSUME EndCalls(j) \/ CallsFail(j)
        PROVE  GoesOn(j)
    <2>1. job[j].at = "using" /\ (JobEnds(j) \/ JobGoes(j, "persist", None))
      BY <1>4 DEF EndCalls, CallsFail
    <2>2. CASE JobEnds(j)
      BY <1>b, <1>3, <2>1, <2>2 DEF GoesOn, JobEnds, Idle
    <2>3. CASE JobGoes(j, "persist", None)
      <3>1. [job[j] EXCEPT !.at = "persist", !.client = None] =
               [at |-> "persist", char |-> job[j].char, token |-> job[j].token, client |-> None]
        BY <1>b, CallChanged DEF Steps
      <3>3. job' = [job EXCEPT ![j] = [job[j] EXCEPT !.at = "persist", !.client = None]]
        BY <2>3 DEF JobGoes
      <3>4. [at |-> "persist", char |-> job[j].char, token |-> job[j].token, client |-> None] \in Call
        BY <1>b DEF Call, Steps
      <3>2. job'[j] = [at |-> "persist", char |-> job[j].char, token |-> job[j].token, client |-> None]
        BY <1>c, <3>1, <3>3, <3>4
      <3> QED  BY <1>b, <1>c, <2>1, <3>1, <3>2, <3>3, <3>4 DEF GoesOn
    <2> QED  BY <2>1, <2>2, <2>3
  <1>5. UNCHANGED <<lock, stored, sso, primary, heap, cache, sweep, dropped, strayed>>
    BY DEF LoadTokens, LookUpClient, EndCalls, CallsFail
  <1> QED  BY <1>1, <1>2, <1>4, <1>5, CallGoesOn

(* Locks and the sweeper. *)
LEMMA LocksKeep ==
    ASSUME StoreInv,
           \/ \E c \in Characters : LoginLocks(c) \/ LoginEnds(c)
           \/ \E p \in Procs : (\E c \in Characters : SweepScan(p, c)) \/ SweepWrite(p)
    PROVE  /\ StoreInv'
           /\ \A c \in Characters : stored'[c].token = stored[c].token
  <1> USE DEF StoreInv
  <1>1. ASSUME NEW c \in Characters, LoginLocks(c) \/ LoginEnds(c)
        PROVE  StoreRows' /\ SweepInv' /\ stored' = stored
    <2>1. lock[c] \notin Procs /\ stored' = stored /\ sweep' = sweep
      BY <1>1, TokenStoreAssumption DEF LoginLocks, LoginEnds
    <2>2. lock' \in [Characters -> Procs \cup {None, LoginTx}] /\ \A d \in Characters : d # c => lock'[d] = lock[d]
      BY <1>1 DEF LoginLocks, LoginEnds, StoreRows
    <2>3. StoreRows'
      BY <1>1, <2>2 DEF StoreRows, LoginLocks, LoginEnds
    <2>4. \A p \in Procs : sweep[p] # None => sweep[p].char \in Characters
      BY DEF StoreRows, SweptRow
    <2> QED  BY <2>1, <2>2, <2>3, <2>4 DEF SweepInv
  <1>2. ASSUME NEW p \in Procs, NEW c \in Characters, SweepScan(p, c)
        PROVE  StoreRows' /\ SweepInv' /\ stored' = stored
    <2> DEFINE w == [char |-> c, token |-> stored[c].token, kid |-> stored[c].kid]
    <2>1. /\ sweep' = [sweep EXCEPT ![p] = w] /\ lock' = [lock EXCEPT ![c] = p]
          /\ lock[c] = None /\ stored' = stored
      BY <1>2 DEF SweepScan, Scanned, Stale
    <2>2. w \in SweptRow /\ stored[c] = [token |-> w.token, kid |-> w.kid]
      <3>1. PICK r \in [token : Tokens, kid : Kids] : r = stored[c]
        BY DEF StoreRows
      <3>2. r = [token |-> r.token, kid |-> r.kid] /\ r.token \in Tokens /\ r.kid \in Kids
        OBVIOUS
      <3> QED  BY <3>1, <3>2 DEF SweptRow
    <2>3. StoreRows'
      BY <1>2, <2>1, <2>2 DEF StoreRows, SweepScan
    <2>4. \A q \in Procs : sweep[q] # None => sweep[q].char \in Characters /\ lock[sweep[q].char] = q
      BY DEF StoreRows, SweptRow, SweepInv
    <2>5. /\ sweep'[p] = w /\ lock'[c] = p
          /\ \A q \in Procs : q # p => sweep'[q] = sweep[q]
          /\ \A d \in Characters : d # c => lock'[d] = lock[d]
      BY <2>1 DEF StoreRows
    <2>6. \A q \in Procs : q # p /\ sweep[q] # None => sweep[q].char # c
      BY <2>1, <2>4, TokenStoreAssumption
    <2> HIDE DEF w
    <2>7. w.char = c
      BY DEF w
    <2> QED  BY <2>1, <2>2, <2>3, <2>4, <2>5, <2>6, <2>7 DEF SweepInv
  <1>3. ASSUME NEW p \in Procs, SweepWrite(p)
        PROVE  StoreRows' /\ SweepInv' /\ \A c \in Characters : stored'[c].token = stored[c].token
    <2>1. PICK w \in SweptRow : /\ w = sweep[p] /\ lock[w.char] = p
                                /\ stored[w.char] = [token |-> w.token, kid |-> w.kid]
      BY <1>3 DEF SweepWrite, StoreRows, SweepInv
    <2>2. w.char \in Characters /\ w.token \in Tokens
      BY DEF SweptRow
    <2>3. stored' = [stored EXCEPT ![w.char] = [token |-> w.token, kid |-> primary[p]]]
      BY <1>3, <2>1 DEF SweepWrite, Reencrypted
    <2>4. /\ sweep' = [sweep EXCEPT ![p] = None]
          /\ lock' = [x \in Characters |-> IF lock[x] = p THEN None ELSE lock[x]]
      BY <1>3 DEF SweepWrite
    <2>5. StoreRows'
      <3>1. stored' \in [Characters -> [token : Tokens, kid : Kids]]
        BY <2>2, <2>3 DEF StoreRows
      <3>2. /\ sweep' \in [Procs -> SweptRow \cup {None}]
            /\ lock' \in [Characters -> Procs \cup {None, LoginTx}]
        BY <2>4 DEF StoreRows
      <3>3. UNCHANGED <<sso, primary, heap, cache, job, dropped, strayed>>
        BY <1>3 DEF SweepWrite
      <3> QED  BY <3>1, <3>2, <3>3 DEF StoreRows
    <2>6. \A d \in Characters : d # w.char => stored'[d] = stored[d]
      BY <2>3 DEF StoreRows
    <2>7. \A q \in Procs : sweep'[q] # None => /\ q # p /\ sweep'[q] = sweep[q]
                                              /\ sweep[q].char \in Characters
      BY <2>4 DEF StoreRows, SweptRow
    <2>8. SweepInv'
      BY <2>1, <2>4, <2>6, <2>7 DEF SweepInv
    <2>9. \A c \in Characters : stored'[c].token = stored[c].token
      BY <2>1, <2>2, <2>3, <2>6 DEF StoreRows
    <2> QED  BY <2>5, <2>8, <2>9
  <1>4. UNCHANGED <<sso, heap, cache, job, dropped, strayed>>
    BY DEF LoginLocks, LoginEnds, SweepScan, SweepWrite
  <1>5. /\ StoreRows' /\ SweepInv'
        /\ \A c \in Characters : stored'[c].token = stored[c].token
    BY <1>1, <1>2, <1>3
  <1> QED  BY <1>4, <1>5, TokensKept DEF TokensInv

(* A call empties the cache entry of its character (k = None), or puts a new *)
(* client k there.                                                           *)
Replaces(j, p, c, k) ==
    /\ p = ProcOf[j] /\ c = job[j].char /\ ~Persisting(p, c)
    /\ job[j].at \in {"removing", "building"}
    /\ \A i \in Jobs : i # j => job'[i] = job[i]
    /\ job'[j] = [at |-> IF k = None THEN "building" ELSE "using", char |-> c,
                  token |-> job[j].token, client |-> k]
    /\ cache'[p][c] = IF k = None THEN None ELSE [client |-> k, known |-> job[j].token]
    /\ \A q \in Procs, d \in Characters : q # p \/ d # c => cache'[q][d] = cache[q][d]
    /\ k # None =>
          /\ heap'[k] = [proc |-> p, char |-> c, token |-> job[j].token]
          /\ \A i \in Jobs : job[i].client # k
          /\ \A q \in Procs, d \in Characters : cache[q][d] # None => cache[q][d].client # k
    /\ \A m \in Clients : m # k => heap'[m] = heap[m]
    /\ \A d \in Characters : d # c => strayed'[d] = strayed[d]
    /\ strayed[c] \subseteq strayed'[c]
    /\ cache[p][c] # None /\ Unwritten(cache[p][c]) =>
          \/ heap[cache[p][c].client].token \in strayed'[c]
          \/ job[j].at = "removing" /\ cache[p][c].client = job[j].client
    /\ UNCHANGED <<lock, stored, sso, sweep, dropped>>

LEMMA EntryReplaced ==
    ASSUME StoreInv, StoreRows', NEW j \in Jobs, NEW p \in Procs, NEW c \in Characters,
           NEW k \in Clients \cup {None}, Replaces(j, p, c, k)
    PROVE  StoreInv'
  <1> USE DEF StoreInv
  <1>a. /\ \A d \in Characters : stored[d].token \in Nat /\ sso[d] \in Nat
        /\ \A m \in Clients : heap[m] # None =>
              heap[m].proc \in Procs /\ heap[m].char \in Characters /\ heap[m].token \in Nat
        /\ \A q \in Procs, d \in Characters : cache[q][d] # None =>
              cache[q][d].client \in Clients /\ cache[q][d].known \in Nat
        /\ \A d \in Characters : dropped[d] \cup strayed[d] \subseteq Nat
        /\ \A i \in Jobs : ProcOf[i] \in Procs
        /\ Tokens \subseteq Nat /\ None \notin Clients /\ \A m \in Clients : m # None
    BY StoreTypes, TokenStoreAssumption
  <1>b. job[j].token \in Nat /\ job[j].token \in Tokens /\ job[j].token <= stored[c].token
    BY <1>a DEF CallInv, OrderInv, Replaces
  <1>c. \A i \in Jobs : i # j => job'[i] = job[i]
    BY DEF Replaces
  <1>d. /\ job'[j].at \in {"building", "using"} /\ job'[j].char = c /\ job'[j].token = job[j].token
        /\ job'[j].client = k /\ (job'[j].at = "using" <=> k # None)
    BY DEF Replaces
  <1>e. k # None => /\ heap'[k] # None /\ heap'[k].proc = p /\ heap'[k].char = c
                    /\ heap'[k].token = job[j].token
                    /\ cache'[p][c] # None /\ cache'[p][c].client = k /\ cache'[p][c].known = job[j].token
    <2>1. [proc |-> p, char |-> c, token |-> job[j].token] \in Client
      BY <1>b DEF Client
    <2>2. [client |-> k, known |-> job[j].token] # None \/ k = None
      BY <1>b, TokenStoreAssumption DEF CachedClient
    <2> QED  BY <2>1, <2>2, TokenStoreAssumption DEF Replaces
  <1>f. \A q \in Procs, d \in Characters :
           /\ q # p \/ d # c => cache'[q][d] = cache[q][d]
           /\ (q # p \/ d # c) /\ cache[q][d] # None => heap'[cache[q][d].client] = heap[cache[q][d].client]
    BY <1>a DEF Replaces
  <1>g. \A i \in Jobs : i # j /\ job[i].at = "using" => heap'[job[i].client] = heap[job[i].client]
    BY <1>a DEF Replaces, CallInv
  <1>h. \A q \in Procs, d \in Characters : cache'[q][d] # None /\ Unwritten(cache[q][d])' =>
           /\ q # p \/ d # c
           /\ cache'[q][d] = cache[q][d] /\ heap'[cache[q][d].client] = heap[cache[q][d].client]
           /\ cache[q][d] # None /\ Unwritten(cache[q][d])
    BY <1>e, <1>f DEF Unwritten, Replaces
  <1>i. \A d \in Characters : Gone(d) => Gone(d)'
    BY DEF Gone, Replaces
  <1>j. UNCHANGED <<lock, stored, sso, sweep, dropped>>
    BY DEF Replaces
  <1>1. CallInv'
    BY <1>a, <1>b, <1>c, <1>d DEF CallInv
  <1>2. OrderInv'
    <2>1. \A m \in Clients : heap'[m] # None => heap'[m].token <= sso'[heap'[m].char]
      <3>1. \A m \in Clients : m # k => heap'[m] = heap[m]
        BY DEF Replaces
      <3>2. stored[c].token <= sso[c]
        BY DEF OrderInv
      <3>3. k # None => heap'[k].token <= sso[heap'[k].char]
        BY <1>a, <1>b, <1>e, <3>2
      <3> QED  BY <1>a, <1>j, <3>1, <3>3 DEF OrderInv
    <2> QED  BY <1>b, <1>c, <1>d, <1>j, <2>1 DEF OrderInv
  <1>3. ClientsInv'
    BY <1>c, <1>d, <1>e, <1>f, <1>g DEF ClientsInv, Replaces
  <1>4. OneNewest'
    <2> SUFFICES ASSUME NEW d \in Characters, stored[d].token # sso[d], NEW m \in Clients, Newest(m, d)'
                 PROVE  Newest(m, d)
      BY <1>j DEF OneNewest
    <2>1. m # k
      BY <1>a, <1>b, <1>e, <1>j DEF Newest, OrderInv
    <2> QED  BY <1>j, <2>1 DEF Newest, Replaces
  <1>5. RotatedInv'
    BY <1>h, <1>j DEF RotatedInv, Newest
  <1>6. WritingInv'
    <2>1. ASSUME NEW i \in Jobs, job'[i].at = "writing"
          PROVE  /\ i # j /\ job'[i] = job[i]
                 /\ Cached(i)' = Cached(i) /\ heap'[Cached(i).client] = heap[Cached(i).client]
                 /\ Cached(i) # None
      <3>1. i # j /\ job'[i] = job[i]
        BY <1>c, <1>d, <2>1
      <3>2. job[i].char \in Characters /\ Cached(i) # None /\ ProcOf[i] \in Procs
        BY <2>1, <3>1, <1>a DEF CallInv, WritingInv
      <3>3. ProcOf[i] # p \/ job[i].char # c
        BY <2>1, <3>1 DEF Replaces, Persisting
      <3> QED  BY <1>f, <3>1, <3>2, <3>3 DEF Cached
    <2> QED  BY <1>j, <2>1 DEF WritingInv, Newest, Unwritten
  <1>7. KnownInv'
    BY <1>c, <1>d, <1>h, <1>i, <1>j DEF KnownInv
  <1>8. RemovingInv'
    <2> SUFFICES ASSUME NEW i \in Jobs, NEW q \in Procs, NEW d \in Characters, q = ProcOf[i], d = job'[i].char,
                        Removes(i, cache[q][d])', ~Gone(d)'
                 PROVE  /\ ~Unwritten(cache[q][d])'
                        /\ Newest(cache[q][d].client, d)' =>
                              job'[i].token # stored'[d].token \/ Persisting(q, d)'
      BY DEF RemovingInv
    <2>1. i # j /\ job'[i] = job[i]
      BY <1>c, <1>d DEF Removes
    <2>2. q # p \/ d # c
      BY <2>1, <1>a, <1>e DEF Replaces, Removes
    <2>3. /\ cache'[q][d] = cache[q][d] /\ heap'[cache[q][d].client] = heap[cache[q][d].client]
          /\ Removes(i, cache[q][d]) /\ ~Gone(d)
      BY <1>f, <1>i, <2>1, <2>2 DEF Removes
    <2>4. /\ ~Unwritten(cache[q][d])
          /\ Newest(cache[q][d].client, d) => job[i].token # stored[d].token \/ Persisting(q, d)
      BY <2>1, <2>3 DEF RemovingInv
    <2>5. Persisting(q, d) => Persisting(q, d)'
      BY <1>c DEF Persisting, Replaces
    <2> QED  BY <1>j, <2>1, <2>3, <2>4, <2>5 DEF Unwritten, Newest
  <1>9. TokenNotLost'
    <2> SUFFICES ASSUME NEW d \in Characters, ~Accepted(d), ~Gone(d)', Held(d)
                 PROVE  Held(d)'
      BY <1>i, <1>j DEF TokenNotLost, Accepted
    <2>1. CASE \E i \in Jobs : job[i].at = "writing" /\ job[i].char = d /\ job[i].token = sso[d]
      BY <1>c, <1>j, <2>1 DEF Held, Replaces
    <2>2. ASSUME NEW q \in Procs, cache[q][d] # None, Unwritten(cache[q][d]),
                 heap[cache[q][d].client].token = sso[d]
          PROVE  Held(d)'
      <3>1. ASSUME q = p, d = c
            PROVE  FALSE
        <4>1. heap[cache[p][c].client].token \notin strayed'[c]
          BY <2>2, <3>1, <1>a, <1>j DEF Gone, Accepted, OrderInv
        <4>2. Removes(j, cache[p][c]) /\ p = ProcOf[j] /\ c = job[j].char
          BY <2>2, <3>1, <4>1 DEF Replaces, Removes
        <4> QED  BY <1>i, <2>2, <3>1, <4>2 DEF RemovingInv
      <3>2. cache'[q][d] = cache[q][d] /\ heap'[cache[q][d].client] = heap[cache[q][d].client]
        BY <1>f, <2>2, <3>1
      <3> QED  BY <1>j, <2>2, <3>2 DEF Held, Unwritten
    <2> QED  BY <2>1, <2>2 DEF Held
  <1>10. SweepInv'
    BY <1>j DEF SweepInv
  <1> QED  BY <1>1, <1>2, <1>3, <1>4, <1>5, <1>6, <1>7, <1>8, <1>9, <1>10

LEMMA StraysAdds ==
    ASSUME StoreRows, NEW j \in Jobs, NEW c \in Characters, c = job[j].char, NEW e,
           e # None => heap[e.client].token \in Tokens, Strays(j, e)
    PROVE  /\ strayed' \in [Characters -> SUBSET Tokens]
           /\ \A d \in Characters : d # c => strayed'[d] = strayed[d]
           /\ strayed[c] \subseteq strayed'[c]
           /\ e # None /\ Unwritten(e) => heap[e.client].token \in strayed'[c]
  BY DEF StoreRows, Strays

LEMMA RemoveStaleKeeps ==
    ASSUME StoreInv, NEW j \in Jobs, RemoveStale(j)
    PROVE  StoreInv'
  <1> USE DEF StoreInv
  <1>1. PICK p \in Procs, c \in Characters : p = ProcOf[j] /\ c = job[j].char
    BY StoreTypes DEF RemoveStale, CallInv
  <1>2. /\ job[j].at = "removing" /\ ~Persisting(p, c) /\ cache' = [cache EXCEPT ![p][c] = None]
        /\ JobGoes(j, "building", None)
        /\ UNCHANGED <<lock, stored, sso, primary, heap, sweep, dropped>>
        /\ Cached(j) = cache[p][c]
    BY <1>1 DEF RemoveStale, Cached
  <1>3. PICK e : /\ Strays(j, e)
                 /\ e = None \/ e = cache[p][c]
                 /\ e = None => cache[p][c] = None \/ cache[p][c].client = job[j].client
    BY <1>1, <1>2 DEF RemoveStale
  <1>4. e # None => heap[e.client].token \in Tokens
    BY <1>3, StoreTypes DEF StoreRows, ClientsInv, Client
  <1>5. /\ strayed' \in [Characters -> SUBSET Tokens]
        /\ \A d \in Characters : d # c => strayed'[d] = strayed[d]
        /\ strayed[c] \subseteq strayed'[c]
        /\ e # None /\ Unwritten(e) => heap[e.client].token \in strayed'[c]
    BY <1>1, <1>3, <1>4, StraysAdds
  <1>6. /\ [at |-> "building", char |-> c, token |-> job[j].token, client |-> None] \in Call
        /\ job' = [job EXCEPT ![j] = [at |-> "building", char |-> c, token |-> job[j].token, client |-> None]]
    <2>1. job[j] \in Call /\ "building" \in Steps /\ None \in Clients \cup {None}
      BY DEF StoreRows, Steps
    <2>2. job' = [job EXCEPT ![j] = [job[j] EXCEPT !.at = "building", !.client = None]]
      BY <1>2 DEF JobGoes
    <2>3. [job[j] EXCEPT !.at = "building", !.client = None] =
             [at |-> "building", char |-> job[j].char, token |-> job[j].token, client |-> None]
      BY <2>1, CallChanged
    <2>4. [at |-> "building", char |-> job[j].char, token |-> job[j].token, client |-> None] \in Call
      BY <2>1, CallChanged
    <2> QED  BY <1>1, <2>2, <2>3, <2>4
  <1>7. StoreRows'
    BY <1>2, <1>5, <1>6 DEF StoreRows
  <1>8. /\ cache'[p][c] = None
        /\ \A q \in Procs, d \in Characters : q # p \/ d # c => cache'[q][d] = cache[q][d]
    BY <1>2 DEF StoreRows
  <1>9. /\ job'[j] = [at |-> "building", char |-> c, token |-> job[j].token, client |-> None]
        /\ \A i \in Jobs : i # j => job'[i] = job[i]
    BY <1>6 DEF StoreRows
  <1>10. Replaces(j, p, c, None)
    BY <1>1, <1>2, <1>3, <1>5, <1>8, <1>9 DEF Replaces
  <1> QED  BY <1>7, <1>10, EntryReplaced

LEMMA InsertClientKeeps ==
    ASSUME StoreInv, NEW j \in Jobs, InsertClient(j)
    PROVE  StoreInv'
  <1> USE DEF StoreInv
  <1>1. PICK p \in Procs, c \in Characters : p = ProcOf[j] /\ c = job[j].char
    BY StoreTypes DEF InsertClient, CallInv
  <1>2. PICK k : k = Allocated
    OBVIOUS
  <1>3. k \in Clients /\ k \notin Live
    <2>1. Live # Clients /\ Live \subseteq Clients
      BY DEF InsertClient, Live
    <2>2. \E m \in Clients : m \notin Live
      BY <2>1
    <2> QED  BY <1>2, <2>2 DEF Allocated
  <1>4. /\ \A i \in Jobs : job[i].client # k
        /\ \A q \in Procs, d \in Characters : cache[q][d] # None => cache[q][d].client # k
    BY <1>3 DEF Live
  <1>5. /\ job[j].at = "building" /\ ~Persisting(p, c)
        /\ heap' = [heap EXCEPT ![k] = [proc |-> p, char |-> c, token |-> job[j].token]]
        /\ cache' = [cache EXCEPT ![p][c] = [client |-> k, known |-> job[j].token]]
        /\ JobGoes(j, "using", k) /\ Strays(j, cache[p][c])
        /\ UNCHANGED <<lock, stored, sso, primary, sweep, dropped>>
    BY <1>1, <1>2 DEF InsertClient, Cached
  <1>6. job[j].token \in Tokens
    BY <1>5 DEF CallInv
  <1>7. cache[p][c] # None => heap[cache[p][c].client].token \in Tokens
    BY StoreTypes DEF StoreRows, ClientsInv, Client
  <1>8. /\ strayed' \in [Characters -> SUBSET Tokens]
        /\ \A d \in Characters : d # c => strayed'[d] = strayed[d]
        /\ strayed[c] \subseteq strayed'[c]
        /\ cache[p][c] # None /\ Unwritten(cache[p][c]) => heap[cache[p][c].client].token \in strayed'[c]
    BY <1>1, <1>5, <1>7, StraysAdds
  <1>9. /\ [at |-> "using", char |-> c, token |-> job[j].token, client |-> k] \in Call
        /\ job' = [job EXCEPT ![j] = [at |-> "using", char |-> c, token |-> job[j].token, client |-> k]]
    <2>1. job[j] \in Call /\ "using" \in Steps /\ k \in Clients \cup {None}
      BY <1>3 DEF StoreRows, Steps
    <2>2. job' = [job EXCEPT ![j] = [job[j] EXCEPT !.at = "using", !.client = k]]
      BY <1>5 DEF JobGoes
    <2>3. [job[j] EXCEPT !.at = "using", !.client = k] =
             [at |-> "using", char |-> job[j].char, token |-> job[j].token, client |-> k]
      BY <2>1, CallChanged
    <2>4. [at |-> "using", char |-> job[j].char, token |-> job[j].token, client |-> k] \in Call
      BY <2>1, CallChanged
    <2> QED  BY <1>1, <2>2, <2>3, <2>4
  <1>10. StoreRows'
    <2>1. [proc |-> p, char |-> c, token |-> job[j].token] \in Client /\ [client |-> k, known |-> job[j].token] \in CachedClient
      BY <1>3, <1>6 DEF Client, CachedClient
    <2>2. heap' \in [Clients -> Client \cup {None}]
      BY <1>5, <2>1 DEF StoreRows
    <2>3. cache' \in [Procs -> [Characters -> CachedClient \cup {None}]]
      BY <1>5, <2>1 DEF StoreRows
    <2> QED  BY <1>5, <1>8, <1>9, <2>2, <2>3 DEF StoreRows
  <1>11. /\ cache'[p][c] = [client |-> k, known |-> job[j].token]
         /\ \A q \in Procs, d \in Characters : q # p \/ d # c => cache'[q][d] = cache[q][d]
    BY <1>5 DEF StoreRows
  <1>12. /\ job'[j] = [at |-> "using", char |-> c, token |-> job[j].token, client |-> k]
         /\ \A i \in Jobs : i # j => job'[i] = job[i]
    BY <1>9 DEF StoreRows
  <1>13. /\ heap'[k] = [proc |-> p, char |-> c, token |-> job[j].token]
         /\ \A m \in Clients : m # k => heap'[m] = heap[m]
    BY <1>3, <1>5 DEF StoreRows
  <1>14. k # None
    BY <1>3, TokenStoreAssumption
  <1>15. Replaces(j, p, c, k)
    BY <1>1, <1>4, <1>5, <1>8, <1>11, <1>12, <1>13, <1>14 DEF Replaces
  <1> QED  BY <1>3, <1>10, <1>15, EntryReplaced

(* A refresh: only the entry that has the client gets something to write,    *)
(* and what it knows of is the stored token, or a token was gone before.     *)
LEMMA RefreshKeeps ==
    ASSUME StoreInv, NEW j \in Jobs, Refresh(j)
    PROVE  StoreInv'
  <1> USE DEF StoreInv
  <1>a. /\ \A d \in Characters : stored[d].token \in Nat /\ sso[d] \in Nat
        /\ \A m \in Clients : heap[m] # None =>
              heap[m].proc \in Procs /\ heap[m].char \in Characters /\ heap[m].token \in Nat
        /\ \A q \in Procs, d \in Characters : cache[q][d] # None =>
              cache[q][d].client \in Clients /\ cache[q][d].known \in Nat
        /\ \A d \in Characters : dropped[d] \cup strayed[d] \subseteq Nat
        /\ \A i \in Jobs : ProcOf[i] \in Procs
        /\ Tokens \subseteq Nat
    BY StoreTypes
  <1>b. PICK p \in Procs, c \in Characters, k \in Clients :
           p = ProcOf[j] /\ c = job[j].char /\ k = job[j].client
    BY <1>a DEF Refresh, CallInv
  <1>c. PICK t \in Tokens : t = sso[c] + 1
    BY <1>b DEF Refresh
  <1>d. /\ heap[k] # None /\ heap[k].proc = p /\ heap[k].char = c /\ heap[k].token = sso[c]
        /\ Newest(k, c)
    BY <1>b DEF Refresh, ClientsInv, Newest
  <1>e. /\ sso' = [sso EXCEPT ![c] = t] /\ heap' = [heap EXCEPT ![k].token = t]
        /\ UNCHANGED <<lock, stored, primary, cache, job, sweep, dropped>>
        /\ CallsAreShort(p, c)
        /\ strayed' = IF cache[p][c] # None /\ cache[p][c].client = k THEN strayed
                      ELSE [strayed EXCEPT ![c] = @ \cup {t}]
    BY <1>b, <1>c DEF Refresh, Cached
  <1>f. /\ heap'[k] = [proc |-> p, char |-> c, token |-> t]
        /\ [proc |-> p, char |-> c, token |-> t] \in Client
        /\ \A m \in Clients : m # k => heap'[m] = heap[m]
    <2>1. heap[k] \in Client
      BY <1>d DEF StoreRows
    <2>2. [heap[k] EXCEPT !.token = t] = [proc |-> p, char |-> c, token |-> t]
      BY <1>d, <2>1 DEF Client
    <2> QED  BY <1>d, <1>e, <2>2 DEF StoreRows, Client
  <1>g. sso'[c] = t /\ \A d \in Characters : d # c => sso'[d] = sso[d]
    BY <1>e DEF StoreRows
  <1>h. heap'[k] # None /\ heap'[k].proc = p /\ heap'[k].char = c /\ heap'[k].token = t
    BY <1>f, TokenStoreAssumption
  <1>i. /\ \A d \in Characters : strayed[d] \subseteq strayed'[d] /\ (d # c => strayed'[d] = strayed[d])
        /\ cache[p][c] = None \/ cache[p][c].client # k => t \in strayed'[c]
    BY <1>e DEF StoreRows
  <1>j. \A d \in Characters : (Gone(d) => Gone(d)') /\ (d # c => (Gone(d)' <=> Gone(d)))
    BY <1>e, <1>i DEF Gone
  <1>k. \A m \in Clients : Newest(m, c)' => m = k
    BY <1>a, <1>c, <1>d, <1>f, <1>g DEF Newest, OrderInv
  <1>l. \A m \in Clients, d \in Characters : d # c => (Newest(m, d)' <=> Newest(m, d))
    BY <1>d, <1>f, <1>g, <1>h DEF Newest
  <1>m. \A q \in Procs, d \in Characters : cache[q][d] # None /\ (q # p \/ d # c) => cache[q][d].client # k
    BY <1>d DEF ClientsInv
  <1>n. \A q \in Procs, d \in Characters :
           cache[q][d] # None /\ cache[q][d].client # k => (Unwritten(cache[q][d])' <=> Unwritten(cache[q][d]))
    BY <1>a, <1>e, <1>f DEF Unwritten
  <1>o. \A q \in Procs : cache[q][c] # None /\ Unwritten(cache[q][c])' => q = p /\ cache[q][c].client = k
    BY <1>a, <1>d, <1>m, <1>n DEF RotatedInv, OneNewest
  <1>p. \A i \in Jobs : job[i].at = "writing" => job[i].char # c
    <2> SUFFICES ASSUME NEW i \in Jobs, job[i].at = "writing", job[i].char = c
                 PROVE  FALSE
      OBVIOUS
    <2>1. /\ cache[ProcOf[i]][c] # None /\ Newest(cache[ProcOf[i]][c].client, c)
          /\ stored[c].token # sso[c] /\ cache[ProcOf[i]][c].client \in Clients
      BY <1>a DEF WritingInv, Cached
    <2>2. cache[ProcOf[i]][c].client = k
      BY <1>d, <2>1 DEF OneNewest
    <2>3. ProcOf[i] = p
      BY <1>a, <1>m, <2>1, <2>2
    <2> QED  BY <1>e, <2>3 DEF CallsAreShort
  <1>q. ASSUME cache[p][c] # None, cache[p][c].client = k, ~Gone(c)
        PROVE  cache[p][c].known = stored[c].token
    <2>1. CASE Unwritten(cache[p][c])
      BY <1>q, <2>1 DEF KnownInv
    <2>2. CASE ~Unwritten(cache[p][c])
      <3>1. ~Persisting(p, c)
        BY <1>p DEF Persisting
      <3>2. stored[c].token = sso[c]
        BY <1>d, <1>q, <2>2, <3>1, NewestIsHeld
      <3> QED  BY <1>d, <1>q, <2>2, <3>2 DEF Unwritten
    <2> QED  BY <2>1, <2>2
  <1>1. StoreRows'
    <2>1. strayed' \in [Characters -> SUBSET Tokens] /\ sso' \in [Characters -> Tokens]
      BY <1>e DEF StoreRows
    <2>2. heap' \in [Clients -> Client \cup {None}]
      <3>1. \A m \in Clients : heap'[m] \in Client \cup {None}
        BY <1>f DEF StoreRows
      <3>2. heap' = [m \in Clients |-> heap'[m]]
        BY <1>e DEF StoreRows
      <3> QED  BY <3>1, <3>2
    <2> QED  BY <1>e, <2>1, <2>2 DEF StoreRows
  <1>2. CallInv'
    BY <1>e DEF CallInv
  <1>3. OrderInv'
    <2>1. \A d \in Characters : stored'[d].token <= sso'[d]
      BY <1>a, <1>c, <1>e, <1>g DEF OrderInv
    <2>2. \A m \in Clients : heap'[m] # None => heap'[m].token <= sso'[heap'[m].char]
      BY <1>a, <1>c, <1>f, <1>g, <1>h DEF OrderInv
    <2> QED  BY <1>e, <2>1, <2>2 DEF OrderInv
  <1>4. ClientsInv'
    <2>1. \A m \in Clients : heap[m] # None =>
             heap'[m] # None /\ heap'[m].proc = heap[m].proc /\ heap'[m].char = heap[m].char
      BY <1>d, <1>f, <1>h
    <2>2. \A i \in Jobs : job[i].at = "using" => job[i].client \in Clients
      BY DEF CallInv
    <2> QED  BY <1>a, <1>e, <2>1, <2>2 DEF ClientsInv
  <1>5. OneNewest'
    BY <1>e, <1>g, <1>k, <1>l DEF OneNewest
  <1>6. RotatedInv'
    <2> SUFFICES ASSUME NEW q \in Procs, NEW d \in Characters,
                        cache[q][d] # None, Unwritten(cache[q][d])'
                 PROVE  Newest(cache[q][d].client, d)' /\ stored[d].token # sso'[d]
      BY <1>e DEF RotatedInv, Newest
    <2>1. CASE d = c
      BY <1>a, <1>c, <1>e, <1>g, <1>h, <1>o, <2>1 DEF Newest, OrderInv
    <2>2. CASE d # c
      BY <1>a, <1>e, <1>g, <1>l, <1>m, <1>n, <2>2 DEF RotatedInv, Newest
    <2> QED  BY <2>1, <2>2
  <1>7. WritingInv'
    <2>1. \A i \in Jobs : job[i].at = "writing" =>
             /\ job[i].char \in Characters /\ job[i].char # c /\ Cached(i)' = Cached(i)
             /\ Cached(i).client \in Clients /\ Cached(i).client # k
      BY <1>a, <1>e, <1>m, <1>p DEF WritingInv, Cached, CallInv
    <2> QED  BY <1>e, <1>f, <1>g, <2>1 DEF WritingInv, Newest, Unwritten
  <1>8. KnownInv'
    <2> SUFFICES ASSUME NEW q \in Procs, NEW d \in Characters,
                        ~Gone(d)', cache[q][d] # None, Unwritten(cache[q][d])'
                 PROVE  /\ cache[q][d].known = stored[d].token
                        /\ \A i \in Jobs : ProcOf[i] = q /\ job[i].char = d /\ job[i].at = "loaded" =>
                                              job[i].token = stored[d].token
      BY <1>e DEF KnownInv
    <2>1. CASE d = c
      BY <1>e, <1>j, <1>o, <1>q, <2>1 DEF CallsAreShort
    <2>2. CASE d # c
      BY <1>j, <1>m, <1>n, <2>2 DEF KnownInv
    <2> QED  BY <2>1, <2>2
  <1>9. RemovingInv'
    <2> SUFFICES ASSUME NEW i \in Jobs, NEW q \in Procs, NEW d \in Characters, q = ProcOf[i], d = job[i].char,
                        Removes(i, cache[q][d]), ~Gone(d)'
                 PROVE  /\ ~Unwritten(cache[q][d])'
                        /\ Newest(cache[q][d].client, d)' =>
                              job[i].token # stored[d].token \/ Persisting(q, d)
      BY <1>e DEF RemovingInv, Removes, Persisting
    <2>1. /\ ~Unwritten(cache[q][d]) /\ ~Gone(d)
          /\ Newest(cache[q][d].client, d) => job[i].token # stored[d].token \/ Persisting(q, d)
      BY <1>j DEF RemovingInv
    <2>2. CASE d = c
      <3>1. CASE cache[q][d].client = k
        <4>1. q = p
          BY <1>m, <2>2, <3>1 DEF Removes
        <4> QED  BY <1>d, <1>e, <2>1, <2>2, <3>1, <4>1 DEF CallsAreShort, Persisting, Removes
      <3>2. CASE cache[q][d].client # k
        <4>1. cache'[q][d] = cache[q][d] /\ cache[q][d] # None /\ cache[q][d].client \in Clients
          BY <1>a, <1>e DEF Removes
        <4>2. ~Newest(cache[q][d].client, d)'
          BY <1>k, <2>2, <3>2, <4>1 DEF Newest
        <4> QED  BY <1>o, <2>2, <3>2, <4>1, <4>2
      <3> QED  BY <3>1, <3>2
    <2>3. CASE d # c
      <3>1. /\ cache'[q][d] = cache[q][d] /\ cache[q][d] # None
            /\ cache[q][d].client \in Clients /\ cache[q][d].client # k
        BY <1>a, <1>e, <1>m, <2>3 DEF Removes
      <3>2. Newest(cache[q][d].client, d)' => Newest(cache[q][d].client, d)
        BY <1>l, <2>3, <3>1 DEF Newest
      <3> QED  BY <1>n, <2>1, <3>1, <3>2
    <2> QED  BY <2>2, <2>3
  <1>10. TokenNotLost'
    <2> SUFFICES ASSUME NEW d \in Characters, ~Gone(d)'
                 PROVE  Accepted(d)' \/ Held(d)'
      BY DEF TokenNotLost
    <2>1. CASE d = c
      <3>1. cache[p][c] # None /\ cache[p][c].client = k
        BY <1>a, <1>c, <1>e, <1>i, <2>1 DEF Gone, OrderInv
      <3>2. cache[p][c].known = stored[c].token
        BY <1>j, <1>q, <2>1, <3>1
      <3>3. t # stored[c].token
        BY <1>a, <1>c DEF OrderInv
      <3>4. Unwritten(cache[p][c])' /\ heap'[cache'[p][c].client].token = sso'[c] /\ cache'[p][c] # None
        BY <1>e, <1>g, <1>h, <3>1, <3>2, <3>3 DEF Unwritten
      <3> QED  BY <2>1, <3>4 DEF Held
    <2>2. CASE d # c
      <3>1. Accepted(d) \/ Held(d)
        BY <1>j, <2>2 DEF TokenNotLost
      <3>2. CASE Accepted(d)
        BY <1>e, <1>g, <2>2, <3>2 DEF Accepted
      <3>3. ASSUME NEW q \in Procs, cache[q][d] # None, Unwritten(cache[q][d]),
                   heap[cache[q][d].client].token = sso[d]
            PROVE  Held(d)'
        <4>1. cache[q][d].client \in Clients /\ cache[q][d].client # k
          BY <1>a, <1>m, <2>2, <3>3
        <4>2. heap'[cache'[q][d].client].token = sso'[d] /\ Unwritten(cache[q][d])' /\ cache'[q][d] # None
          BY <1>e, <1>f, <1>g, <1>n, <2>2, <3>3, <4>1
        <4> QED  BY <4>2 DEF Held
      <3>4. ASSUME \E i \in Jobs : job[i].at = "writing" /\ job[i].char = d /\ job[i].token = sso[d]
            PROVE  Held(d)'
        BY <1>e, <1>g, <2>2, <3>4 DEF Held
      <3> QED  BY <3>1, <3>2, <3>3, <3>4 DEF Held
    <2> QED  BY <2>1, <2>2
  <1>11. SweepInv'
    BY <1>e DEF SweepInv
  <1> QED  BY <1>1, <1>2, <1>3, <1>4, <1>5, <1>6, <1>7, <1>8, <1>9, <1>10, <1>11

LEMMA JobEndsCall ==
    ASSUME StoreRows, NEW j \in Jobs, JobEnds(j)
    PROVE  /\ job' \in [Jobs -> Call] /\ job'[j].at = "idle"
           /\ \A i \in Jobs : i # j => job'[i] = job[i]
  <1>1. Idle \in Call /\ Idle.at = "idle"
    BY DEF Idle, Call, Steps
  <1> QED  BY <1>1 DEF JobEnds, StoreRows

(* Who holds the newest token of a character that is not stored. *)
LEMMA OneHolder ==
    ASSUME StoreInv, NEW c \in Characters, NEW p \in Procs, NEW q \in Procs,
           stored[c].token # sso[c],
           cache[p][c] # None, Newest(cache[p][c].client, c),
           cache[q][c] # None, Newest(cache[q][c].client, c)
    PROVE  p = q
  <1>1. cache[p][c].client \in Clients /\ cache[q][c].client \in Clients
    BY StoreTypes DEF StoreInv
  <1> QED  BY <1>1 DEF StoreInv, OneNewest, ClientsInv

LEMMA PersistSwapKeeps ==
    ASSUME StoreInv, NEW j \in Jobs, PersistSwap(j)
    PROVE  StoreInv'
  <1> USE DEF StoreInv
  <1>a. /\ \A q \in Procs, d \in Characters : cache[q][d] # None =>
              cache[q][d].client \in Clients /\ cache[q][d].known \in Nat
        /\ \A i \in Jobs : ProcOf[i] \in Procs
    BY StoreTypes
  <1>b. PICK p \in Procs, c \in Characters : p = ProcOf[j] /\ c = job[j].char
    BY <1>a DEF PersistSwap, CallInv
  <1>c. CASE ~(cache[p][c] # None /\ Unwritten(cache[p][c]))
    <2>1. JobEnds(j) /\ job[j].at = "persist"
          /\ UNCHANGED <<lock, stored, sso, primary, heap, cache, sweep, dropped, strayed>>
      BY <1>b, <1>c DEF PersistSwap, Cached
    <2>2. GoesOn(j)
      BY <2>1, JobEndsCall DEF GoesOn
    <2> QED  BY <2>1, <2>2, CallGoesOn
  <1>d. CASE cache[p][c] # None /\ Unwritten(cache[p][c])
    <2>1. PICK k \in Clients, t \in Tokens : k = cache[p][c].client /\ t = heap[k].token
      BY <1>a, <1>d DEF ClientsInv, StoreRows, Client
    <2>2. /\ job[j].at = "persist"
          /\ cache' = [cache EXCEPT ![p][c].known = t]
          /\ job' = [job EXCEPT ![j] = [@ EXCEPT !.at = "writing", !.token = t]]
          /\ UNCHANGED <<lock, stored, sso, primary, heap, sweep, dropped, strayed>>
      BY <1>b, <1>d, <2>1 DEF PersistSwap, Cached
    <2>3. Newest(k, c) /\ t = sso[c] /\ stored[c].token # sso[c]
      BY <1>d, <2>1 DEF RotatedInv, Newest
    <2>4. /\ [cache[p][c] EXCEPT !.known = t] = [client |-> k, known |-> t]
          /\ [client |-> k, known |-> t] \in CachedClient
      <3>1. PICK e \in CachedClient : e = cache[p][c]
        BY <1>d DEF StoreRows
      <3>2. [e EXCEPT !.known = t] = [client |-> e.client, known |-> t]
        BY DEF CachedClient
      <3> QED  BY <2>1, <3>1, <3>2 DEF CachedClient
    <2>5. /\ cache' \in [Procs -> [Characters -> CachedClient \cup {None}]]
          /\ cache'[p][c] = [client |-> k, known |-> t]
          /\ \A q \in Procs, d \in Characters : q # p \/ d # c => cache'[q][d] = cache[q][d]
      BY <2>2, <2>4 DEF StoreRows
    <2>6. cache'[p][c] # None /\ cache'[p][c].client = k /\ cache'[p][c].known = t
      BY <2>4, <2>5, TokenStoreAssumption
    <2>7. /\ job' \in [Jobs -> Call]
          /\ job'[j].at = "writing" /\ job'[j].char = c /\ job'[j].token = t
          /\ \A i \in Jobs : i # j => job'[i] = job[i]
      <3>1. PICK r \in Call : r = job[j]
        BY DEF StoreRows
      <3>2. [r EXCEPT !.at = "writing"] = [at |-> "writing", char |-> r.char, token |-> r.token, client |-> r.client]
        BY DEF Call
      <3>3. [r EXCEPT !.at = "writing", !.token = t] = [[r EXCEPT !.at = "writing"] EXCEPT !.token = t]
        OBVIOUS
      <3>4. [[at |-> "writing", char |-> r.char, token |-> r.token, client |-> r.client] EXCEPT !.token = t] =
               [at |-> "writing", char |-> r.char, token |-> t, client |-> r.client]
        OBVIOUS
      <3>5. [at |-> "writing", char |-> r.char, token |-> t, client |-> r.client] \in Call
        BY DEF Call, Steps
      <3>6. job' = [job EXCEPT ![j] = [at |-> "writing", char |-> r.char, token |-> t, client |-> r.client]]
        BY <2>2, <3>1, <3>2, <3>3, <3>4
      <3> QED  BY <1>b, <3>1, <3>5, <3>6 DEF StoreRows
    <2>8. \A i \in Jobs : job[i].at = "writing" => job[i].char # c
      <3> SUFFICES ASSUME NEW i \in Jobs, job[i].at = "writing", job[i].char = c
                   PROVE  FALSE
        OBVIOUS
      <3>1. /\ cache[ProcOf[i]][c] # None /\ Newest(cache[ProcOf[i]][c].client, c)
            /\ ~Unwritten(cache[ProcOf[i]][c])
        BY DEF WritingInv, Cached
      <3>2. ProcOf[i] = p
        BY <1>a, <1>d, <2>1, <2>3, <3>1, OneHolder
      <3> QED  BY <1>d, <3>1, <3>2
    <2>9. \A q \in Procs, d \in Characters : cache'[q][d] # None /\ Unwritten(cache[q][d])' =>
             (q # p \/ d # c) /\ cache'[q][d] = cache[q][d] /\ Unwritten(cache[q][d])
      BY <2>1, <2>2, <2>5, <2>6 DEF Unwritten
    <2>10. \A q \in Procs, d \in Characters :
              /\ cache'[q][d] # None <=> cache[q][d] # None
              /\ cache[q][d] # None => cache'[q][d].client = cache[q][d].client
      BY <1>d, <2>1, <2>5, <2>6
    <2>11. \A d \in Characters : Gone(d)' <=> Gone(d)
      BY <2>2 DEF Gone
    <2>12. \A m \in Clients, d \in Characters : Newest(m, d)' <=> Newest(m, d)
      BY <2>2 DEF Newest
    <2>13. StoreRows'
      BY <2>2, <2>5, <2>7 DEF StoreRows
    <2>14. CallInv' /\ OrderInv'
      <3>1. CallInv'
        BY <1>b, <2>2, <2>7 DEF CallInv
      <3>2. \A i \in Jobs : job'[i].at \in {"loaded", "removing", "building"} =>
               job'[i].token <= stored'[job'[i].char].token
        BY <2>2, <2>7 DEF OrderInv
      <3> QED  BY <2>2, <3>1, <3>2 DEF OrderInv
    <2>u. stored' = stored /\ sso' = sso /\ heap' = heap
      BY <2>2
    <2>15. ClientsInv'
      <3>1. \A q \in Procs, d \in Characters : cache'[q][d] # None =>
               LET m == cache'[q][d].client IN
               heap'[m] # None /\ heap'[m].proc = q /\ heap'[m].char = d
        BY <2>u, <2>10 DEF ClientsInv
      <3>2. \A i \in Jobs : job'[i].at = "using" =>
               LET m == job'[i].client IN
               heap'[m] # None /\ heap'[m].proc = ProcOf[i] /\ heap'[m].char = job'[i].char
        BY <2>u, <2>7 DEF ClientsInv
      <3> QED  BY <3>1, <3>2 DEF ClientsInv
    <2>16. OneNewest'
      BY <2>2, <2>12 DEF OneNewest
    <2>17. RotatedInv'
      <3> SUFFICES ASSUME NEW q \in Procs, NEW d \in Characters, cache'[q][d] # None, Unwritten(cache[q][d])'
                   PROVE  Newest(cache[q][d].client, d)' /\ stored'[d].token # sso'[d]
        BY DEF RotatedInv
      <3>1. cache'[q][d] = cache[q][d] /\ Unwritten(cache[q][d])
        BY <2>9
      <3> QED  BY <2>u, <3>1 DEF RotatedInv, Newest
    <2>18. WritingInv'
      <3>1. ASSUME NEW i \in Jobs, job'[i].at = "writing", i # j
            PROVE  /\ job'[i] = job[i] /\ job[i].char # c /\ Cached(i)' = Cached(i)
                   /\ Cached(i) # None
        BY <1>a, <2>5, <2>7, <2>8, <3>1 DEF CallInv, Cached, WritingInv
      <3>2. /\ Cached(j)' = cache'[p][c] /\ ~Unwritten(cache[p][c])' /\ Newest(cache[p][c].client, c)'
        BY <1>b, <2>1, <2>2, <2>3, <2>6, <2>7 DEF Cached, Unwritten, Newest
      <3>3. \A i \in Jobs : job'[i].at = "writing" =>
              /\ job'[i].token = sso'[job'[i].char] /\ stored'[job'[i].char].token # sso'[job'[i].char]
              /\ Cached(i)' # None /\ ~Unwritten(Cached(i))' /\ Newest(Cached(i).client, job[i].char)'
        <4> SUFFICES ASSUME NEW i \in Jobs, job'[i].at = "writing"
                     PROVE  /\ job'[i].token = sso'[job'[i].char] /\ stored'[job'[i].char].token # sso'[job'[i].char]
                            /\ Cached(i)' # None /\ ~Unwritten(Cached(i))' /\ Newest(Cached(i).client, job[i].char)'
          OBVIOUS
        <4>1. CASE i = j
          BY <2>2, <2>3, <2>6, <2>7, <3>2, <4>1 DEF Unwritten, Newest
        <4>2. CASE i # j
          BY <2>2, <3>1, <4>2 DEF WritingInv, Unwritten, Newest
        <4> QED  BY <4>1, <4>2
      <3>4. \A h, i \in Jobs : job'[h].at = "writing" /\ job'[i].at = "writing" /\ job'[h].char = job'[i].char => h = i
        BY <2>7, <2>8 DEF WritingInv
      <3> QED  BY <3>3, <3>4 DEF WritingInv
    <2>19. KnownInv'
      BY <2>2, <2>7, <2>9, <2>11 DEF KnownInv
    <2>20. RemovingInv'
      <3> SUFFICES ASSUME NEW i \in Jobs, NEW q \in Procs, NEW d \in Characters, q = ProcOf[i], d = job'[i].char,
                          Removes(i, cache[q][d])', ~Gone(d)'
                   PROVE  /\ ~Unwritten(cache[q][d])'
                          /\ Newest(cache[q][d].client, d)' =>
                                job'[i].token # stored'[d].token \/ Persisting(q, d)'
        BY DEF RemovingInv
      <3>1. job'[i] = job[i] /\ Removes(i, cache[q][d]) /\ ~Gone(d)
        BY <2>7, <2>10, <2>11 DEF Removes
      <3>2. /\ ~Unwritten(cache[q][d])
            /\ Newest(cache[q][d].client, d) => job[i].token # stored[d].token \/ Persisting(q, d)
        BY <3>1 DEF RemovingInv
      <3>3. Persisting(q, d) => Persisting(q, d)'
        BY <2>2, <2>7 DEF Persisting
      <3>4. Newest(cache[q][d].client, d)' => Newest(cache[q][d].client, d)
        BY <2>2, <2>10, <3>1 DEF Newest, Removes
      <3> QED  BY <2>2, <2>9, <3>1, <3>2, <3>3, <3>4 DEF Removes
    <2>21. TokenNotLost'
      <3> SUFFICES ASSUME NEW d \in Characters, Held(d)
                   PROVE  Held(d)'
        BY <2>2, <2>11 DEF TokenNotLost, Accepted
      <3>1. CASE d = c
        BY <2>2, <2>3, <2>7, <3>1 DEF Held
      <3>2. CASE d # c
        <4>1. \A i \in Jobs : job[i].at = "writing" => i # j
          BY <2>2
        <4> QED  BY <2>2, <2>5, <2>7, <3>2, <4>1 DEF Held, Unwritten
      <3> QED  BY <3>1, <3>2
    <2>22. SweepInv'
      BY <2>2 DEF SweepInv
    <2> QED  BY <2>13, <2>14, <2>15, <2>16, <2>17, <2>18, <2>19, <2>20, <2>21, <2>22
  <1> QED  BY <1>c, <1>d

LEMMA PersistEndsKeep ==
    ASSUME StoreInv, NEW j \in Jobs, PersistWrite(j) \/ PersistFail(j)
    PROVE  StoreInv'
  <1> USE DEF StoreInv
  <1>a. /\ \A d \in Characters : stored[d].token \in Nat /\ sso[d] \in Nat
        /\ \A q \in Procs, d \in Characters : cache[q][d] # None =>
              cache[q][d].client \in Clients /\ cache[q][d].known \in Nat
        /\ \A i \in Jobs : ProcOf[i] \in Procs
        /\ Tokens \subseteq Nat
    BY StoreTypes
  <1>b. PICK p \in Procs, c \in Characters : p = ProcOf[j] /\ c = job[j].char
    BY <1>a DEF PersistWrite, PersistFail, CallInv
  <1>c. /\ job[j].at = "writing" /\ JobEnds(j)
        /\ UNCHANGED <<lock, sso, primary, heap, cache, sweep, strayed>>
    BY DEF PersistWrite, PersistFail
  <1>d. /\ job' \in [Jobs -> Call] /\ job'[j].at = "idle"
        /\ \A i \in Jobs : i # j => job'[i] = job[i]
    BY <1>c, JobEndsCall
  <1>e. /\ job[j].token = sso[c] /\ stored[c].token # sso[c] /\ stored[c].token < sso[c]
        /\ cache[p][c] # None /\ ~Unwritten(cache[p][c]) /\ Newest(cache[p][c].client, c)
    BY <1>a, <1>b, <1>c DEF WritingInv, Cached, OrderInv
  <1>f. \A i \in Jobs : i # j /\ job[i].at = "writing" => job[i].char # c
    BY <1>b, <1>c DEF WritingInv
  <1>g. \A q \in Procs : cache[q][c] # None => ~Unwritten(cache[q][c])
    <2> SUFFICES ASSUME NEW q \in Procs, cache[q][c] # None, Unwritten(cache[q][c])
                 PROVE  FALSE
      OBVIOUS
    <2>1. Newest(cache[q][c].client, c)
      BY DEF RotatedInv
    <2> QED  BY <1>e, <2>1, OneHolder
  <1>h. \/ /\ dropped' = dropped /\ lock[c] = None
           /\ stored' \in [Characters -> [token : Tokens, kid : Kids]]
           /\ stored'[c].token = sso[c] /\ \A d \in Characters : d # c => stored'[d] = stored[d]
        \/ /\ stored' = stored /\ dropped' \in [Characters -> SUBSET Tokens]
           /\ Gone(c)' /\ \A d \in Characters : d # c => dropped'[d] = dropped[d]
    <2>1. CASE PersistWrite(j)
      <3>1. job[j].token \in Tokens /\ primary[p] \in Kids
        BY <1>c DEF CallInv, StoreRows
      <3>2. stored' = [stored EXCEPT ![c] = [token |-> job[j].token, kid |-> primary[p]]]
        BY <1>b, <2>1 DEF PersistWrite
      <3> QED  BY <1>b, <1>e, <2>1, <3>1, <3>2 DEF PersistWrite, StoreRows
    <2>2. CASE PersistFail(j)
      <3>1. stored' = stored /\ dropped' = [dropped EXCEPT ![c] = @ \cup {job[j].token}]
        BY <1>b, <2>2 DEF PersistFail
      <3>2. job[j].token \in Tokens
        BY <1>c DEF CallInv
      <3>3. dropped' \in [Characters -> SUBSET Tokens] /\ job[j].token \in dropped'[c]
            /\ \A d \in Characters : d # c => dropped'[d] = dropped[d]
        BY <3>1, <3>2 DEF StoreRows
      <3> QED  BY <1>e, <3>1, <3>3 DEF Gone
    <2> QED  BY <2>1, <2>2
  <1>i. \A d \in Characters : d # c => stored'[d] = stored[d] /\ (Gone(d)' <=> Gone(d))
    <2>1. \A d \in Characters : d # c => stored'[d] = stored[d] /\ dropped'[d] = dropped[d] /\ strayed'[d] = strayed[d]
      BY <1>c, <1>h
    <2> QED  BY <2>1 DEF Gone
  <1>j. stored'[c].token = sso[c] \/ (stored' = stored /\ Gone(c)')
    BY <1>h
  <1>k. stored[c].token <= stored'[c].token /\ stored'[c].token <= sso[c]
    BY <1>a, <1>e, <1>j
  <1>l. sso' = sso /\ heap' = heap /\ cache' = cache
    BY <1>c
  <1>1. StoreRows'
    BY <1>c, <1>d, <1>h DEF StoreRows
  <1>2. CallInv'
    BY <1>d DEF CallInv
  <1>3. OrderInv'
    <2>1. \A d \in Characters : stored'[d].token <= sso'[d]
      BY <1>i, <1>k, <1>l DEF OrderInv
    <2>2. \A i \in Jobs : job'[i].at \in {"loaded", "removing", "building"} =>
             job'[i].token <= stored'[job'[i].char].token
      <3> SUFFICES ASSUME NEW i \in Jobs, job'[i].at \in {"loaded", "removing", "building"}
                   PROVE  job'[i].token <= stored'[job'[i].char].token
        OBVIOUS
      <3>1. /\ job'[i] = job[i] /\ job[i].char \in Characters /\ job[i].token \in Nat
            /\ job[i].token <= stored[job[i].char].token
        BY <1>a, <1>d DEF CallInv, OrderInv
      <3>2. stored'[c].token \in Nat
        BY <1>a, <1>j
      <3>3. CASE job[i].char = c
        BY <1>a, <1>k, <3>1, <3>2, <3>3
      <3>4. CASE job[i].char # c
        BY <1>i, <3>1, <3>4
      <3> QED  BY <3>3, <3>4
    <2> QED  BY <1>l, <2>1, <2>2 DEF OrderInv
  <1>4. ClientsInv'
    BY <1>d, <1>l DEF ClientsInv
  <1>5. OneNewest'
    BY <1>i, <1>j, <1>l DEF OneNewest, Newest
  <1>6. RotatedInv'
    <2> SUFFICES ASSUME NEW q \in Procs, NEW d \in Characters, cache[q][d] # None, Unwritten(cache[q][d])
                 PROVE  Newest(cache[q][d].client, d) /\ stored'[d].token # sso[d]
      BY <1>l DEF RotatedInv, Unwritten, Newest
    <2>1. d # c
      BY <1>g
    <2> QED  BY <1>i, <2>1 DEF RotatedInv
  <1>7. WritingInv'
    <2>1. \A i \in Jobs : job'[i].at = "writing" =>
             /\ job'[i] = job[i] /\ job[i].char \in Characters /\ job[i].char # c
             /\ Cached(i)' = Cached(i)
      BY <1>d, <1>f, <1>l DEF CallInv, Cached
    <2>2. \A i \in Jobs : job'[i].at = "writing" =>
              /\ job'[i].token = sso'[job'[i].char] /\ stored'[job'[i].char].token # sso'[job'[i].char]
              /\ Cached(i)' # None /\ ~Unwritten(Cached(i))' /\ Newest(Cached(i).client, job[i].char)'
      BY <1>i, <1>l, <2>1 DEF WritingInv, Unwritten, Newest
    <2> QED  BY <2>1, <2>2 DEF WritingInv
  <1>8. KnownInv'
    <2> SUFFICES ASSUME NEW q \in Procs, NEW d \in Characters,
                        ~Gone(d)', cache[q][d] # None, Unwritten(cache[q][d])
                 PROVE  /\ cache[q][d].known = stored'[d].token
                        /\ \A i \in Jobs : ProcOf[i] = q /\ job'[i].char = d /\ job'[i].at = "loaded" =>
                                              job'[i].token = stored'[d].token
      BY <1>l DEF KnownInv, Unwritten
    <2>1. d # c
      BY <1>g
    <2> QED  BY <1>d, <1>i, <2>1 DEF KnownInv
  <1>9. RemovingInv'
    <2> SUFFICES ASSUME NEW i \in Jobs, NEW q \in Procs, NEW d \in Characters, q = ProcOf[i], d = job'[i].char,
                        Removes(i, cache[q][d])', ~Gone(d)'
                 PROVE  /\ ~Unwritten(cache[q][d])'
                        /\ Newest(cache[q][d].client, d)' =>
                              job'[i].token # stored'[d].token \/ Persisting(q, d)'
      BY DEF RemovingInv
    <2>1. job'[i] = job[i] /\ i # j /\ Removes(i, cache[q][d])
      BY <1>d, <1>l DEF Removes
    <2>2. CASE d = c
      <3>1. job[i].token \in Nat /\ job[i].token <= stored[c].token
        BY <1>a, <2>1, <2>2 DEF CallInv, OrderInv, Removes
      <3>2. stored'[c].token = sso[c]
        BY <1>j, <2>2
      <3> QED  BY <1>a, <1>e, <1>g, <1>l, <2>1, <2>2, <3>1, <3>2 DEF Unwritten, Removes
    <2>3. CASE d # c
      <3>1. /\ ~Unwritten(cache[q][d])
            /\ Newest(cache[q][d].client, d) => job[i].token # stored[d].token \/ Persisting(q, d)
        BY <1>i, <2>1, <2>3 DEF RemovingInv
      <3>2. Persisting(q, d) => Persisting(q, d)'
        BY <1>b, <1>d, <2>3 DEF Persisting
      <3> QED  BY <1>i, <1>l, <2>1, <2>3, <3>1, <3>2 DEF Unwritten, Newest
    <2> QED  BY <2>2, <2>3
  <1>10. TokenNotLost'
    <2> SUFFICES ASSUME NEW d \in Characters, ~Gone(d)'
                 PROVE  Accepted(d)' \/ Held(d)'
      BY DEF TokenNotLost
    <2>1. CASE d = c
      BY <1>j, <1>l, <2>1 DEF Accepted
    <2>2. CASE d # c
      <3>1. Accepted(d) => Accepted(d)'
        BY <1>i, <1>l, <2>2 DEF Accepted
      <3>2. Held(d) => Held(d)'
        BY <1>b, <1>d, <1>l, <2>2 DEF Held, Unwritten
      <3> QED  BY <1>i, <2>2, <3>1, <3>2 DEF TokenNotLost
    <2> QED  BY <2>1, <2>2
  <1>11. SweepInv'
    <2>1. \A q \in Procs : sweep[q] # None => sweep[q].char \in Characters
      BY DEF StoreRows, SweptRow
    <2>2. stored' = stored \/ lock[c] = None
      BY <1>h
    <2>3. \A q \in Procs : q # None
      BY TokenStoreAssumption
    <2> QED  BY <1>c, <1>i, <2>1, <2>2, <2>3 DEF SweepInv
  <1> QED  BY <1>1, <1>2, <1>3, <1>4, <1>5, <1>6, <1>7, <1>8, <1>9, <1>10, <1>11

LEMMA BounceKeeps ==
    ASSUME StoreInv, NEW p \in Procs, Bounce(p)
    PROVE  StoreInv'
  <1> USE DEF StoreInv
  <1>a. /\ \A d \in Characters : stored[d].token \in Nat /\ sso[d] \in Nat
        /\ \A q \in Procs, d \in Characters : cache[q][d] # None =>
              cache[q][d].client \in Clients /\ cache[q][d].known \in Nat
        /\ \A i \in Jobs : ProcOf[i] \in Procs
    BY StoreTypes
  <1>b. /\ UNCHANGED <<lock, stored, sso, heap, job, sweep, strayed>>
        /\ \A i \in Jobs : ProcOf[i] = p => job[i].at = "idle"
        /\ primary' = [primary EXCEPT ![p] = NewKid]
        /\ cache' = [cache EXCEPT ![p] = [d \in Characters |-> None]]
        /\ dropped' = [d \in Characters |->
                         IF cache[p][d] = None THEN dropped[d]
                         ELSE dropped[d] \cup {heap[cache[p][d].client].token}]
    BY DEF Bounce
  <1>c. /\ \A d \in Characters : cache'[p][d] = None
        /\ \A q \in Procs, d \in Characters : q # p => cache'[q][d] = cache[q][d]
    BY <1>b DEF StoreRows
  <1>d. /\ \A d \in Characters : dropped[d] \subseteq dropped'[d]
        /\ \A d \in Characters : cache[p][d] # None => heap[cache[p][d].client].token \in dropped'[d]
    BY <1>b
  <1>e. \A d \in Characters : Gone(d) => Gone(d)'
    BY <1>b, <1>d DEF Gone
  <1>f. stored' = stored /\ sso' = sso /\ heap' = heap /\ job' = job
    BY <1>b
  <1>g. \A q \in Procs, d \in Characters : cache'[q][d] # None => q # p /\ cache'[q][d] = cache[q][d]
    BY <1>c
  <1>1. StoreRows'
    <2>1. primary' \in [Procs -> Kids]
      BY <1>b DEF StoreRows, Kids
    <2>2. cache' \in [Procs -> [Characters -> CachedClient \cup {None}]]
      BY <1>b DEF StoreRows
    <2>3. dropped' \in [Characters -> SUBSET Tokens]
      <3>1. \A d \in Characters : cache[p][d] # None => heap[cache[p][d].client].token \in Tokens
        BY <1>a DEF StoreRows, ClientsInv, Client
      <3> QED  BY <1>b, <3>1 DEF StoreRows
    <2> QED  BY <1>b, <2>1, <2>2, <2>3 DEF StoreRows
  <1>2. CallInv' /\ OrderInv' /\ SweepInv'
    BY <1>b DEF CallInv, OrderInv, SweepInv
  <1>3. ClientsInv'
    BY <1>f, <1>g DEF ClientsInv
  <1>4. OneNewest'
    BY <1>f DEF OneNewest, Newest
  <1>5. RotatedInv'
    BY <1>f, <1>g DEF RotatedInv, Newest, Unwritten
  <1>6. WritingInv'
    <2>1. \A i \in Jobs : job[i].at = "writing" => Cached(i)' = Cached(i)
      <3> SUFFICES ASSUME NEW i \in Jobs, job[i].at = "writing"
                   PROVE  Cached(i)' = Cached(i)
        OBVIOUS
      <3>1. ProcOf[i] # p /\ job[i].char \in Characters /\ ProcOf[i] \in Procs
        BY <1>a, <1>b DEF CallInv
      <3> QED  BY <1>c, <1>f, <3>1 DEF Cached
    <2> QED  BY <1>f, <2>1 DEF WritingInv, Unwritten, Newest
  <1>7. KnownInv'
    BY <1>e, <1>f, <1>g DEF KnownInv, Unwritten
  <1>8. RemovingInv'
    <2> SUFFICES ASSUME NEW i \in Jobs, NEW q \in Procs, NEW d \in Characters, q = ProcOf[i], d = job[i].char,
                        Removes(i, cache[q][d])', ~Gone(d)'
                 PROVE  /\ ~Unwritten(cache[q][d])'
                        /\ Newest(cache[q][d].client, d)' =>
                              job[i].token # stored[d].token \/ Persisting(q, d)
      BY <1>f DEF RemovingInv, Persisting
    <2>1. Removes(i, cache[q][d]) /\ ~Gone(d) /\ cache'[q][d] = cache[q][d]
      BY <1>e, <1>f, <1>g DEF Removes
    <2> QED  BY <1>f, <2>1 DEF RemovingInv, Unwritten, Newest
  <1>9. TokenNotLost'
    <2> SUFFICES ASSUME NEW d \in Characters, ~Gone(d)', ~Accepted(d), Held(d)
                 PROVE  Held(d)'
      BY <1>e, <1>f DEF TokenNotLost, Accepted
    <2>1. CASE \E i \in Jobs : job[i].at = "writing" /\ job[i].char = d /\ job[i].token = sso[d]
      BY <1>f, <2>1 DEF Held
    <2>2. ASSUME NEW q \in Procs, cache[q][d] # None, Unwritten(cache[q][d]),
                 heap[cache[q][d].client].token = sso[d]
          PROVE  Held(d)'
      <3>1. q # p
        BY <1>a, <1>d, <1>f, <2>2 DEF Gone, Accepted, OrderInv
      <3> QED  BY <1>c, <1>f, <2>2, <3>1 DEF Held, Unwritten
    <2> QED  BY <2>1, <2>2 DEF Held
  <1> QED  BY <1>1, <1>2, <1>3, <1>4, <1>5, <1>6, <1>7, <1>8, <1>9

LEMMA StoreInitial == StoreInit => StoreInv
  <1> SUFFICES ASSUME StoreInit
               PROVE  StoreInv
    OBVIOUS
  <1>1. /\ lock = [c \in Characters |-> None]
        /\ stored = [c \in Characters |-> [token |-> 0, kid |-> OldKid]]
        /\ sso = [c \in Characters |-> 0]
        /\ primary = [p \in Procs |-> OldKid]
        /\ heap = [k \in Clients |-> None]
        /\ cache = [p \in Procs |-> [c \in Characters |-> None]]
        /\ job = [j \in Jobs |-> Idle]
        /\ sweep = [p \in Procs |-> None]
        /\ dropped = [c \in Characters |-> {}] /\ strayed = [c \in Characters |-> {}]
        /\ 0 \in Tokens /\ OldKid \in Kids
    BY TokenStoreAssumption DEF StoreInit, Tokens, Kids
  <1>2. Idle \in Call /\ Idle.at = "idle"
    BY DEF Idle, Call, Steps
  <1>3. StoreRows
    BY <1>1, <1>2 DEF StoreRows
  <1>4. CallInv /\ WritingInv /\ RemovingInv
    BY <1>1, <1>2 DEF CallInv, WritingInv, RemovingInv, Removes
  <1>5. OrderInv
    BY <1>1, <1>2 DEF OrderInv
  <1>6. ClientsInv /\ RotatedInv /\ KnownInv /\ SweepInv
    BY <1>1, <1>2 DEF ClientsInv, RotatedInv, KnownInv, SweepInv
  <1>7. OneNewest /\ TokenNotLost
    BY <1>1 DEF OneNewest, TokenNotLost, Accepted
  <1> QED  BY <1>3, <1>4, <1>5, <1>6, <1>7 DEF StoreInv

LEMMA StoreNextKeeps == StoreInv /\ [StoreNext]_storeVars => StoreInv'
  <1> SUFFICES ASSUME StoreInv, [StoreNext]_storeVars
               PROVE  StoreInv'
    OBVIOUS
  <1>1. CASE UNCHANGED storeVars
    <2>1. UNCHANGED <<sso, heap, cache, job, dropped, strayed>> /\ UNCHANGED <<lock, stored, sweep, primary>>
      BY <1>1 DEF storeVars
    <2>2. TokensInv'
      BY <2>1, TokensKept DEF TokensInv, StoreInv
    <2>3. StoreRows' /\ SweepInv'
      BY <2>1 DEF StoreInv, StoreRows, SweepInv
    <2> QED  BY <2>2, <2>3 DEF TokensInv, StoreInv
  <1>2. ASSUME NEW c \in Characters, LoginLocks(c) \/ LoginEnds(c)
        PROVE  StoreInv'
    BY <1>2, LocksKeep
  <1>3. ASSUME NEW j \in Jobs,
               (\E c \in Characters : LoadTokens(j, c)) \/ LookUpClient(j) \/ EndCalls(j) \/ CallsFail(j)
        PROVE  StoreInv'
    BY <1>3, CallsKeep
  <1>4. ASSUME NEW j \in Jobs, RemoveStale(j) \/ InsertClient(j) \/ Refresh(j)
        PROVE  StoreInv'
    BY <1>4, RemoveStaleKeeps, InsertClientKeeps, RefreshKeeps
  <1>5. ASSUME NEW j \in Jobs, PersistSwap(j) \/ PersistWrite(j) \/ PersistFail(j)
        PROVE  StoreInv'
    BY <1>5, PersistSwapKeeps, PersistEndsKeep
  <1>6. ASSUME NEW p \in Procs, (\E c \in Characters : SweepScan(p, c)) \/ SweepWrite(p) \/ Bounce(p)
        PROVE  StoreInv'
    BY <1>6, LocksKeep, BounceKeeps
  <1> QED  BY <1>1, <1>2, <1>3, <1>4, <1>5, <1>6 DEF StoreNext, JobStep

(* The invariant of the token store: a token that is not stored is in one    *)
(* client, the cache entry that has this client knows that it is to be       *)
(* written, or a call is writing it, or a token is gone.                     *)
THEOREM StoreInvariant == StoreSpec => []StoreInv
  BY StoreInitial, StoreNextKeeps, PTL DEF StoreSpec

(* A refresh token gets lost in the known ways only (persist_rotations,      *)
(* authed_client_for), for any number of processes and calls.                *)
THEOREM TokenIsNotLost == StoreSpec => []TokenNotLost
  <1>1. StoreInv => TokenNotLost
    BY DEF StoreInv
  <1> QED  BY <1>1, StoreInvariant, PTL

(* reencrypt_stale never puts an older token back. *)
THEOREM SweepsKeepTokens == StoreSpec => SweepKeepsToken
  <1> DEFINE A == \A p \in Procs, c \in Characters :
                     sweep[p] # None /\ sweep[p].char = c /\ sweep'[p] = None =>
                        stored'[c].token = stored[c].token
  <1>1. StoreInv /\ [StoreNext]_storeVars => [A]_storeVars
    <2> SUFFICES ASSUME StoreInv, StoreNext
                 PROVE  A
      BY DEF storeVars
    <2> HIDE DEF A
    <2>1. CASE UNCHANGED sweep
      BY <2>1 DEF A
    <2>2. CASE \E p \in Procs : (\E c \in Characters : SweepScan(p, c)) \/ SweepWrite(p)
      <3>1. \A c \in Characters : stored'[c].token = stored[c].token
        BY <2>2, LocksKeep
      <3> QED  BY <3>1 DEF A
    <2>3. \/ UNCHANGED sweep
          \/ \E p \in Procs : (\E c \in Characters : SweepScan(p, c)) \/ SweepWrite(p)
      BY DEF StoreNext, JobStep, LoginLocks, LoginEnds, LoadTokens, LookUpClient, RemoveStale,
             InsertClient, EndCalls, PersistSwap, PersistWrite, Refresh, CallsFail, PersistFail, Bounce
    <2> QED  BY <2>1, <2>2, <2>3
  <1> QED  BY <1>1, StoreInvariant, PTL DEF StoreSpec, SweepKeepsToken

=============================================================================
