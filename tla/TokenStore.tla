------------------------------ MODULE TokenStore ------------------------------
(* CharacterTokenStore (auth-tokens/src/store.rs) in every process. Jobs     *)
(* share a cached client per character; a client refreshes its token when    *)
(* the access token runs out, and EVE then revokes the old refresh token.    *)
(* persist_rotations writes the cached client's token back; the sweeper      *)
(* re-encrypts rows whose key is not the primary one. The cache is looked    *)
(* up, emptied and filled in separate steps, and a job keeps the client it   *)
(* got, cached or not. A login locks a row and stores no token: its          *)
(* transaction is rolled back (Accounts).                                    *)
EXTENDS CharacterRows, Integers

CONSTANTS
    Api,            \* the API process
    Procs,          \* all processes that hold the cipher
    Jobs,           \* calls that use a client
    ProcOf,         \* [Jobs -> the process a job runs in]
    Clients,        \* identities of client objects
    OldKid, NewKid, \* the keys of a rotation
    LoginTx,        \* the holder of a row lock that is a login
    MaxTokens       \* bound: refreshes of a character

Tokens == 0 .. MaxTokens
Kids == {OldKid, NewKid}

(* An EsiClient, and an entry of the cache with its last_refresh_hash. *)
Client == [proc : Procs, char : Characters, token : Tokens]
CachedClient == [client : Clients, known : Tokens]

ASSUME TokenStoreAssumption ==
    /\ MaxTokens \in Nat /\ Api \in Procs /\ OldKid # NewKid
    /\ ProcOf \in [Jobs -> Procs]
    /\ None \notin Procs \cup Clients \cup Client \cup CachedClient \cup {LoginTx}
    /\ LoginTx \notin Procs

VARIABLES
    stored,     \* columns of characters: refresh token and key id
    sso,        \* EVE: the refresh token it accepts for a character
    primary,    \* the key a process encrypts with
    heap,       \* the client objects
    cache,      \* clients: [process -> [character -> entry]]
    job,        \* what a job is doing
    sweep,      \* the row a process is re-encrypting
    dropped,    \* history: tokens whose UPDATE failed or whose process stopped
    strayed     \* history: tokens of clients that are not in the cache

storeVars == <<lock, stored, sso, primary, heap, cache, job, sweep, dropped, strayed>>

Idle == [at |-> "idle", char |-> None, token |-> None, client |-> None]

(* The tokens of a character are numbered: a refresh gives the next number. *)
StoreInit ==
    /\ lock = [c \in Characters |-> None]
    /\ stored = [c \in Characters |-> [token |-> 0, kid |-> OldKid]]
    /\ sso = [c \in Characters |-> 0]
    /\ primary = [p \in Procs |-> OldKid]
    /\ heap = [k \in Clients |-> None]
    /\ cache = [p \in Procs |-> [c \in Characters |-> None]]
    /\ job = [j \in Jobs |-> Idle]
    /\ sweep = [p \in Procs |-> None]
    /\ dropped = [c \in Characters |-> {}] /\ strayed = [c \in Characters |-> {}]

Cached(j) == cache[ProcOf[j]][job[j].char]
JobEnds(j) == job' = [job EXCEPT ![j] = Idle]
JobGoes(j, at, client) == job' = [job EXCEPT ![j] = [@ EXCEPT !.at = at, !.client = client]]
-----------------------------------------------------------------------------
(* upsert_character of a callback (Accounts): SELECT ... FOR UPDATE, and the *)
(* end of its transaction, which leaves the row as it was.                   *)
LoginLocks(c) ==
    /\ lock[c] = None /\ lock' = [lock EXCEPT ![c] = LoginTx]
    /\ UNCHANGED <<stored, sso, primary, heap, cache, job, sweep, dropped, strayed>>

LoginEnds(c) ==
    /\ lock[c] = LoginTx /\ lock' = [lock EXCEPT ![c] = None]
    /\ UNCHANGED <<stored, sso, primary, heap, cache, job, sweep, dropped, strayed>>

(* authed_client_for: load_tokens, ... *)
LoadTokens(j, c) ==
    /\ job[j].at = "idle"
    /\ job' = [job EXCEPT ![j] = [at |-> "loaded", char |-> c, token |-> stored[c].token,
                                  client |-> None]]
    /\ UNCHANGED <<lock, stored, sso, primary, heap, cache, sweep, dropped, strayed>>

(* ... the cache: the entry is used if its hash is that of the row, ... *)
LookUpClient(j) ==
    LET e == Cached(j) IN
    /\ job[j].at = "loaded"
    /\ \/ e = None /\ JobGoes(j, "building", None)
       \/ e # None /\ e.known = job[j].token /\ JobGoes(j, "using", e.client)
       \/ e # None /\ e.known # job[j].token /\ JobGoes(j, "removing", e.client)
    /\ UNCHANGED <<lock, stored, sso, primary, heap, cache, sweep, dropped, strayed>>

(* persist_rotations keeps its reference into the map while it writes, so an *)
(* entry is neither removed nor replaced meanwhile.                          *)
Persisting(p, c) == \E j \in Jobs : ProcOf[j] = p /\ job[j].at = "writing" /\ job[j].char = c

Unwritten(e) == heap[e.client].token # e.known

(* An entry that leaves the cache with a token that is not written back. *)
Strays(j, e) ==
    strayed' = IF e # None /\ Unwritten(e)
               THEN [strayed EXCEPT ![job[j].char] = @ \cup {heap[e.client].token}]
               ELSE strayed

(* ... and is removed otherwise, whatever the entry is by then, ... *)
RemoveStale(j) ==
    LET p == ProcOf[j]  c == job[j].char  e == Cached(j) IN
    /\ job[j].at = "removing" /\ ~Persisting(p, c)
    /\ cache' = [cache EXCEPT ![p][c] = None]
    /\ Strays(j, IF e # None /\ e.client = job[j].client THEN None ELSE e)
    /\ JobGoes(j, "building", None)
    /\ UNCHANGED <<lock, stored, sso, primary, heap, sweep, dropped>>

(* ... and a new client is built from the row that was loaded and inserted,  *)
(* without another look at the cache.                                        *)
Live ==
    {k \in Clients :
        \/ \E j \in Jobs : job[j].client = k
        \/ \E p \in Procs, c \in Characters : cache[p][c] # None /\ cache[p][c].client = k}

Allocated == CHOOSE k \in Clients : k \notin Live

InsertClient(j) ==
    LET p == ProcOf[j]  c == job[j].char  t == job[j].token  k == Allocated IN
    /\ job[j].at = "building" /\ ~Persisting(p, c)
    /\ Live # Clients
    /\ heap' = [heap EXCEPT ![k] = [proc |-> p, char |-> c, token |-> t]]
    /\ cache' = [cache EXCEPT ![p][c] = [client |-> k, known |-> t]]
    /\ JobGoes(j, "using", k)
    /\ Strays(j, Cached(j))
    /\ UNCHANGED <<lock, stored, sso, primary, sweep, dropped>>

(* External: the access token is near its end and the job's client refreshes *)
(* it. An access token lasts 20 minutes and is stored beside its refresh     *)
(* token, so a database call of the process that started before the last     *)
(* refresh is over.                                                          *)
CallsAreShort(p, c) ==
    \A i \in Jobs : ProcOf[i] = p /\ job[i].char = c =>
        /\ job[i].at # "writing"
        /\ job[i].at \in {"loaded", "removing"} => job[i].token = stored[c].token

Refresh(j) ==
    LET p == ProcOf[j]  c == job[j].char  k == job[j].client  t == sso[c] + 1 IN
    /\ job[j].at = "using"
    /\ heap[k].token = sso[c] /\ t \in Tokens
    /\ CallsAreShort(p, c)
    /\ sso' = [sso EXCEPT ![c] = t]
    /\ heap' = [heap EXCEPT ![k].token = t]
    /\ strayed' = IF Cached(j) # None /\ Cached(j).client = k THEN strayed
                  ELSE [strayed EXCEPT ![c] = @ \cup {t}]
    /\ UNCHANGED <<lock, stored, primary, cache, job, sweep, dropped>>

(* The calls succeeded. Only the worker's jobs go on to persist: link_corp   *)
(* in the API drops its client.                                              *)
\* No job of any process persists.
MutantEndCalls(j) ==
    /\ job[j].at = "using"
    /\ JobEnds(j)
    /\ UNCHANGED <<lock, stored, sso, primary, heap, cache, sweep, dropped, strayed>>

EndCalls(j) ==
    /\ job[j].at = "using"
    /\ IF ProcOf[j] = Api THEN JobEnds(j) ELSE JobGoes(j, "persist", None)
    /\ UNCHANGED <<lock, stored, sso, primary, heap, cache, sweep, dropped, strayed>>

(* A call failed: no job persists then. A rotation stays in the client.      *)
CallsFail(j) ==
    /\ job[j].at = "using"
    /\ JobEnds(j)
    /\ UNCHANGED <<lock, stored, sso, primary, heap, cache, sweep, dropped, strayed>>

(* persist_rotations, on the cached client: last_refresh_hash is swapped, ... *)
PersistSwap(j) ==
    LET p == ProcOf[j]  c == job[j].char  e == Cached(j)  t == heap[e.client].token IN
    /\ job[j].at = "persist"
    /\ IF e # None /\ Unwritten(e)
       THEN /\ cache' = [cache EXCEPT ![p][c].known = t]
            /\ job' = [job EXCEPT ![j] = [@ EXCEPT !.at = "writing", !.token = t]]
       ELSE JobEnds(j) /\ UNCHANGED cache
    /\ UNCHANGED <<lock, stored, sso, primary, heap, sweep, dropped, strayed>>

\* The UPDATE matches only a row that is under the primary key.
MutantPersistWrite(j) ==
    LET c == job[j].char IN
    /\ job[j].at = "writing" /\ lock[c] = None
    /\ stored' = IF stored[c].kid = primary[ProcOf[j]]
                 THEN [stored EXCEPT ![c].token = job[j].token] ELSE stored
    /\ JobEnds(j)
    /\ UNCHANGED <<lock, sso, primary, heap, cache, sweep, dropped, strayed>>

(* ... then the row is written, whatever it holds by then. *)
PersistWrite(j) ==
    LET c == job[j].char IN
    /\ job[j].at = "writing" /\ lock[c] = None
    /\ stored' = [stored EXCEPT ![c] = [token |-> job[j].token, kid |-> primary[ProcOf[j]]]]
    /\ JobEnds(j)
    /\ UNCHANGED <<lock, sso, primary, heap, cache, sweep, dropped, strayed>>

PersistFail(j) ==
    /\ job[j].at = "writing"
    /\ JobEnds(j)
    /\ dropped' = [dropped EXCEPT ![job[j].char] = @ \cup {job[j].token}]
    /\ UNCHANGED <<lock, stored, sso, primary, heap, cache, sweep, strayed>>
-----------------------------------------------------------------------------
(* reencrypt_stale: FOR UPDATE SKIP LOCKED, then the guarded UPDATE. *)
Stale(p, c) ==
    /\ p # Api /\ sweep[p] = None /\ lock[c] = None
    /\ stored[c].kid # primary[p]

Scanned(p, c) == sweep' = [sweep EXCEPT ![p] = [char |-> c, token |-> stored[c].token,
                                               kid |-> stored[c].kid]]

\* The rows are scanned without FOR UPDATE.
MutantSweepScan(p, c) ==
    /\ Stale(p, c) /\ Scanned(p, c)
    /\ UNCHANGED <<lock, stored, sso, primary, heap, cache, job, dropped, strayed>>

SweepScan(p, c) ==
    /\ Stale(p, c) /\ Scanned(p, c)
    /\ lock' = [lock EXCEPT ![c] = p]
    /\ UNCHANGED <<stored, sso, primary, heap, cache, job, dropped, strayed>>

\* The row is written back under the key it had.
MutantReencrypted(p, w) == w.kid
Reencrypted(p, w) == primary[p]

SweepWrite(p) ==
    LET w == sweep[p] IN
    /\ w # None
    /\ stored' = IF stored[w.char].kid = w.kid
                 THEN [stored EXCEPT ![w.char] = [token |-> w.token, kid |-> Reencrypted(p, w)]]
                 ELSE stored
    /\ sweep' = [sweep EXCEPT ![p] = None]
    /\ lock' = [x \in Characters |-> IF lock[x] = p THEN None ELSE lock[x]]
    /\ UNCHANGED <<sso, primary, heap, cache, job, dropped, strayed>>

(* The key is rotated: a process is bounced, between its jobs, and comes     *)
(* back with the new primary key and an empty cache. A token it refreshed    *)
(* and did not persist goes with the cache.                                  *)
Bounce(p) ==
    /\ primary[p] = OldKid /\ sweep[p] = None
    /\ \A j \in Jobs : ProcOf[j] = p => job[j].at = "idle"
    /\ p = Api => \A c \in Characters : lock[c] # LoginTx
    /\ primary' = [primary EXCEPT ![p] = NewKid]
    /\ cache' = [cache EXCEPT ![p] = [c \in Characters |-> None]]
    /\ dropped' = [c \in Characters |->
                     IF cache[p][c] = None THEN dropped[c]
                     ELSE dropped[c] \cup {heap[cache[p][c].client].token}]
    /\ UNCHANGED <<lock, stored, sso, heap, job, sweep, strayed>>

JobStep(j) ==
    \/ LookUpClient(j) \/ RemoveStale(j) \/ InsertClient(j)
    \/ EndCalls(j) \/ PersistSwap(j) \/ PersistWrite(j)

StoreNext ==
    \/ \E c \in Characters : LoginLocks(c) \/ LoginEnds(c)
    \/ \E j \in Jobs : \/ \E c \in Characters : LoadTokens(j, c)
                       \/ JobStep(j) \/ Refresh(j) \/ CallsFail(j) \/ PersistFail(j)
    \/ \E p \in Procs : (\E c \in Characters : SweepScan(p, c)) \/ SweepWrite(p) \/ Bounce(p)

StoreSpec == StoreInit /\ [][StoreNext]_storeVars

(* Jobs run to their end and start again for ever, calls that are made again *)
(* and again do not always fail, row locks are granted in the order they are *)
(* asked for, and the sweeper runs every hour.                               *)
StoreFairSpec ==
    /\ StoreSpec
    /\ \A j \in Jobs : WF_storeVars(JobStep(j))
    /\ SF_storeVars(\E j \in Jobs : EndCalls(j)) /\ SF_storeVars(\E j \in Jobs : PersistWrite(j))
    /\ \A c \in Characters :
          /\ WF_storeVars(\E j \in Jobs : LoadTokens(j, c)) /\ WF_storeVars(LoginEnds(c))
          /\ SF_storeVars(\E p \in Procs : SweepScan(p, c))
    /\ \A p \in Procs : WF_storeVars(SweepWrite(p))
-----------------------------------------------------------------------------
(* EVE accepts the stored token. *)
Accepted(c) == stored[c].token = sso[c]

(* A process still has the refreshed token and knows that it is not stored.  *)
Held(c) ==
    \/ \E p \in Procs : cache[p][c] # None /\ Unwritten(cache[p][c])
                        /\ heap[cache[p][c].client].token = sso[c]
    \/ \E j \in Jobs : job[j].at = "writing" /\ job[j].char = c /\ job[j].token = sso[c]

(* The UPDATE of a successor failed or its process stopped before it, or the *)
(* successor was left with a client that is not in the cache.                *)
Gone(c) == \E t \in dropped[c] \cup strayed[c] : t > stored[c].token

(* A character's refresh token gets lost in known ways only. EVE accepts the *)
(* stored one, or a process holds its successor and will see that it has to  *)
(* be written (last_refresh_hash differs), whatever the jobs of one process, *)
(* other processes, the sweeper and logins do at the same time. Otherwise a  *)
(* successor's UPDATE failed or its process was stopped, or two jobs filled  *)
(* the cache at once: one client replaced the other, whose job refreshed the *)
(* token. A compare-and-remove that nobody interferes with loses nothing.    *)
TokenNotLost == \A c \in Characters : Accepted(c) \/ Held(c) \/ Gone(c)

(* reencrypt_stale is safe beside persist_rotations: it changes the key of a *)
(* row and never puts an older token back.                                   *)
SweepKeepsToken ==
    [][\A p \in Procs, c \in Characters :
         sweep[p] # None /\ sweep[p].char = c /\ sweep'[p] = None =>
            stored'[c].token = stored[c].token]_storeVars

(* Repeated sweeps converge: once every process has the new primary key, the *)
(* rows of the old one are rewritten.                                        *)
SweepConverges ==
    \A c \in Characters :
        (\A p \in Procs : primary[p] = NewKid) ~> (stored[c].kid = NewKid)

(* A rotated token is written back: a revoked one does not stay stored,      *)
(* unless its successor got lost in one of the ways of TokenNotLost.         *)
RotationPersisted ==
    \A c \in Characters : ~Accepted(c) ~> (Accepted(c) \/ Gone(c))
=============================================================================
