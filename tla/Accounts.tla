------------------------------- MODULE Accounts -------------------------------
(* EVE SSO login (api/src/auth.rs) under tx_middleware (api/src/db.rs):      *)
(* browser sessions and the tables users and characters. A callback is an    *)
(* HTTP exchange followed by the statements of one transaction. The session  *)
(* is not part of that transaction: it is loaded when a request needs it and *)
(* saved as a whole after any response that is not a 5xx.                    *)
EXTENDS CharacterRows, Integers, FiniteSets

CONSTANTS
    Users,              \* identifiers of users, those of `users` and new ones
    Sessions,           \* browser sessions
    Owners,             \* EVE accounts; a character can be sold
    CharactersPerUser   \* limits.characters_per_user

VARIABLES
    users,      \* rows of users
    chars,      \* rows of characters: the user and the owner hash
    active,     \* users.active_character_id
    session,    \* what a browser session stores
    login,      \* the callback a session has in flight
    owner       \* EVE: which account owns a character

accountVars == <<users, chars, active, session, login, lock, owner>>

Character == [user : Users, owner : Owners]
PendingAuth == [attach : BOOLEAN, target : Characters \cup {None}]
NewSession == [user |-> None, pending |-> None]

(* The tables hold whatever linked characters they had when the process came *)
(* up; nobody is logged in.                                                  *)
AccountsInit ==
    /\ users \in SUBSET Users
    /\ chars \in [Characters -> Character \cup {None}]
    /\ \A c \in Characters : chars[c] # None => chars[c].user \in users
    /\ active = [u \in Users |-> None]
    /\ session = [s \in Sessions |-> NewSession]
    /\ login = [s \in Sessions |-> None]
    /\ lock = [c \in Characters |-> None]
    /\ owner \in [Characters -> Owners]
-----------------------------------------------------------------------------
(* GET /auth/eve/login. A second login replaces the pending one. *)
Login(s, attach) ==
    /\ attach => session[s].user # None
    /\ session' = [session EXCEPT ![s].pending = [attach |-> attach, target |-> None]]
    /\ UNCHANGED <<users, chars, active, login, lock, owner>>

(* GET /auth/eve/upgrade, for a character of the session's user. *)
Upgrade(s, c) ==
    /\ session[s].user # None
    /\ chars[c] # None /\ chars[c].user = session[s].user
    /\ session' = [session EXCEPT ![s].pending = [attach |-> TRUE, target |-> c]]
    /\ UNCHANGED <<users, chars, active, login, lock, owner>>

(* GET /auth/eve/callback: EVE says who owns the character that consented,   *)
(* and the session is read. The pending login is used up by the response.    *)
Callback(s, c) ==
    LET p == session[s].pending IN
    /\ p # None /\ login[s] = None
    /\ p.target \in {None, c}
    /\ login' = [login EXCEPT ![s] = [at |-> "lookup", char |-> c, owner |-> owner[c],
                                      attach |-> p.attach, was |-> session[s].user,
                                      user |-> None, created |-> FALSE]]
    /\ UNCHANGED <<users, chars, active, session, lock, owner>>

(* 400: the state does not match (the consent page of a replaced login), or  *)
(* an upgrade got another character than the one it was for.                 *)
CallbackMismatch(s) ==
    /\ session[s].pending # None /\ login[s] = None
    /\ session' = [session EXCEPT ![s].pending = None]
    /\ UNCHANGED <<users, chars, active, login, lock, owner>>

(* Identifiers that name nobody yet. *)
FreshUsers ==
    Users \ (users \cup {session[s].user : s \in Sessions}
                   \cup {login[s].was : s \in {t \in Sessions : login[t] # None}}
                   \cup {login[s].user : s \in {t \in Sessions : login[t] # None}})

SameOwner(l) == chars[l.char] # None /\ chars[l.char].owner = l.owner

(* Who the character goes to; create_user is part of the transaction. *)
Creates(l) == ~l.attach /\ ~SameOwner(l) /\ l.was = None
Targets(l) ==
    CASE ~l.attach /\ SameOwner(l) -> {chars[l.char].user}
      [] Creates(l) -> FreshUsers
      [] OTHER -> {l.was}

CharactersOf(u) == {c \in Characters : chars[c] # None /\ chars[c].user = u}
WouldAddNew(c, u) == c \notin CharactersOf(u)
QuotaExceeded(c, u) == WouldAddNew(c, u) /\ Cardinality(CharactersOf(u)) >= CharactersPerUser

(* The response saves the session the request has loaded and changed. *)
SaveSession(s, u) == session' = [session EXCEPT ![s] = [user |-> u, pending |-> None]]

(* upsert_character: SELECT ... FOR UPDATE, the choice of the user and the   *)
(* count against the cap (422). A row that is not there cannot be locked.    *)
Lookup(s) ==
    LET l == login[s] IN
    /\ l # None /\ l.at = "lookup"
    /\ lock[l.char] = None
    /\ \E u \in Targets(l) :
          \/ /\ QuotaExceeded(l.char, u)
             /\ login' = [login EXCEPT ![s] = None]
             /\ SaveSession(s, l.was)
             /\ UNCHANGED lock
          \/ /\ ~QuotaExceeded(l.char, u)
             /\ login' = [login EXCEPT ![s] = [l EXCEPT !.at = "write", !.user = u,
                                                        !.created = Creates(l)]]
             /\ lock' = IF chars[l.char] = None THEN lock ELSE [lock EXCEPT ![l.char] = s]
             /\ UNCHANGED session
    /\ UNCHANGED <<users, chars, active, owner>>

(* The transaction ends, and with it the callback. *)
EndLogin(s) ==
    /\ login' = [login EXCEPT ![s] = None]
    /\ lock' = [c \in Characters |-> IF lock[c] = s THEN None ELSE lock[c]]

(* INSERT ... ON CONFLICT (character_id) DO UPDATE, the session's user, and  *)
(* a redirect to the page the login came from. A redirect is a 303, and      *)
(* tx_middleware commits a 2xx only: what create_user and upsert_character   *)
(* have written is rolled back, the session is saved.                        *)
Write(s) ==
    LET l == login[s] IN
    /\ l # None /\ l.at = "write"
    /\ l.created \/ l.user \in users
    /\ SaveSession(s, l.user)
    /\ EndLogin(s)
    /\ UNCHANGED <<users, chars, active, owner>>

(* The user the session names is not in users: the INSERT breaks the foreign *)
(* key, and a 500 saves neither the rows nor the session.                    *)
WriteFails(s) ==
    LET l == login[s] IN
    /\ l # None /\ l.at = "write"
    /\ ~l.created /\ l.user \notin users
    /\ EndLogin(s)
    /\ UNCHANGED <<users, chars, active, session, owner>>

(* session.flush: the pending login goes too. *)
Logout(s) ==
    /\ session[s] # NewSession
    /\ session' = [session EXCEPT ![s] = NewSession]
    /\ UNCHANGED <<users, chars, active, login, lock, owner>>

(* do_set_active_character and the trigger on users. *)
SetActiveCharacter(s, c) ==
    LET u == session[s].user IN
    /\ u \in users
    /\ c # None => chars[c] # None /\ chars[c].user = u
    /\ active' = [active EXCEPT ![u] = c]
    /\ UNCHANGED <<users, chars, session, login, lock, owner>>

(* EVE: a character is sold to another account. *)
Transfer(c, o) ==
    /\ owner[c] # o
    /\ owner' = [owner EXCEPT ![c] = o]
    /\ UNCHANGED <<users, chars, active, session, login, lock>>

AccountsNext ==
    \/ \E s \in Sessions :
          \/ \E attach \in BOOLEAN : Login(s, attach)
          \/ \E c \in Characters : Upgrade(s, c) \/ Callback(s, c)
          \/ CallbackMismatch(s) \/ Lookup(s) \/ Write(s) \/ WriteFails(s) \/ Logout(s)
          \/ \E c \in Characters \cup {None} : SetActiveCharacter(s, c)
    \/ \E c \in Characters, o \in Owners : Transfer(c, o)

AccountsSpec == AccountsInit /\ [][AccountsNext]_accountVars
-----------------------------------------------------------------------------
(* A row's user exists, and an active character is one of the user's own. *)
AccountsTypeOK ==
    /\ \A c \in Characters : chars[c] # None => chars[c] \in Character /\ chars[c].user \in users
    /\ \A u \in Users : active[u] # None => u \in users /\ active[u] \in CharactersOf(u)

(* Nobody gets into another player's account: a callback makes a session an  *)
(* existing user only if it was that user already, or if the character is    *)
(* still in the hands of the EVE account that linked it. Sold characters,    *)
(* logins that overlap the sale and sessions of users whose rows were rolled *)
(* back make no difference.                                                  *)
EntersOwnAccount ==
    [][\A s \in Sessions :
         LET u == session'[s].user  l == login[s] IN
         u \in users /\ u # session[s].user =>
            \/ u = l.was
            \/ chars[l.char] # None /\ chars[l.char].user = u /\ chars[l.char].owner = l.owner]_accountVars

(* "log in with EVE SSO, and create a group" (README.md): whoever is logged  *)
(* in has an account.                                                        *)
LoggedInHasAccount == \A s \in Sessions : session[s].user \in users \cup {None}
=============================================================================
