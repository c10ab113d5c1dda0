---------------------------- MODULE CharacterRows ----------------------------
(* The table characters as logins (Accounts) and the token store             *)
(* (TokenStore) share it: its keys and its row locks.                        *)
CONSTANTS
    Characters,     \* EVE characters
    None

VARIABLE
    lock            \* who holds the row lock of a character, or None
=============================================================================
