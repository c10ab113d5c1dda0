----------------------------- MODULE MCTokenStore -----------------------------
(* TokenStore with jobs j1 and j2 in one worker; a second worker sweeps.     *)
EXTENDS TokenStore

CONSTANTS j1, j2, api, worker, worker2

MCProcOf == [j \in Jobs |-> worker]
=============================================================================
