---------------------------- MODULE RequestRaces ----------------------------
(***************************************************************************)
(* Requests whose tests and writes are not one step.  The extractors       *)
(* CurrentList and CurrentClaim read the list and the claim in the same    *)
(* READ COMMITTED transaction as the handler, but before lock_list: any    *)
(* number of other requests may commit in between.  patch_list_payer does  *)
(* not lock the list at all before its UPDATE.  Here a request is first    *)
(* admitted, on what the extractor sees, and later executed under the lock *)
(* on what is then in the tables; every other request is still one step of *)
(* ListFulfillment.                                                        *)
(***************************************************************************)
EXTENDS ListFulfillment

CONSTANT Procs      \* bound: requests between their test and their lock

VARIABLE inFlight   \* the request of each process, or Idle

raceVars == <<vars, inFlight>>

Idle == [op |-> "none", user |-> None, claim |-> None]

OpenOps == {"add_items", "create_claim"}
MutableOps == {"patch_item", "delete_item", "mark_delivered", "set_list_tip",
               "record_fulfillment"}
ClaimOps == {"add_claim_items", "remove_claim_item", "release_claim"}

Request == [op : OpenOps \cup MutableOps \cup ClaimOps \cup {"patch_list_payer"},
            user : Users, claim : Claims \cup {None}]

\* What is tested before the lock: require_open, require_mutable, and for claims
\* require_list_mutable with ensure_claim_writable.  Authorisation is part of it.
Passes(r) ==
    \/ r.op \in OpenOps /\ r.claim = None /\ IsOpen
    \/ r.op \in MutableOps \ {"set_list_tip"} /\ r.claim = None /\ IsMutable
    \/ r.op = "set_list_tip" /\ r.claim = None /\ IsMutable /\ CanManage(r.user)
    \/ r.op \in ClaimOps /\ r.claim # None /\ IsMutable /\ ClaimWritable(r.user, r.claim)
    \/ r.op = "patch_list_payer" /\ r.claim = None /\ Exists
       /\ r.user \in Owners /\ NothingBilled

\* What is done once the lock is held.  The rest of the request (items,
\* quantities) plays no part in the test and is chosen here.
Locked(r) ==
    \/ r.op = "add_items" /\ \E S \in SUBSET Items, q \in Requested :
            AddItemsLocked(r.user, S, q)
    \/ r.op = "create_claim" /\ \E c \in Claims, S \in SUBSET Items :
            CreateClaimLocked(r.user, c, S)
    \/ r.op = "patch_item" /\ \E i \in Items, q \in Requested : PatchItemLocked(i, q)
    \/ r.op = "delete_item" /\ \E i \in Items : DeleteItemLocked(i)
    \/ r.op = "mark_delivered" /\ \E i \in Items : MarkDeliveredLocked(r.user, i)
    \/ r.op = "set_list_tip" /\ \E t \in Tips : SetListTipLocked(r.user, t)
    \/ r.op = "record_fulfillment" /\ \E i \in Items, q \in 1 .. MaxQty, f \in Fulfillments :
            RecordFulfillmentLocked(r.user, i, q, f)
    \/ r.op = "add_claim_items" /\ \E S \in SUBSET Items : AddClaimItemsLocked(r.claim, S)
    \/ r.op = "remove_claim_item" /\ \E i \in Items : RemoveClaimItemLocked(r.claim, i)
    \/ r.op = "release_claim" /\ ReleaseClaimLocked(r.claim)
    \/ r.op = "patch_list_payer" /\ \E p \in Corps \cup {None} : SetPayer(p)

Admit(p) ==
    /\ inFlight[p] = Idle
    /\ \E r \in Request : Passes(r) /\ inFlight' = [inFlight EXCEPT ![p] = r]
    /\ UNCHANGED vars

Execute(p) ==
    /\ inFlight[p] # Idle
    /\ Locked(inFlight[p])
    /\ inFlight' = [inFlight EXCEPT ![p] = Idle]

\* A check under the lock fails, or the client goes away: tx_middleware rolls back.
Rollback(p) ==
    /\ inFlight[p] # Idle
    /\ inFlight' = [inFlight EXCEPT ![p] = Idle]
    /\ UNCHANGED vars

RaceInit == Init /\ inFlight = [p \in Procs |-> Idle]

RaceNext == \/ Next /\ UNCHANGED inFlight
            \/ \E p \in Procs : Admit(p) \/ Execute(p) \/ Rollback(p)

RaceSpec == RaceInit /\ [][RaceNext]_raceVars

=============================================================================
