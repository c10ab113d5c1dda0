--------------------------- MODULE ListFulfillment ---------------------------
(***************************************************************************)
(* One shopping list of JitaCart: its items, the claims haulers place on   *)
(* them, the fulfillments (purchases) they record and the reimbursements   *)
(* their requesters owe.  The state is the rows of the list's tables in    *)
(* migrations/20260427000000_init.sql; every action is one API request,    *)
(* run in one transaction that holds the row lock of the list.  A handler  *)
(* whose extractor (CurrentList, CurrentClaim) tests the list or the claim *)
(* before the lock is taken is split in two: Op is the test followed by    *)
(* OpLocked, what happens under the lock.  RequestRaces takes them apart.  *)
(*                                                                         *)
(* Amounts of ISK are abstracted to what they are sums OF: a subtotal is   *)
(* the set of fulfillments it adds up, a tip is the percentage it was      *)
(* computed with.  Two totals that differ in ISK differ here.              *)
(***************************************************************************)
EXTENDS Integers, FiniteSets

CONSTANTS
    Users,            \* members of the list's group
    Owners,           \* the members whose role is owner
    Corps,            \* corporations linked to the group (possible payers)
    Items,            \* identifiers of list_items rows
    Claims,           \* identifiers of claims rows
    MaxFulfillments,  \* bound: fulfillments recorded in a behaviour
    MaxQty,           \* largest quantity of one fulfillment (10,000,000)
    Requested,        \* quantities an item may be requested in
    Tips,             \* tip percentages a request may set
    ItemsPerList,     \* limits.items_per_list
    Contracts,        \* identifiers a reimbursement's contract_id may hold
    None              \* SQL NULL

ASSUME ListAssumption ==
    /\ Owners \subseteq Users
    /\ Users \cap Corps = {}
    /\ None \notin Users \cup Corps \cup Items \cup Claims \cup Contracts
    /\ MaxFulfillments \in Nat
    /\ MaxQty \in Nat \ {0}
    /\ Requested \subseteq Nat \ {0}
    /\ ItemsPerList \in Nat

VARIABLES
    list,          \* the lists row: status, creator, tip and payer
    items,         \* list_items
    claims,        \* claims
    claimItems,    \* claim_items, as <<claim, item>> pairs
    activeItems,   \* the claim_items rows whose column active is true
    fulfillments,  \* fulfillments, in the order of bought_at
    reimb,         \* reimbursements, by <<requester principal, hauler>>
    outbox         \* webhook events enqueued in pending_webhooks so far

vars == <<list, items, claims, claimItems, activeItems, fulfillments, reimb,
          outbox>>

Fulfillments == 1 .. MaxFulfillments
Principals == Users \cup Corps
Keys == Principals \X Users

ItemStatus == {"open", "claimed", "bought", "delivered", "settled"}
Fulfilled == {"bought", "delivered", "settled"}

ListRow == [status : {"absent", "open", "closed", "archived", "deleted"},
            creator : Users \cup {None}, tip : Tips \cup {None},
            payer : Corps \cup {None}]
ItemRow == [status : ItemStatus \cup {"absent"}, requester : Users \cup {None},
            qty : Nat, filled : SUBSET Fulfillments]
ClaimRow == [status : {"absent", "active", "released", "completed"},
             hauler : Users \cup {None}]
FulfillmentRow == [state : {"absent", "live", "reversed", "deleted"},
                   item : Items \cup {None}, hauler : Users \cup {None},
                   qty : 0 .. MaxQty]
ReimbRow == [status : {"absent", "pending", "settled"},
             subtotal : SUBSET Fulfillments, tip : Tips \cup {None},
             contract : Contracts \cup {None}]

NoItem == [status |-> "absent", requester |-> None, qty |-> 0, filled |-> {}]
NoClaim == [status |-> "absent", hauler |-> None]
NoFulfillment == [state |-> "absent", item |-> None, hauler |-> None, qty |-> 0]
\* A row removed by ON DELETE CASCADE.  Identifiers are never used again.
DeletedFulfillment == [NoFulfillment EXCEPT !.state = "deleted"]
NoReimb == [status |-> "absent", subtotal |-> {}, tip |-> None,
            contract |-> None]

Event(kind, ref) == [kind |-> kind, ref |-> ref]
Events == [kind : {"created", "claimed", "delivered", "settled"},
           ref : {None} \cup Claims \cup Keys]

-----------------------------------------------------------------------------
(* Queries.  They take the tables they read as arguments, because a handler *)
(* reads rows it has just written.                                          *)

\* Unreversed fulfillments of an item.
LiveOn(ff, i) == {f \in Fulfillments : ff[f].state = "live" /\ ff[f].item = i}

\* SUM(qty): the number of units in a set of fulfillments, counted one by one.
Units(ff, S) == Cardinality({p \in S \X (1 .. MaxQty) : p[2] <= ff[p[1]].qty})

\* An active claim_items row holds item i.
Held(act, i) == \E c \in Claims : <<c, i>> \in act

\* Existing items of the list.
Existing == {i \in Items : items[i].status # "absent"}

\* The principal a purchase for requester u is billed to: the paying
\* corporation, or else the requester.
RequesterPrincipal(u) == IF list.payer = None THEN u ELSE list.payer

\* WHERE clause of the subtotal: the hauler's unreversed fulfillments on the
\* list, for a personal reimbursement only those of the requester's items.
LiveFor(ff, k) ==
    {f \in Fulfillments :
        /\ ff[f].state = "live"
        /\ ff[f].hauler = k[2]
        /\ k[1] \in Corps \/ items[ff[f].item].requester = k[1]}

\* CurrentList::require_open, CurrentList::require_mutable.
IsOpen == list.status = "open"
IsMutable == list.status \in {"open", "closed"}
Exists == list.status \in {"open", "closed", "archived"}
CanManage(u) == u = list.creator \/ u \in Owners

-----------------------------------------------------------------------------
(* Item status.                                                            *)

\* Mutant of BaseStatus: one missing unit is not noticed.
MutantBaseStatus(it, units, claimed) ==
    IF units + 1 >= it.qty THEN "bought"
    ELSE IF claimed THEN "claimed" ELSE "open"

BaseStatus(it, units, claimed) ==
    IF units >= it.qty THEN "bought"
    ELSE IF claimed THEN "claimed" ELSE "open"

\* recompute_item_status: the row of item i after its fulfillments or its
\* claims changed.  demotion is DeliveredDemotion.
Recompute(it, i, ff, act, demotion) ==
    LET live == LiveOn(ff, i)
        base == BaseStatus(it, Units(ff, live), Held(act, i))
    IN  IF it.status = "settled" \/ (it.status = "delivered" /\ demotion = "Forbid")
        THEN it
        ELSE [it EXCEPT
                !.filled = live,
                !.status = IF it.status = "delivered" /\ base = "bought"
                           THEN "delivered" ELSE base]

\* recompute_item_statuses_bulk: the same for a set of items; it never demotes
\* a delivered or settled item but always rewrites qty_fulfilled.
RecomputeBulk(S, ff, act) ==
    [i \in Items |->
        IF i \notin S THEN items[i]
        ELSE LET live == LiveOn(ff, i) IN
             [items[i] EXCEPT
                !.filled = live,
                !.status = IF @ \in {"delivered", "settled"} THEN @
                           ELSE BaseStatus(items[i], Units(ff, live), Held(act, i))]]

\* Mutant of SyncActive: no trigger.
MutantSyncActive(c) == activeItems

\* The trigger on claims: when a claim leaves active, its rows do too.
SyncActive(c) == IF claims[c].status = "active"
                 THEN activeItems \ ({c} \X Items) ELSE activeItems

-----------------------------------------------------------------------------
(* The life of the list.                                                   *)

\* create: a new list with its first items, requested by the caller.
Create(u, S, q, t) ==
    /\ list.status = "absent"
    /\ S # {}
    /\ Cardinality(S) <= ItemsPerList
    /\ list' = [status |-> "open", creator |-> u, tip |-> t, payer |-> None]
    /\ items' = [i \in Items |->
                    IF i \in S THEN [status |-> "open", requester |-> u,
                                     qty |-> q, filled |-> {}]
                    ELSE items[i]]
    /\ outbox' = outbox \cup {Event("created", None)}
    /\ UNCHANGED <<claims, claimItems, activeItems, fulfillments, reimb>>

\* patch_list with a status: any of the three, from any of the three.
PatchList(u, s) ==
    /\ Exists
    /\ CanManage(u)
    /\ list' = [list EXCEPT !.status = s]
    /\ UNCHANGED <<items, claims, claimItems, activeItems, fulfillments, reimb,
                   outbox>>

\* patch_list_payer: owners only, and only while nothing has been billed.
NothingBilled == \A k \in Keys : reimb[k].status = "absent"

SetPayer(p) ==
    /\ Exists
    /\ list' = [list EXCEPT !.payer = p]
    /\ UNCHANGED <<items, claims, claimItems, activeItems, fulfillments, reimb,
                   outbox>>

PatchListPayer(u, p) == u \in Owners /\ NothingBilled /\ SetPayer(p)

\* delete_list: the row and, by cascade, everything that hangs off it.
DeleteList(u) ==
    /\ Exists
    /\ CanManage(u)
    /\ list' = [list EXCEPT !.status = "deleted"]
    /\ items' = [i \in Items |-> NoItem]
    /\ claims' = [c \in Claims |-> NoClaim]
    /\ claimItems' = {}
    /\ activeItems' = {}
    /\ fulfillments' = [f \in Fulfillments |-> DeletedFulfillment]
    /\ reimb' = [k \in Keys |-> NoReimb]
    /\ UNCHANGED outbox

\* add_items: a batch of new open items, requested by the caller.
AddItemsLocked(u, S, q) ==
    /\ Exists
    /\ S # {}
    /\ S \cap Existing = {}
    /\ Cardinality(Existing) + Cardinality(S) <= ItemsPerList
    /\ items' = [i \in Items |->
                    IF i \in S THEN [status |-> "open", requester |-> u,
                                     qty |-> q, filled |-> {}]
                    ELSE items[i]]
    /\ UNCHANGED <<list, claims, claimItems, activeItems, fulfillments, reimb,
                   outbox>>

AddItems(u, S, q) == IsOpen /\ AddItemsLocked(u, S, q)

\* patch_item: change the quantity of an open item.
PatchItemLocked(i, q) ==
    /\ Exists
    /\ items[i].status = "open"
    /\ items' = [items EXCEPT ![i].qty = q]
    /\ UNCHANGED <<list, claims, claimItems, activeItems, fulfillments, reimb,
                   outbox>>

PatchItem(i, q) == IsMutable /\ PatchItemLocked(i, q)

\* delete_item: an open item, with its fulfillments and claim rows.
DeleteItemLocked(i) ==
    /\ Exists
    /\ items[i].status = "open"
    /\ items' = [items EXCEPT ![i] = NoItem]
    /\ fulfillments' = [f \in Fulfillments |->
                            IF fulfillments[f].item = i THEN DeletedFulfillment
                            ELSE fulfillments[f]]
    /\ claimItems' = claimItems \ (Claims \X {i})
    /\ activeItems' = activeItems \ (Claims \X {i})
    /\ UNCHANGED <<list, claims, reimb, outbox>>

DeleteItem(i) == IsMutable /\ DeleteItemLocked(i)

-----------------------------------------------------------------------------
(* Claims.                                                                 *)

\* ensure_claim_writable.
ClaimWritable(u, c) ==
    /\ claims[c].status = "active"
    /\ u = claims[c].hauler \/ u \in Owners

\* validate_claimable_items.
Claimable(S) == S # {} /\ \A i \in S : items[i].status = "open"

\* Mutant of InsertClaimItems: the two columns bound in the wrong order.
MutantInsertClaimItems(c, S) ==
    /\ claimItems' = claimItems \cup (S \X {c})
    /\ activeItems' = activeItems \cup (S \X {c})
    /\ items' = RecomputeBulk(S, fulfillments, activeItems')

\* insert_claim_items: new active rows, then a recompute of their items.  The
\* primary key (claim_id, list_item_id) and the index claim_items_one_active make
\* the INSERT fail, and the request roll back, when a row is already there.
InsertClaimItems(c, S) ==
    /\ claimItems \cap ({c} \X S) = {}
    /\ activeItems \cap (Claims \X S) = {}
    /\ claimItems' = claimItems \cup ({c} \X S)
    /\ activeItems' = activeItems \cup ({c} \X S)
    /\ items' = RecomputeBulk(S, fulfillments, activeItems')

CreateClaimLocked(u, c, S) ==
    /\ Exists
    /\ claims[c].status = "absent"
    /\ Claimable(S)
    /\ claims' = [claims EXCEPT ![c] = [status |-> "active", hauler |-> u]]
    /\ InsertClaimItems(c, S)
    /\ outbox' = outbox \cup {Event("claimed", c)}
    /\ UNCHANGED <<list, fulfillments, reimb>>

CreateClaim(u, c, S) == IsOpen /\ CreateClaimLocked(u, c, S)

AddClaimItemsLocked(c, S) ==
    /\ Exists
    /\ Claimable(S)
    /\ InsertClaimItems(c, S)
    /\ UNCHANGED <<list, claims, fulfillments, reimb, outbox>>

AddClaimItems(u, c, S) ==
    IsMutable /\ ClaimWritable(u, c) /\ AddClaimItemsLocked(c, S)

RemoveClaimItemLocked(c, i) ==
    /\ Exists
    /\ <<c, i>> \in claimItems
    /\ claimItems' = claimItems \ {<<c, i>>}
    /\ activeItems' = activeItems \ {<<c, i>>}
    /\ items' = [items EXCEPT
                    ![i] = Recompute(@, i, fulfillments, activeItems', "Forbid")]
    /\ UNCHANGED <<list, claims, fulfillments, reimb, outbox>>

RemoveClaimItem(u, c, i) ==
    IsMutable /\ ClaimWritable(u, c) /\ RemoveClaimItemLocked(c, i)

ReleaseClaimLocked(c) ==
    /\ Exists
    /\ claims' = [claims EXCEPT ![c].status = "released"]
    /\ activeItems' = SyncActive(c)
    /\ items' = RecomputeBulk({i \in Items : <<c, i>> \in claimItems},
                              fulfillments, activeItems')
    /\ UNCHANGED <<list, claimItems, fulfillments, reimb, outbox>>

ReleaseClaim(u, c) ==
    IsMutable /\ ClaimWritable(u, c) /\ ReleaseClaimLocked(c)

-----------------------------------------------------------------------------
(* Fulfillments, delivery and reimbursement.                               *)

\* Mutant of Upsert: ON CONFLICT DO NOTHING.
MutantUpsert(k, ff) ==
    IF reimb[k].status # "absent" THEN reimb
    ELSE [reimb EXCEPT ![k] = [status |-> "pending", subtotal |-> LiveFor(ff, k),
                               tip |-> list.tip, contract |-> None]]

\* upsert_reimbursement: the row of key k, recomputed unless it is settled.
Upsert(k, ff) ==
    IF reimb[k].status = "settled" THEN reimb
    ELSE [reimb EXCEPT ![k] = [status |-> "pending", subtotal |-> LiveFor(ff, k),
                               tip |-> list.tip, contract |-> @.contract]]

\* set_list_tip: the creator until something has been bought, an owner always.
\* Every pending reimbursement is recomputed with the new tip.
SetListTipLocked(u, t) ==
    /\ Exists
    /\ \/ u \in Owners
       \/ \A f \in Fulfillments : fulfillments[f].state # "live"
    /\ list' = [list EXCEPT !.tip = t]
    /\ reimb' = [k \in Keys |-> IF reimb[k].status = "pending"
                                THEN [reimb[k] EXCEPT !.tip = t]
                                ELSE reimb[k]]
    /\ UNCHANGED <<items, claims, claimItems, activeItems, fulfillments, outbox>>

SetListTip(u, t) == IsMutable /\ CanManage(u) /\ SetListTipLocked(u, t)

\* Mutant of Unsettled: the check is missing.
MutantUnsettled(k) == TRUE

\* "reimbursement for this hauler is already settled": nothing more can be
\* bought or reversed under key k.
Unsettled(k) == reimb[k].status # "settled"

\* Fulfillment f is the next row to be inserted.
NextFulfillment(f) ==
    \A g \in Fulfillments : (g < f) <=> (fulfillments[g].state # "absent")

\* The claim of which item i is an active row is completed once all its items
\* are fulfilled.
CompletesClaim(c, i, its) ==
    /\ <<c, i>> \in activeItems
    /\ its[i].status \in {"bought", "settled"}
    /\ \A j \in Items : <<c, j>> \in claimItems => its[j].status \in Fulfilled

RecordFulfillmentLocked(u, i, q, f) ==
    LET k == <<RequesterPrincipal(items[i].requester), u>> IN
    /\ Exists
    /\ i \in Existing
    /\ NextFulfillment(f)
    /\ q + Units(fulfillments, items[i].filled) <= items[i].qty
    /\ Unsettled(k)
    /\ \A c \in Claims : <<c, i>> \in activeItems
                            => u = claims[c].hauler \/ u \in Owners
    /\ fulfillments' = [fulfillments EXCEPT
            ![f] = [state |-> "live", item |-> i, hauler |-> u, qty |-> q]]
    /\ items' = [items EXCEPT
            ![i] = Recompute(@, i, fulfillments', activeItems, "Forbid")]
    /\ claims' = [c \in Claims |->
            IF CompletesClaim(c, i, items') /\ claims[c].status = "active"
            THEN [claims[c] EXCEPT !.status = "completed"] ELSE claims[c]]
    /\ activeItems' = {ci \in activeItems :
            claims'[ci[1]].status = claims[ci[1]].status}
    /\ reimb' = Upsert(k, fulfillments')
    /\ UNCHANGED <<list, claimItems, outbox>>

RecordFulfillment(u, i, q, f) == IsMutable /\ RecordFulfillmentLocked(u, i, q, f)

ReverseFulfillment(u, f) ==
    LET i == fulfillments[f].item
        k == <<RequesterPrincipal(items[i].requester), fulfillments[f].hauler>>
    IN
    /\ IsMutable
    /\ fulfillments[f].state = "live"
    /\ u = fulfillments[f].hauler \/ u \in Owners
    /\ Unsettled(k)
    /\ fulfillments' = [fulfillments EXCEPT ![f].state = "reversed"]
    /\ items' = [items EXCEPT
            ![i] = Recompute(@, i, fulfillments', activeItems, "Allow")]
    /\ reimb' = Upsert(k, fulfillments')
    /\ UNCHANGED <<list, claims, claimItems, activeItems, outbox>>

\* The caller recorded the last unreversed fulfillment of the item.
IsLastHauler(u, i) ==
    \E f \in LiveOn(fulfillments, i) :
        /\ fulfillments[f].hauler = u
        /\ \A g \in LiveOn(fulfillments, i) : g <= f

MarkDeliveredLocked(u, i) ==
    /\ Exists
    /\ items[i].status = "bought"
    /\ IsLastHauler(u, i) \/ u \in Owners
    /\ items' = [items EXCEPT ![i].status = "delivered"]
    /\ outbox' = IF \A j \in Existing : items'[j].status \in {"delivered", "settled"}
                 THEN outbox \cup {Event("delivered", None)} ELSE outbox
    /\ UNCHANGED <<list, claims, claimItems, activeItems, fulfillments, reimb>>

MarkDelivered(u, i) == IsMutable /\ MarkDeliveredLocked(u, i)

\* Items of the list that reimbursement k pays for.
Covered(k) ==
    {i \in Existing :
        /\ k[1] \in Corps \/ items[i].requester = k[1]
        /\ \E f \in LiveOn(fulfillments, i) : fulfillments[f].hauler = k[2]}

\* Mutant of OtherPending: nobody else is looked for.
MutantOtherPending(k, i) == FALSE

\* Another hauler, whose reimbursement is still pending, also bought units of i.
OtherPending(k, i) ==
    \E k2 \in Keys :
        /\ reimb[k2].status = "pending"
        /\ k2[2] # k[2]
        /\ k[1] \in Corps \/ k2[1] = k[1]
        /\ \E f \in LiveOn(fulfillments, i) : fulfillments[f].hauler = k2[2]

\* auto_close_list_if_complete, on the items as they are in its.
AutoClose(its) ==
    IF list.status = "open" /\ \A i \in Items : its[i].status \in {"absent", "settled"}
    THEN [list EXCEPT !.status = "closed"] ELSE list

\* settle_reimbursement and settle_manual: the requester (or an owner) confirms
\* payment of one reimbursement, all of whose items have been delivered.
SettleReimbursement(u, k) ==
    /\ Exists
    /\ reimb[k].status = "pending"
    /\ reimb[k].contract = None
    /\ u = k[1] \/ u \in Owners
    /\ \A i \in Covered(k) : items[i].status \in {"delivered", "settled"}
    /\ reimb' = [reimb EXCEPT ![k].status = "settled"]
    /\ items' = [i \in Items |->
            IF i \in Covered(k) /\ items[i].status = "delivered" /\ ~OtherPending(k, i)
            THEN [items[i] EXCEPT !.status = "settled"] ELSE items[i]]
    /\ list' = AutoClose(items')
    /\ outbox' = outbox \cup {Event("settled", k)}
    /\ UNCHANGED <<claims, claimItems, activeItems, fulfillments>>

-----------------------------------------------------------------------------
Init ==
    /\ list = [status |-> "absent", creator |-> None, tip |-> None, payer |-> None]
    /\ items = [i \in Items |-> NoItem]
    /\ claims = [c \in Claims |-> NoClaim]
    /\ claimItems = {}
    /\ activeItems = {}
    /\ fulfillments = [f \in Fulfillments |-> NoFulfillment]
    /\ reimb = [k \in Keys |-> NoReimb]
    /\ outbox = {}

ListRequest(u) ==
    \/ \E S \in SUBSET Items, q \in Requested, t \in Tips : Create(u, S, q, t)
    \/ \E s \in {"open", "closed", "archived"} : PatchList(u, s)
    \/ \E p \in Corps \cup {None} : PatchListPayer(u, p)
    \/ DeleteList(u)
    \/ \E t \in Tips : SetListTip(u, t)

ItemRequest(u) ==
    \/ \E S \in SUBSET Items, q \in Requested : AddItems(u, S, q)
    \/ \E i \in Items, q \in Requested : PatchItem(i, q)
    \/ \E i \in Items : DeleteItem(i)
    \/ \E i \in Items : MarkDelivered(u, i)

ClaimRequest(u) ==
    \/ \E c \in Claims, S \in SUBSET Items : CreateClaim(u, c, S)
    \/ \E c \in Claims, S \in SUBSET Items : AddClaimItems(u, c, S)
    \/ \E c \in Claims, i \in Items : RemoveClaimItem(u, c, i)
    \/ \E c \in Claims : ReleaseClaim(u, c)

MoneyRequest(u) ==
    \/ \E i \in Items, q \in 1 .. MaxQty, f \in Fulfillments : RecordFulfillment(u, i, q, f)
    \/ \E f \in Fulfillments : ReverseFulfillment(u, f)
    \/ \E k \in Keys : SettleReimbursement(u, k)

Next == \E u \in Users :
            ListRequest(u) \/ ItemRequest(u) \/ ClaimRequest(u) \/ MoneyRequest(u)

Spec == Init /\ [][Next]_vars

-----------------------------------------------------------------------------
(* Properties.                                                             *)

\* The key under which a live fulfillment is billed.
KeyOf(f) == <<RequesterPrincipal(items[fulfillments[f].item].requester),
              fulfillments[f].hauler>>

\* Keys whose requester principal is one the list bills.
BillableKeys == {k \in Keys : IF list.payer = None THEN k[1] \in Users
                              ELSE k[1] = list.payer}

\* Every table holds rows of its type.
TypeOK ==
    /\ list \in ListRow
    /\ items \in [Items -> ItemRow]
    /\ claims \in [Claims -> ClaimRow]
    /\ claimItems \subseteq Claims \X Items
    /\ activeItems \subseteq Claims \X Items
    /\ fulfillments \in [Fulfillments -> FulfillmentRow]
    /\ reimb \in [Keys -> ReimbRow]
    /\ outbox \subseteq Events

\* The three views of who holds an item agree: a claim_items row is active
\* exactly while its claim is (the trigger sync_claim_items_active), no item has
\* two active rows (the index claim_items_one_active, so is_claim_conflict never
\* fires behind validate_claimable_items), an open item has none and a claimed
\* item has one.
ActiveRows == activeItems = {ci \in claimItems : claims[ci[1]].status = "active"}

OneHolder == \A c, d \in Claims, i \in Items :
                <<c, i>> \in activeItems /\ <<d, i>> \in activeItems => c = d

StatusShowsHolder ==
    \A i \in Items :
        /\ items[i].status \in {"absent", "open"} => ~Held(activeItems, i)
        /\ items[i].status = "claimed" => Held(activeItems, i)

ClaimsAgree == ActiveRows /\ OneHolder /\ StatusShowsHolder

\* The cached qty_fulfilled of an item is the sum over its unreversed
\* fulfillments, and an item is only ever bought, delivered or settled with every
\* requested unit accounted for: nobody pays for a delivery that is short.
NothingShort ==
    \A i \in Items :
        /\ items[i].filled = LiveOn(fulfillments, i)
        /\ items[i].status \in Fulfilled
                => Units(fulfillments, items[i].filled) >= items[i].qty

\* Every unreversed purchase is billed, once, to the principal that owes it: the
\* rows still counted in a reimbursement's subtotal are exactly the hauler's
\* unreversed fulfillments for that requester, on pending and settled rows
\* alike, a pending row carries the list's current tip, and no row exists for a
\* principal the list does not bill.
BillingExact ==
    /\ \A k \in BillableKeys :
        /\ {f \in reimb[k].subtotal : fulfillments[f].state # "deleted"}
                = LiveFor(fulfillments, k)
        /\ reimb[k].status = "absent" => LiveFor(fulfillments, k) = {}
        /\ reimb[k].status = "pending" => reimb[k].tip = list.tip
    /\ \A k \in Keys \ BillableKeys : reimb[k].status = "absent"

\* An item is settled only when every reimbursement that pays for some of its
\* units is: no hauler is left owed for an item that shows as settled.
SettledItemsPaid ==
    \A i \in Items : items[i].status = "settled" =>
        \A f \in LiveOn(fulfillments, i) : reimb[KeyOf(f)].status = "settled"

\* What has been settled never changes again while the list exists: not a settled
\* item or reimbursement, and not a purchase that a settled reimbursement paid,
\* unless its item is deleted.
SettlementIsFinal ==
    [][list'.status # "deleted" =>
        /\ \A i \in Items : items[i].status = "settled" => items'[i] = items[i]
        /\ \A k \in Keys : reimb[k].status = "settled" =>
            /\ reimb'[k] = reimb[k]
            /\ \A f \in LiveFor(fulfillments, k) :
                \/ fulfillments'[f] = fulfillments[f]
                \/ fulfillments'[f].state = "deleted"]_vars

\* An archived list accepts no change ("list is archived; no changes can be
\* made") except the settlement of what was bought before: items only move to
\* settled, and no claim, purchase or price changes.
ArchivedIsFrozen ==
    [][list.status = "archived" /\ list'.status # "deleted" =>
        /\ UNCHANGED <<claims, claimItems, activeItems, fulfillments>>
        /\ list'.tip = list.tip
        /\ \A i \in Items : items'[i] \in {items[i], [items[i] EXCEPT !.status = "settled"]}
        /\ \A k \in Keys : reimb'[k] \in {reimb[k], [reimb[k] EXCEPT !.status = "settled"]}
      ]_vars

\* What the comment of delete_item promises: deleting an item never leaves a
\* reimbursement that is still settleable with a stale total, one that counts a
\* fulfillment the cascade removed.  delete_item does not keep it (a partly bought,
\* unclaimed item is open), so no run checks it; the README describes the behaviour.
NoStaleTotals ==
    \A k \in Keys : reimb[k].status = "pending" =>
        \A f \in reimb[k].subtotal : fulfillments[f].state # "deleted"

=============================================================================
