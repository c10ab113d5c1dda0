----------------------- MODULE ListFulfillmentProofs -----------------------
(***************************************************************************)
(* Proofs about ListFulfillment, for every set of users, items and claims  *)
(* and every bound.                                                        *)
(***************************************************************************)
EXTENDS ListFulfillment, FiniteSetTheorems, TLAPS

-----------------------------------------------------------------------------
(* Types of the helpers.                                                   *)

\* recompute_item_status returns a row of list_items.
LEMMA RecomputeType ==
    ASSUME NEW it \in ItemRow, NEW i, NEW ff, NEW act, NEW demotion
    PROVE  Recompute(it, i, ff, act, demotion) \in ItemRow
BY DEF Recompute, ItemRow, BaseStatus, LiveOn, ItemStatus

\* recompute_item_statuses_bulk returns a list_items table.
LEMMA RecomputeBulkType ==
    ASSUME TypeOK, NEW S, NEW ff, NEW act
    PROVE  RecomputeBulk(S, ff, act) \in [Items -> ItemRow]
<1>1. ASSUME NEW i \in Items
      PROVE  RecomputeBulk(S, ff, act)[i] \in ItemRow
    <2>1. /\ items[i] \in ItemRow
          /\ LiveOn(ff, i) \in SUBSET Fulfillments
        BY DEF TypeOK, ItemRow, LiveOn
    <2>2. \A n : \A b \in BOOLEAN : BaseStatus(items[i], n, b) \in ItemStatus
        BY DEF BaseStatus, ItemStatus
    <2>3. Held(act, i) \in BOOLEAN
        BY DEF Held
    <2> QED
        BY <2>1, <2>2, <2>3 DEF RecomputeBulk, ItemRow
<1> QED
    BY <1>1 DEF RecomputeBulk

\* upsert_reimbursement returns a reimbursements table.
LEMMA UpsertType ==
    ASSUME TypeOK, NEW k \in Keys, NEW ff
    PROVE  Upsert(k, ff) \in [Keys -> ReimbRow]
BY DEF TypeOK, Upsert, LiveFor, ListRow, ReimbRow

\* The empty rows are rows.
LEMMA EmptyRows ==
    /\ NoItem \in ItemRow
    /\ NoClaim \in ClaimRow
    /\ NoFulfillment \in FulfillmentRow
    /\ DeletedFulfillment \in FulfillmentRow
    /\ NoReimb \in ReimbRow
BY ListAssumption
   DEF NoItem, NoClaim, NoFulfillment, DeletedFulfillment, NoReimb,
       ItemRow, ClaimRow, FulfillmentRow, ReimbRow

\* The empty tables are well typed.
LEMMA TypeInit == Init => TypeOK
BY EmptyRows DEF Init, TypeOK, ListRow

\* Every request leaves the tables well typed.
LEMMA TypeStep == TypeOK /\ [Next]_vars => TypeOK'
<1> SUFFICES ASSUME TypeOK, [Next]_vars PROVE TypeOK'
    OBVIOUS
<1>1. ASSUME NEW u \in Users, NEW S \in SUBSET Items, NEW q \in Requested,
             NEW t \in Tips, Create(u, S, q, t)
      PROVE  TypeOK'
    <2>1. [status |-> "open", requester |-> u, qty |-> q, filled |-> {}] \in ItemRow
        BY ListAssumption DEF ItemRow, ItemStatus
    <2>2. list' \in ListRow
        BY <1>1 DEF Create, ListRow
    <2>3. Event("created", None) \in Events
        BY DEF Event, Events
    <2> QED
        BY <1>1, <2>1, <2>2, <2>3 DEF TypeOK, Create
<1>2. ASSUME NEW u \in Users, NEW s \in {"open", "closed", "archived"}, PatchList(u, s)
      PROVE  TypeOK'
    <2>1. list' \in ListRow
        BY <1>2 DEF TypeOK, PatchList, ListRow
    <2> QED
        BY <1>2, <2>1 DEF TypeOK, PatchList
<1>3. ASSUME NEW u \in Users, NEW p \in Corps \cup {None}, PatchListPayer(u, p)
      PROVE  TypeOK'
    <2>1. list' \in ListRow
        BY <1>3 DEF TypeOK, PatchListPayer, SetPayer, ListRow
    <2> QED
        BY <1>3, <2>1 DEF TypeOK, PatchListPayer, SetPayer
<1>4. ASSUME NEW u \in Users, DeleteList(u)
      PROVE  TypeOK'
    <2>1. list' \in ListRow
        BY <1>4 DEF TypeOK, DeleteList, ListRow
    <2> QED
        BY <1>4, <2>1, EmptyRows DEF TypeOK, DeleteList
<1>5. ASSUME NEW u \in Users, NEW t \in Tips, SetListTip(u, t)
      PROVE  TypeOK'
    <2>1. list' \in ListRow
        BY <1>5 DEF TypeOK, SetListTip, SetListTipLocked, ListRow
    <2>2. \A k \in Keys : [reimb[k] EXCEPT !.tip = t] \in ReimbRow
        BY DEF TypeOK, ReimbRow
    <2> QED
        BY <1>5, <2>1, <2>2 DEF TypeOK, SetListTip, SetListTipLocked
<1>6. ASSUME NEW u \in Users, NEW S \in SUBSET Items, NEW q \in Requested,
             AddItems(u, S, q)
      PROVE  TypeOK'
    <2>1. [status |-> "open", requester |-> u, qty |-> q, filled |-> {}] \in ItemRow
        BY ListAssumption DEF ItemRow, ItemStatus
    <2> QED
        BY <1>6, <2>1 DEF TypeOK, AddItems, AddItemsLocked
<1>7. ASSUME NEW i \in Items, NEW q \in Requested, PatchItem(i, q)
      PROVE  TypeOK'
    <2>1. [items[i] EXCEPT !.qty = q] \in ItemRow
        BY ListAssumption DEF TypeOK, ItemRow
    <2> QED
        BY <1>7, <2>1 DEF TypeOK, PatchItem, PatchItemLocked
<1>8. ASSUME NEW i \in Items, DeleteItem(i)
      PROVE  TypeOK'
    BY <1>8, EmptyRows DEF TypeOK, DeleteItem, DeleteItemLocked
<1>9. ASSUME NEW u \in Users, NEW i \in Items, MarkDelivered(u, i)
      PROVE  TypeOK'
    <2>1. [items[i] EXCEPT !.status = "delivered"] \in ItemRow
        BY DEF TypeOK, ItemRow, ItemStatus
    <2>2. Event("delivered", None) \in Events
        BY DEF Event, Events
    <2> QED
        BY <1>9, <2>1, <2>2 DEF TypeOK, MarkDelivered, MarkDeliveredLocked
<1>10. ASSUME NEW u \in Users, NEW c \in Claims, NEW S \in SUBSET Items,
              CreateClaim(u, c, S)
       PROVE  TypeOK'
    <2>1. [status |-> "active", hauler |-> u] \in ClaimRow
        BY DEF ClaimRow
    <2>2. Event("claimed", c) \in Events
        BY DEF Event, Events
    <2> QED
        BY <1>10, <2>1, <2>2, RecomputeBulkType
           DEF TypeOK, CreateClaim, CreateClaimLocked, InsertClaimItems
<1>11. ASSUME NEW u \in Users, NEW c \in Claims, NEW S \in SUBSET Items,
              AddClaimItems(u, c, S)
       PROVE  TypeOK'
    BY <1>11, RecomputeBulkType
       DEF TypeOK, AddClaimItems, AddClaimItemsLocked, InsertClaimItems
<1>12. ASSUME NEW u \in Users, NEW c \in Claims, NEW i \in Items,
              RemoveClaimItem(u, c, i)
       PROVE  TypeOK'
    BY <1>12, RecomputeType DEF TypeOK, RemoveClaimItem, RemoveClaimItemLocked
<1>13. ASSUME NEW u \in Users, NEW c \in Claims, ReleaseClaim(u, c)
       PROVE  TypeOK'
    <2>1. [claims[c] EXCEPT !.status = "released"] \in ClaimRow
        BY DEF TypeOK, ClaimRow
    <2> QED
        BY <1>13, <2>1, RecomputeBulkType
           DEF TypeOK, ReleaseClaim, ReleaseClaimLocked, SyncActive
<1>14. ASSUME NEW u \in Users, NEW i \in Items, NEW q \in 1 .. MaxQty,
              NEW f \in Fulfillments, RecordFulfillment(u, i, q, f)
       PROVE  TypeOK'
    <2> DEFINE k == <<RequesterPrincipal(items[i].requester), u>>
    <2>1. [state |-> "live", item |-> i, hauler |-> u, qty |-> q] \in FulfillmentRow
        BY ListAssumption DEF FulfillmentRow
    <2>2. \A c \in Claims : [claims[c] EXCEPT !.status = "completed"] \in ClaimRow
        BY DEF TypeOK, ClaimRow
    <2>3. CASE k \in Keys
        BY <1>14, <2>1, <2>2, <2>3, RecomputeType, UpsertType
           DEF TypeOK, RecordFulfillment, RecordFulfillmentLocked
    <2>4. CASE k \notin Keys
        <3>1. Upsert(k, fulfillments') \in [Keys -> ReimbRow]
            BY <2>4 DEF TypeOK, Upsert
        <3> QED
            BY <1>14, <2>1, <2>2, <3>1, RecomputeType
               DEF TypeOK, RecordFulfillment, RecordFulfillmentLocked
    <2> QED
        BY <2>3, <2>4
<1>15. ASSUME NEW u \in Users, NEW f \in Fulfillments, ReverseFulfillment(u, f)
       PROVE  TypeOK'
    <2> DEFINE i == fulfillments[f].item
               k == <<RequesterPrincipal(items[i].requester), fulfillments[f].hauler>>
    <2>1. [fulfillments[f] EXCEPT !.state = "reversed"] \in FulfillmentRow
        BY DEF TypeOK, FulfillmentRow
    <2>2. Upsert(k, fulfillments') \in [Keys -> ReimbRow]
        <3>1. CASE k \in Keys
            BY <3>1, UpsertType
        <3>2. CASE k \notin Keys
            BY <3>2 DEF TypeOK, Upsert
        <3> QED
            BY <3>1, <3>2
    <2> QED
        BY <1>15, <2>1, <2>2, RecomputeType DEF TypeOK, ReverseFulfillment
<1>16. ASSUME NEW u \in Users, NEW k \in Keys, SettleReimbursement(u, k)
       PROVE  TypeOK'
    <2>1. [reimb[k] EXCEPT !.status = "settled"] \in ReimbRow
        BY DEF TypeOK, ReimbRow
    <2>2. \A i \in Items : [items[i] EXCEPT !.status = "settled"] \in ItemRow
        BY DEF TypeOK, ItemRow, ItemStatus
    <2>3. AutoClose(items') \in ListRow
        BY DEF TypeOK, AutoClose, ListRow
    <2>4. Event("settled", k) \in Events
        BY DEF Event, Events
    <2> QED
        BY <1>16, <2>1, <2>2, <2>3, <2>4 DEF TypeOK, SettleReimbursement
<1>17. CASE UNCHANGED vars
    BY <1>17 DEF TypeOK, vars
<1> QED
    BY <1>1, <1>2, <1>3, <1>4, <1>5, <1>6, <1>7, <1>8, <1>9, <1>10, <1>11, <1>12,
       <1>13, <1>14, <1>15, <1>16, <1>17
       DEF Next, ListRequest, ItemRequest, ClaimRequest, MoneyRequest

\* Every table holds rows of its type in every reachable state.
THEOREM TypeCorrect == Spec => []TypeOK
BY TypeInit, TypeStep, PTL DEF Spec

-----------------------------------------------------------------------------
(* Claims.  ClaimsAgree alone is not inductive: a new claim must find no rows *)
(* under its identifier, and a new list no rows at all.                      *)

\* Foreign keys of claim_items.
RowsHaveParents ==
    /\ \A ci \in claimItems : /\ claims[ci[1]].status # "absent"
                              /\ items[ci[2]].status # "absent"
    /\ list.status = "absent" => claimItems = {}

ClaimsInv == ClaimsAgree /\ RowsHaveParents

\* A status recomputed with the active rows act shows whether i is held.
Shows(status, act, i) ==
    /\ status \in {"absent", "open"} => ~Held(act, i)
    /\ status = "claimed" => Held(act, i)

\* Recomputing never removes an item.
LEMMA RecomputeExists ==
    ASSUME NEW it \in ItemRow, NEW i, NEW ff, NEW act, NEW demotion
    PROVE  Recompute(it, i, ff, act, demotion).status # "absent"
BY DEF Recompute, ItemRow, BaseStatus

\* The same for recompute_item_statuses_bulk.
LEMMA RecomputeBulkExists ==
    ASSUME TypeOK, NEW S, NEW ff, NEW act, NEW i \in Items, items[i].status # "absent"
    PROVE  RecomputeBulk(S, ff, act)[i].status # "absent"
<1>1. items[i] \in ItemRow
    BY DEF TypeOK
<1> QED
    BY <1>1 DEF RecomputeBulk, ItemRow, BaseStatus

\* recompute_item_status leaves an item whose status shows whether it is held.
LEMMA RecomputeShows ==
    ASSUME NEW it \in ItemRow, NEW i, NEW ff, NEW act, NEW demotion
    PROVE  Shows(Recompute(it, i, ff, act, demotion).status, act, i)
BY DEF Recompute, ItemRow, BaseStatus, Shows

\* The same for recompute_item_statuses_bulk.
LEMMA RecomputeBulkShows ==
    ASSUME TypeOK, NEW S, NEW ff, NEW act, NEW i \in Items
    PROVE  IF i \in S THEN Shows(RecomputeBulk(S, ff, act)[i].status, act, i)
           ELSE RecomputeBulk(S, ff, act)[i] = items[i]
<1>1. items[i] \in ItemRow
    BY DEF TypeOK
<1> QED
    BY <1>1 DEF RecomputeBulk, ItemRow, BaseStatus, Shows

\* New active rows of claim c, on items nobody holds.
LEMMA InsertKeepsClaims ==
    ASSUME TypeOK, ClaimsInv, NEW c \in Claims, NEW S \in SUBSET Items,
           Claimable(S), InsertClaimItems(c, S), claims'[c].status = "active",
           \A d \in Claims \ {c} : claims'[d] = claims[d],
           claims[c].status \in {"active", "absent"}, Exists, list' = list
    PROVE  ClaimsInv'
<1> USE DEF ClaimsInv, ClaimsAgree, RowsHaveParents, Exists
<1>1. ActiveRows'
    BY DEF InsertClaimItems, TypeOK, ActiveRows
<1>2. \A i \in S : ~Held(activeItems, i)
    BY DEF Claimable, StatusShowsHolder
<1>3. OneHolder'
    BY <1>2 DEF InsertClaimItems, TypeOK, Held, OneHolder
<1>4. StatusShowsHolder'
    <2> SUFFICES ASSUME NEW i \in Items
                 PROVE  Shows(items'[i].status, activeItems', i)
        BY DEF StatusShowsHolder, Shows
    <2>1. CASE i \in S
        BY <2>1, RecomputeBulkShows DEF InsertClaimItems
    <2>2. CASE i \notin S
        <3>1. items'[i] = items[i]
            BY <2>2, RecomputeBulkShows DEF InsertClaimItems
        <3>2. Held(activeItems', i) <=> Held(activeItems, i)
            BY <2>2 DEF InsertClaimItems, Held
        <3> QED
            BY <3>1, <3>2 DEF StatusShowsHolder, Shows
    <2> QED
        BY <2>1, <2>2
<1>5. RowsHaveParents'
    BY RecomputeBulkExists DEF InsertClaimItems, TypeOK, Claimable
<1> QED
    BY <1>1, <1>3, <1>4, <1>5

\* An empty list satisfies ClaimsInv.
LEMMA ClaimsInit == Init => ClaimsInv
BY DEF Init, ClaimsInv, ClaimsAgree, RowsHaveParents, ActiveRows, OneHolder,
       StatusShowsHolder, NoItem, Held

\* No request breaks the agreement between claims, claim_items and list_items.
LEMMA ClaimsStep == TypeOK /\ ClaimsInv /\ [Next]_vars => ClaimsInv'
<1> SUFFICES ASSUME TypeOK, ClaimsInv, [Next]_vars PROVE ClaimsInv'
    OBVIOUS
<1> USE DEF ClaimsInv, ClaimsAgree, RowsHaveParents
<1>1. ASSUME NEW u \in Users, NEW S \in SUBSET Items, NEW q \in Requested,
             NEW t \in Tips, Create(u, S, q, t)
      PROVE  ClaimsInv'
    BY <1>1 DEF Create, ActiveRows, OneHolder, StatusShowsHolder, Held
<1>2. ASSUME UNCHANGED <<items, claims, claimItems, activeItems>>,
             list.status = list'.status \/ Exists'
      PROVE  ClaimsInv'
    BY <1>2 DEF ActiveRows, OneHolder, StatusShowsHolder, Held, Exists
<1>3. ASSUME NEW u \in Users, DeleteList(u)
      PROVE  ClaimsInv'
    BY <1>3 DEF DeleteList, NoItem, ActiveRows, OneHolder, StatusShowsHolder, Held
<1>4. ASSUME NEW u \in Users, NEW S \in SUBSET Items, NEW q \in Requested,
             AddItems(u, S, q)
      PROVE  ClaimsInv'
    <2> USE <1>4 DEF AddItems, AddItemsLocked
    <2>1. ActiveRows' /\ OneHolder' /\ StatusShowsHolder'
        BY DEF Existing, ActiveRows, OneHolder, StatusShowsHolder, Held
    <2>2. RowsHaveParents'
        BY DEF TypeOK
    <2> QED
        BY <2>1, <2>2
<1>5. ASSUME NEW i \in Items, NEW q \in Requested, PatchItem(i, q)
      PROVE  ClaimsInv'
    BY <1>5 DEF PatchItem, PatchItemLocked, TypeOK, ItemRow, ActiveRows, OneHolder,
                StatusShowsHolder, Held
<1>6. ASSUME NEW i \in Items, DeleteItem(i)
      PROVE  ClaimsInv'
    <2> USE <1>6 DEF DeleteItem, DeleteItemLocked
    <2>1. ActiveRows' /\ OneHolder' /\ StatusShowsHolder'
        BY DEF TypeOK, NoItem, ActiveRows, OneHolder, StatusShowsHolder, Held
    <2>2. RowsHaveParents'
        BY DEF TypeOK
    <2> QED
        BY <2>1, <2>2
<1>7. ASSUME NEW u \in Users, NEW i \in Items, MarkDelivered(u, i)
      PROVE  ClaimsInv'
    BY <1>7 DEF MarkDelivered, MarkDeliveredLocked, TypeOK, ItemRow, ActiveRows,
                OneHolder, StatusShowsHolder, Held
<1>8. ASSUME NEW u \in Users, NEW c \in Claims, NEW S \in SUBSET Items,
             CreateClaim(u, c, S)
      PROVE  ClaimsInv'
    BY <1>8, InsertKeepsClaims DEF CreateClaim, CreateClaimLocked, TypeOK
<1>9. ASSUME NEW u \in Users, NEW c \in Claims, NEW S \in SUBSET Items,
             AddClaimItems(u, c, S)
      PROVE  ClaimsInv'
    BY <1>9, InsertKeepsClaims DEF AddClaimItems, AddClaimItemsLocked, ClaimWritable
<1>10. ASSUME NEW u \in Users, NEW c \in Claims, NEW i \in Items,
              RemoveClaimItem(u, c, i)
       PROVE  ClaimsInv'
    <2> USE <1>10 DEF RemoveClaimItem, RemoveClaimItemLocked
    <2>1. ActiveRows' /\ OneHolder' /\ RowsHaveParents'
        <3>1. ActiveRows' /\ OneHolder'
            BY DEF ActiveRows, OneHolder
        <3>2. \A j \in Items : items[j].status # "absent" => items'[j].status # "absent"
            BY RecomputeExists DEF TypeOK
        <3>3. claimItems' \subseteq claimItems /\ list' = list /\ claims' = claims
              /\ claimItems \subseteq Claims \X Items
            BY DEF TypeOK
        <3> QED
            BY <3>1, <3>2, <3>3
    <2>2. Shows(items'[i].status, activeItems', i)
        BY RecomputeShows DEF TypeOK
    <2>3. \A j \in Items \ {i} : /\ items'[j] = items[j]
                                 /\ Held(activeItems', j) <=> Held(activeItems, j)
        BY DEF TypeOK, Held
    <2> QED
        BY <2>1, <2>2, <2>3 DEF StatusShowsHolder, Shows
<1>11. ASSUME NEW u \in Users, NEW c \in Claims, ReleaseClaim(u, c)
       PROVE  ClaimsInv'
    <2> USE <1>11 DEF ReleaseClaim, ReleaseClaimLocked, ClaimWritable, SyncActive
    <2>1. ActiveRows' /\ OneHolder'
        BY DEF ActiveRows, OneHolder, TypeOK, ClaimRow
    <2>2. RowsHaveParents'
        <3>1. \A d \in Claims : claims[d].status # "absent" => claims'[d].status # "absent"
            BY DEF TypeOK, ClaimRow
        <3>2. \A i \in Items : items[i].status # "absent" => items'[i].status # "absent"
            BY RecomputeBulkExists
        <3>3. claimItems' = claimItems /\ list' = list /\ claimItems \subseteq Claims \X Items
            BY DEF TypeOK
        <3> QED
            BY <3>1, <3>2, <3>3
    <2> SUFFICES ASSUME NEW i \in Items
                 PROVE  Shows(items'[i].status, activeItems', i)
        BY <2>1, <2>2 DEF StatusShowsHolder, Shows
    <2>3. CASE <<c, i>> \in claimItems
        BY <2>3, RecomputeBulkShows
    <2>4. CASE <<c, i>> \notin claimItems
        <3>1. items'[i] = items[i]
            BY <2>4, RecomputeBulkShows
        <3>2. Held(activeItems', i) <=> Held(activeItems, i)
            BY <2>4 DEF Held, ActiveRows, TypeOK
        <3> QED
            BY <3>1, <3>2 DEF StatusShowsHolder, Shows
    <2> QED
        BY <2>3, <2>4
<1>12. ASSUME NEW u \in Users, NEW i \in Items, NEW q \in 1 .. MaxQty,
              NEW f \in Fulfillments, RecordFulfillment(u, i, q, f)
       PROVE  ClaimsInv'
    <2> USE <1>12 DEF RecordFulfillment, RecordFulfillmentLocked
    <2> DEFINE done(c) == CompletesClaim(c, i, items') /\ claims[c].status = "active"
    <2>1. \A c \in Claims : claims'[c].status = IF done(c) THEN "completed"
                                                ELSE claims[c].status
        BY DEF TypeOK, ClaimRow
    <2>2. \A ci \in activeItems : ci \in activeItems' <=> ~done(ci[1])
        BY <2>1 DEF TypeOK
    <2>3. ActiveRows' /\ RowsHaveParents'
        <3>1. claimItems' = claimItems /\ activeItems' \subseteq activeItems
              /\ list' = list
            OBVIOUS
        <3>2. \A ci \in claimItems : ci[1] \in Claims
            BY DEF TypeOK
        <3>3. \A ci \in claimItems :
                    ci \in activeItems' <=> claims'[ci[1]].status = "active"
            BY <2>1, <2>2, <3>1, <3>2 DEF ActiveRows
        <3>4. ActiveRows'
            BY <3>1, <3>3 DEF ActiveRows
        <3>5. \A ci \in claimItems : claims'[ci[1]].status # "absent"
            BY <2>1, <3>2
        <3>6. \A ci \in claimItems : items'[ci[2]].status # "absent"
            BY RecomputeExists DEF TypeOK
        <3> QED
            BY <3>1, <3>4, <3>5, <3>6
    <2>4. OneHolder'
        BY DEF OneHolder
    <2>5. \A j \in Items : Shows(items'[j].status, activeItems, j)
        <3>1. Shows(items'[i].status, activeItems, i)
            BY RecomputeShows DEF TypeOK
        <3> QED
            BY <3>1 DEF StatusShowsHolder, Shows, TypeOK
    <2>6. \A j \in Items : items'[j].status = "claimed" /\ Held(activeItems, j)
                                => Held(activeItems', j)
        <3> SUFFICES ASSUME NEW j \in Items, items'[j].status = "claimed",
                            NEW c \in Claims, <<c, j>> \in activeItems
                     PROVE  <<c, j>> \in activeItems'
            BY DEF Held
        <3>1. <<c, j>> \in claimItems
            BY DEF ActiveRows
        <3>2. ~done(c)
            BY <3>1 DEF CompletesClaim, Fulfilled
        <3> QED
            BY <2>2, <3>2
    <2>7. \A j \in Items : Held(activeItems', j) => Held(activeItems, j)
        BY DEF Held
    <2> QED
        BY <2>3, <2>4, <2>5, <2>6, <2>7 DEF StatusShowsHolder, Shows
<1>13. ASSUME NEW u \in Users, NEW f \in Fulfillments, ReverseFulfillment(u, f)
       PROVE  ClaimsInv'
    <2> USE <1>13 DEF ReverseFulfillment
    <2>1. \A j \in Items : Shows(items'[j].status, activeItems, j)
        BY RecomputeShows DEF TypeOK, StatusShowsHolder, Shows
    <2>2. RowsHaveParents'
        BY RecomputeExists DEF TypeOK
    <2> QED
        BY <2>1, <2>2 DEF StatusShowsHolder, Shows, ActiveRows, OneHolder, Held
<1>14. ASSUME NEW u \in Users, NEW k \in Keys, SettleReimbursement(u, k)
       PROVE  ClaimsInv'
    <2> USE <1>14 DEF SettleReimbursement
    <2>1. \A j \in Items : items'[j].status = items[j].status
                            \/ items'[j].status = "settled"
        BY DEF TypeOK, ItemRow
    <2>2. list'.status # "absent"
        BY DEF AutoClose, Exists, TypeOK, ListRow
    <2>3. RowsHaveParents'
        BY <2>1, <2>2 DEF TypeOK
    <2> QED
        BY <2>1, <2>3 DEF StatusShowsHolder, ActiveRows, OneHolder, Held
<1>15. ASSUME NEW u \in Users, NEW s \in {"open", "closed", "archived"}, PatchList(u, s)
       PROVE  ClaimsInv'
    BY <1>15, <1>2 DEF PatchList, Exists, TypeOK, ListRow
<1>16. ASSUME NEW u \in Users, NEW p \in Corps \cup {None}, PatchListPayer(u, p)
       PROVE  ClaimsInv'
    BY <1>16, <1>2 DEF PatchListPayer, SetPayer, Exists, TypeOK, ListRow
<1>17. ASSUME NEW u \in Users, NEW t \in Tips, SetListTip(u, t)
       PROVE  ClaimsInv'
    BY <1>17, <1>2 DEF SetListTip, SetListTipLocked, Exists, TypeOK, ListRow
<1>18. CASE UNCHANGED vars
    BY <1>18, <1>2 DEF vars
<1> QED
    BY <1>1, <1>3, <1>4, <1>5, <1>6, <1>7, <1>8, <1>9, <1>10, <1>11, <1>12, <1>13,
       <1>14, <1>15, <1>16, <1>17, <1>18
       DEF Next, ListRequest, ItemRequest, ClaimRequest, MoneyRequest

\* In every reachable state the claims, their claim_items rows and the status of
\* the items say the same about who holds what.
THEOREM ClaimsCorrect == Spec => []ClaimsAgree
<1>1. Init => TypeOK /\ ClaimsInv
    BY TypeInit, ClaimsInit
<1>2. TypeOK /\ ClaimsInv /\ [Next]_vars => (TypeOK /\ ClaimsInv)'
    BY TypeStep, ClaimsStep
<1>3. ClaimsInv => ClaimsAgree
    BY DEF ClaimsInv
<1> QED
    BY <1>1, <1>2, <1>3, PTL DEF Spec

-----------------------------------------------------------------------------
(* Purchases and reimbursements.  The three money invariants hold each other *)
(* up: an item can be settled only if it is fully bought (NothingShort), so  *)
(* that no purchase can join it afterwards, and only when the rows that pay  *)
(* for it exist (BillingExact).  They are inductive once the tables are known *)
(* to refer to rows that exist.                                              *)

\* Foreign keys: an item has a requester, and a live purchase an existing item.
RefersToRows ==
    /\ \A i \in Items : items[i].status # "absent" => items[i].requester \in Users
    /\ \A f \in Fulfillments : fulfillments[f].state = "live" =>
            /\ fulfillments[f].item \in Existing
            /\ fulfillments[f].hauler \in Users

\* A reimbursement that does not exist bills nothing; no total counts a purchase
\* that has not been made; before the list exists nothing is bought or billed.
BillsNothingElse ==
    /\ \A k \in Keys : /\ reimb[k].status = "absent" => reimb[k] = NoReimb
                       /\ \A f \in reimb[k].subtotal : fulfillments[f].state # "absent"
    /\ list.status = "absent" =>
            /\ NothingBilled
            /\ \A f \in Fulfillments : fulfillments[f].state # "live"

MoneyInv == /\ RefersToRows /\ BillsNothingElse
            /\ NothingShort /\ BillingExact /\ SettledItemsPaid

\* SUM(qty) is a number.
LEMMA UnitsNat ==
    ASSUME NEW ff, NEW S \in SUBSET Fulfillments
    PROVE  Units(ff, S) \in Nat
<1>1. IsFiniteSet(Fulfillments) /\ IsFiniteSet(1 .. MaxQty)
    BY ListAssumption, FS_Interval DEF Fulfillments
<1>2. IsFiniteSet(S \X (1 .. MaxQty))
    BY <1>1, FS_Subset, FS_Product
<1>3. IsFiniteSet({p \in S \X (1 .. MaxQty) : p[2] <= ff[p[1]].qty})
    BY <1>2, FS_Subset
<1> QED
    BY <1>3, FS_CardinalityType DEF Units

\* SUM(qty) depends on the quantities of the rows it adds up.
LEMMA UnitsSame ==
    ASSUME NEW ff, NEW gg, NEW S, \A f \in S : ff[f].qty = gg[f].qty
    PROVE  Units(ff, S) = Units(gg, S)
<1>1. {p \in S \X (1 .. MaxQty) : p[2] <= ff[p[1]].qty}
        = {p \in S \X (1 .. MaxQty) : p[2] <= gg[p[1]].qty}
    OBVIOUS
<1> QED
    BY <1>1 DEF Units

\* A live purchase is billed under exactly one key of those the list bills.
LEMMA BilledOnce ==
    ASSUME TypeOK, RefersToRows, NEW f \in Fulfillments, fulfillments[f].state = "live"
    PROVE  /\ KeyOf(f) \in BillableKeys
           /\ \A k \in BillableKeys : f \in LiveFor(fulfillments, k) <=> k = KeyOf(f)
<1>1. /\ fulfillments[f].item \in Items
      /\ items[fulfillments[f].item].requester \in Users
      /\ fulfillments[f].hauler \in Users
    BY DEF RefersToRows, Existing
<1>2. list.payer \in Corps \cup {None}
    BY DEF TypeOK, ListRow
<1> QED
    BY <1>1, <1>2, ListAssumption
       DEF KeyOf, RequesterPrincipal, BillableKeys, Keys, Principals, LiveFor

\* Requests that touch no purchase, no reimbursement and no payer: what is left
\* of the items decides.
LEMMA SameMoney ==
    ASSUME TypeOK, MoneyInv,
           UNCHANGED <<fulfillments, reimb>>,
           list'.payer = list.payer,
           list'.tip = list.tip \/ NothingBilled,
           list'.status = list.status \/ list'.status # "absent",
           \A i \in Items :
              /\ items'[i].filled = items[i].filled
              /\ items[i].status # "absent" => /\ items'[i].status # "absent"
                                               /\ items'[i].requester = items[i].requester
              /\ items'[i].status # "absent" => items'[i].requester \in Users
              /\ items'[i].status \in Fulfilled
                    => Units(fulfillments, items[i].filled) >= items'[i].qty
              /\ items'[i].status = "settled" => items[i].status = "settled"
    PROVE  MoneyInv'
<1> USE DEF MoneyInv
<1>1. RefersToRows'
    BY DEF RefersToRows, Existing
<1>2. BillsNothingElse'
    BY DEF BillsNothingElse, NothingBilled
<1>3. NothingShort'
    BY DEF NothingShort, LiveOn
<1>4. \A f \in Fulfillments : fulfillments[f].state = "live" =>
            /\ fulfillments[f].item \in Items
            /\ items'[fulfillments[f].item].requester = items[fulfillments[f].item].requester
    BY DEF RefersToRows, Existing
<1>5. \A k : LiveFor(fulfillments, k)' = LiveFor(fulfillments, k)
    BY <1>4 DEF LiveFor
<1>6. BillingExact'
    BY <1>5 DEF BillingExact, BillableKeys, NothingBilled
<1>7. SettledItemsPaid'
    BY <1>4 DEF SettledItemsPaid, LiveOn, KeyOf, RequesterPrincipal
<1> QED
    BY <1>1, <1>2, <1>3, <1>6, <1>7

\* What recomputing keeps of a row, and what it knows of a fulfilled one.
LEMMA RecomputeKeeps ==
    ASSUME NEW it \in ItemRow, NEW i, NEW ff, NEW act, NEW demotion
    PROVE  LET r == Recompute(it, i, ff, act, demotion) IN
           /\ r.requester = it.requester /\ r.qty = it.qty
           /\ r = it \/ r.filled = LiveOn(ff, i)
           /\ r.status \in Fulfilled => r = it \/ Units(ff, LiveOn(ff, i)) >= it.qty
           /\ r.status = "settled" => r = it
BY DEF Recompute, ItemRow, BaseStatus, Fulfilled

\* The same for recompute_item_statuses_bulk.
LEMMA RecomputeBulkKeeps ==
    ASSUME TypeOK, NEW S, NEW ff, NEW act, NEW i \in Items
    PROVE  LET r == RecomputeBulk(S, ff, act)[i] IN
           /\ r.requester = items[i].requester /\ r.qty = items[i].qty
           /\ r.filled = IF i \in S THEN LiveOn(ff, i) ELSE items[i].filled
           /\ r.status \in Fulfilled => \/ r.status = items[i].status
                                        \/ Units(ff, LiveOn(ff, i)) >= items[i].qty
           /\ r.status = "settled" => items[i].status = "settled"
<1>1. items[i] \in ItemRow
    BY DEF TypeOK
<1> QED
    BY <1>1 DEF RecomputeBulk, ItemRow, BaseStatus, Fulfilled

\* Claim requests recompute items without touching purchases.
LEMMA BulkKeepsMoney ==
    ASSUME TypeOK, MoneyInv, UNCHANGED <<list, fulfillments, reimb>>,
           NEW S \in SUBSET Existing, NEW act, items' = RecomputeBulk(S, fulfillments, act)
    PROVE  MoneyInv'
<1> SUFFICES ASSUME NEW i \in Items
             PROVE  /\ items'[i].filled = items[i].filled
                    /\ items[i].status # "absent" =>
                            /\ items'[i].status # "absent"
                            /\ items'[i].requester = items[i].requester
                    /\ items'[i].status # "absent" => items'[i].requester \in Users
                    /\ items'[i].status \in Fulfilled
                          => Units(fulfillments, items[i].filled) >= items'[i].qty
                    /\ items'[i].status = "settled" => items[i].status = "settled"
    BY SameMoney
<1>1. items[i].filled = LiveOn(fulfillments, i)
    BY DEF MoneyInv, NothingShort
<1>2. items[i].status \in Fulfilled => Units(fulfillments, items[i].filled) >= items[i].qty
    BY DEF MoneyInv, NothingShort
<1>3. items[i].status # "absent" => items'[i].status # "absent"
    BY RecomputeBulkExists
<1>4. items[i].status = "absent" => items'[i] = items[i]
    BY DEF RecomputeBulk, Existing
<1>5. items'[i].status # "absent" => items'[i].requester \in Users
    BY <1>4, RecomputeBulkKeeps DEF MoneyInv, RefersToRows
<1> QED
    BY <1>1, <1>2, <1>3, <1>5, RecomputeBulkKeeps

\* An empty list satisfies MoneyInv.
LEMMA MoneyInit == Init => MoneyInv
<1> SUFFICES ASSUME Init PROVE MoneyInv
    OBVIOUS
<1>1. \A f \in Fulfillments : fulfillments[f].state = "absent"
    BY DEF Init, NoFulfillment
<1>2. \A k \in Keys : reimb[k] = NoReimb
    BY DEF Init
<1>3. \A i \in Items : items[i] = NoItem /\ LiveOn(fulfillments, i) = {}
    BY <1>1 DEF Init, LiveOn
<1>4. RefersToRows
    BY <1>1, <1>3 DEF RefersToRows, NoItem
<1>7. BillsNothingElse
    <2>1. NothingBilled
        BY <1>2 DEF NothingBilled, NoReimb
    <2>2. \A f \in Fulfillments : fulfillments[f].state # "live"
        BY <1>1
    <2>3. \A k \in Keys : reimb[k].subtotal = {}
        BY <1>2 DEF NoReimb
    <2> QED
        BY <1>2, <2>1, <2>2, <2>3 DEF BillsNothingElse
<1>5. NothingShort /\ SettledItemsPaid
    BY <1>3 DEF NothingShort, SettledItemsPaid, NoItem, Fulfilled
<1>6. BillingExact
    <2>1. \A k \in Keys : LiveFor(fulfillments, k) = {}
        BY <1>1 DEF LiveFor
    <2> QED
        BY <1>2, <2>1 DEF BillingExact, BillableKeys, NoReimb
<1> QED
    BY <1>4, <1>5, <1>6, <1>7 DEF MoneyInv

\* The payer can change only while nothing has been bought.
LEMMA PayerKeepsMoney ==
    ASSUME TypeOK, MoneyInv, NEW p \in Corps \cup {None}, NothingBilled, SetPayer(p)
    PROVE  MoneyInv'
<1> USE DEF SetPayer
<1>1. \A f \in Fulfillments : fulfillments[f].state # "live"
    BY BilledOnce DEF MoneyInv, BillingExact, NothingBilled, BillableKeys
<1>2. \A k \in Keys : reimb[k] = NoReimb
    BY DEF MoneyInv, BillsNothingElse, NothingBilled
<1>3. list'.status = list.status
    BY DEF TypeOK, ListRow
<1>4. RefersToRows' /\ NothingShort'
    BY DEF MoneyInv, RefersToRows, NothingShort, LiveOn, Existing
<1>5. BillsNothingElse'
    BY <1>3 DEF MoneyInv, BillsNothingElse, NothingBilled
<1>6. BillingExact' /\ SettledItemsPaid'
    BY <1>1, <1>2 DEF BillingExact, SettledItemsPaid, LiveFor, LiveOn, NoReimb,
                      BillableKeys
<1> QED
    BY <1>4, <1>5, <1>6 DEF MoneyInv

\* delete_list leaves no purchase and no reimbursement.
LEMMA DeleteListKeepsMoney ==
    ASSUME TypeOK, NEW u, DeleteList(u)
    PROVE  MoneyInv'
<1> USE DEF DeleteList
<1>1. \A f \in Fulfillments : fulfillments'[f].state = "deleted"
    BY DEF DeletedFulfillment, NoFulfillment
<1>2. \A k \in Keys : reimb'[k] = NoReimb
    OBVIOUS
<1>3. \A i \in Items : items'[i] = NoItem /\ LiveOn(fulfillments', i) = {}
    BY <1>1 DEF LiveOn
<1>4. list'.status = "deleted"
    BY DEF TypeOK, ListRow
<1>5. RefersToRows' /\ BillsNothingElse'
    BY <1>1, <1>2, <1>3, <1>4 DEF RefersToRows, BillsNothingElse, NoItem, NoReimb, NothingBilled
<1>6. NothingShort' /\ SettledItemsPaid'
    BY <1>3 DEF NothingShort, SettledItemsPaid, NoItem, Fulfilled
<1>7. BillingExact'
    <2>1. \A k \in Keys : LiveFor(fulfillments, k)' = {}
        BY <1>1 DEF LiveFor
    <2> QED
        BY <1>2, <2>1 DEF BillingExact, BillableKeys, NoReimb
<1> QED
    BY <1>5, <1>6, <1>7 DEF MoneyInv

\* set_list_tip carries every pending reimbursement along.
LEMMA TipKeepsMoney ==
    ASSUME TypeOK, MoneyInv, NEW u, NEW t \in Tips, SetListTipLocked(u, t)
    PROVE  MoneyInv'
<1> USE DEF SetListTipLocked
<1>1. /\ list'.payer = list.payer /\ list'.status = list.status /\ list'.tip = t
    BY DEF TypeOK, ListRow
<1>2. \A k \in Keys : /\ reimb'[k].status = reimb[k].status
                      /\ reimb'[k].subtotal = reimb[k].subtotal
                      /\ reimb[k].status # "pending" => reimb'[k] = reimb[k]
                      /\ reimb[k].status = "pending" => reimb'[k].tip = t
    BY DEF TypeOK, ReimbRow
<1>3. RefersToRows' /\ NothingShort'
    BY DEF MoneyInv, RefersToRows, NothingShort, LiveOn, Existing
<1>4. BillsNothingElse'
    BY <1>1, <1>2 DEF MoneyInv, BillsNothingElse, NothingBilled
<1>5. BillingExact'
    BY <1>1, <1>2 DEF MoneyInv, BillingExact, BillableKeys, LiveFor
<1>6. SettledItemsPaid'
    <2>1. \A f \in Fulfillments : fulfillments[f].state = "live" =>
                KeyOf(f)' = KeyOf(f) /\ KeyOf(f) \in Keys
        BY <1>1, BilledOnce DEF MoneyInv, KeyOf, RequesterPrincipal, BillableKeys
    <2> QED
        BY <1>2, <2>1 DEF MoneyInv, SettledItemsPaid, LiveOn
<1> QED
    BY <1>3, <1>4, <1>5, <1>6 DEF MoneyInv

\* delete_item removes the item's purchases from what is live and, as deleted
\* rows, from what the totals still count.
LEMMA DeleteItemKeepsMoney ==
    ASSUME TypeOK, MoneyInv, NEW i \in Items, DeleteItemLocked(i)
    PROVE  MoneyInv'
<1> USE DEF DeleteItemLocked
<1>1. \A f \in Fulfillments :
        /\ fulfillments[f].item = i => fulfillments'[f].state = "deleted"
        /\ fulfillments[f].item # i => fulfillments'[f] = fulfillments[f]
    BY DEF DeletedFulfillment, NoFulfillment
<1>2. items'[i] = NoItem /\ \A j \in Items \ {i} : items'[j] = items[j]
    BY DEF TypeOK
<1>3. RefersToRows'
    BY <1>1, <1>2 DEF MoneyInv, RefersToRows, Existing, NoItem
<1>4. BillsNothingElse'
    BY <1>1 DEF MoneyInv, BillsNothingElse, NothingBilled, TypeOK, ReimbRow
<1>5. NothingShort'
    <2>1. LiveOn(fulfillments', i) = {}
        BY <1>1 DEF LiveOn
    <2>2. \A j \in Items \ {i} : LiveOn(fulfillments', j) = LiveOn(fulfillments, j)
        BY <1>1 DEF LiveOn
    <2>3. \A j \in Items \ {i} : Units(fulfillments', LiveOn(fulfillments, j))
                                    = Units(fulfillments, LiveOn(fulfillments, j))
        <3> SUFFICES ASSUME NEW j \in Items \ {i}
                     PROVE  \A f \in LiveOn(fulfillments, j) :
                                fulfillments'[f].qty = fulfillments[f].qty
            BY UnitsSame
        <3> QED
            BY <1>1 DEF LiveOn
    <2> QED
        BY <1>2, <2>1, <2>2, <2>3 DEF MoneyInv, NothingShort, NoItem, Fulfilled
<1>6. BillingExact'
    <2>1. \A k \in BillableKeys : LiveFor(fulfillments, k)'
                = {f \in LiveFor(fulfillments, k) : fulfillments[f].item # i}
        BY <1>1, <1>2 DEF LiveFor, MoneyInv, RefersToRows, Existing
    <2>2. \A k \in BillableKeys :
                {f \in reimb[k].subtotal : fulfillments'[f].state # "deleted"}
                = {f \in reimb[k].subtotal : /\ fulfillments[f].state # "deleted"
                                             /\ fulfillments[f].item # i}
        BY <1>1 DEF TypeOK, ReimbRow, BillableKeys
    <2> QED
        BY <2>1, <2>2 DEF MoneyInv, BillingExact, BillableKeys
<1>7. SettledItemsPaid'
    BY <1>1, <1>2 DEF MoneyInv, SettledItemsPaid, LiveOn, KeyOf, RequesterPrincipal, NoItem
<1> QED
    BY <1>3, <1>4, <1>5, <1>6, <1>7 DEF MoneyInv

\* Recording or reversing purchase f and recomputing the one reimbursement that
\* bills it keeps every total exact.
LEMMA UpsertBills ==
    ASSUME TypeOK, MoneyInv, RefersToRows', list' = list,
           \A j \in Items : items'[j].requester = items[j].requester,
           NEW k \in BillableKeys, Unsettled(k), reimb' = Upsert(k, fulfillments'),
           NEW f \in Fulfillments,
           \A g \in Fulfillments \ {f} : fulfillments'[g] = fulfillments[g],
           fulfillments[f].state \in {"absent", "live"},
           fulfillments'[f].state \in {"live", "reversed"},
           \A k2 \in BillableKeys \ {k} : /\ f \notin LiveFor(fulfillments, k2)
                                          /\ f \notin LiveFor(fulfillments', k2),
           list.status # "absent"
    PROVE  BillingExact' /\ BillsNothingElse'
<1>1. BillableKeys' = BillableKeys /\ BillableKeys \subseteq Keys
    BY DEF BillableKeys
<1>2. \A k2 \in Keys : LiveFor(fulfillments, k2)' = LiveFor(fulfillments', k2)
    BY DEF LiveFor, RefersToRows, Existing
<1>3. \A k2 \in Keys \ {k} : reimb'[k2] = reimb[k2]
    BY DEF Upsert, TypeOK
<1>4. /\ reimb'[k].status = "pending" /\ reimb'[k].tip = list.tip
      /\ reimb'[k].subtotal = LiveFor(fulfillments', k)
    BY <1>1 DEF Upsert, Unsettled, TypeOK
<1>5. \A k2 \in BillableKeys \ {k} :
        /\ LiveFor(fulfillments', k2) = LiveFor(fulfillments, k2)
        /\ {g \in reimb[k2].subtotal : fulfillments'[g].state # "deleted"}
             = {g \in reimb[k2].subtotal : fulfillments[g].state # "deleted"}
    <2> SUFFICES ASSUME NEW k2 \in BillableKeys \ {k}
                 PROVE  /\ LiveFor(fulfillments', k2) = LiveFor(fulfillments, k2)
                        /\ {g \in reimb[k2].subtotal : fulfillments'[g].state # "deleted"}
                             = {g \in reimb[k2].subtotal : fulfillments[g].state # "deleted"}
        OBVIOUS
    <2>1. LiveFor(fulfillments', k2) = LiveFor(fulfillments, k2)
        BY DEF LiveFor
    <2>2. reimb[k2].subtotal \subseteq Fulfillments
        BY <1>1 DEF TypeOK, ReimbRow
    <2> QED
        BY <2>1, <2>2
<1>6. BillingExact'
    <2>1. {g \in LiveFor(fulfillments', k) : fulfillments'[g].state # "deleted"}
            = LiveFor(fulfillments', k)
        BY DEF LiveFor
    <2> QED
        BY <1>1, <1>2, <1>3, <1>4, <1>5, <2>1 DEF MoneyInv, BillingExact
<1>7. BillsNothingElse'
    <2>1. \A g \in LiveFor(fulfillments', k) : fulfillments'[g].state # "absent"
        BY DEF LiveFor
    <2>2. \A g \in Fulfillments : fulfillments[g].state # "absent"
                                    => fulfillments'[g].state # "absent"
        OBVIOUS
    <2>3. \A k2 \in Keys : reimb[k2].subtotal \subseteq Fulfillments
        BY DEF TypeOK, ReimbRow
    <2> QED
        BY <1>3, <1>4, <2>1, <2>2, <2>3 DEF MoneyInv, BillsNothingElse
<1> QED
    BY <1>6, <1>7

\* Unless the status is frozen, recomputing starts afresh from the live rows.
LEMMA RecomputeFresh ==
    ASSUME NEW it \in ItemRow, NEW i, NEW ff, NEW act, NEW demotion,
           it.status # "settled", it.status # "delivered" \/ demotion = "Allow"
    PROVE  /\ Recompute(it, i, ff, act, demotion).requester = it.requester
           /\ Recompute(it, i, ff, act, demotion).qty = it.qty
           /\ Recompute(it, i, ff, act, demotion).filled = LiveOn(ff, i)
           /\ Recompute(it, i, ff, act, demotion).status \notin {"absent", "settled"}
           /\ Recompute(it, i, ff, act, demotion).status \in Fulfilled
                => Units(ff, LiveOn(ff, i)) >= it.qty
BY DEF Recompute, ItemRow, BaseStatus, Fulfilled

\* record_fulfillment: the item still lacked units, so it was not yet settled.
LEMMA RecordKeepsMoney ==
    ASSUME TypeOK, MoneyInv, NEW u \in Users, NEW i \in Items, NEW q \in 1 .. MaxQty,
           NEW f \in Fulfillments, RecordFulfillmentLocked(u, i, q, f)
    PROVE  MoneyInv'
<1> DEFINE k == <<RequesterPrincipal(items[i].requester), u>>
<1>0. /\ Exists /\ i \in Existing /\ NextFulfillment(f) /\ Unsettled(k)
      /\ q + Units(fulfillments, items[i].filled) <= items[i].qty
      /\ fulfillments' = [fulfillments EXCEPT
            ![f] = [state |-> "live", item |-> i, hauler |-> u, qty |-> q]]
      /\ items' = [items EXCEPT
            ![i] = Recompute(@, i, fulfillments', activeItems, "Forbid")]
      /\ reimb' = Upsert(k, fulfillments')
      /\ list' = list
    BY DEF RecordFulfillmentLocked
<1>1. /\ fulfillments[f].state = "absent"
      /\ fulfillments'[f] = [state |-> "live", item |-> i, hauler |-> u, qty |-> q]
      /\ \A g \in Fulfillments \ {f} : fulfillments'[g] = fulfillments[g]
    BY <1>0 DEF NextFulfillment, TypeOK, Fulfillments
<1>2. items[i].status \notin Fulfilled
    <2>1. items[i].filled \in SUBSET Fulfillments /\ items[i].qty \in Nat
        BY DEF TypeOK, ItemRow
    <2>2. Units(fulfillments, items[i].filled) \in Nat
        BY <2>1, UnitsNat
    <2>3. q >= 1 /\ q \in Nat
        BY ListAssumption
    <2>4. ~(Units(fulfillments, items[i].filled) >= items[i].qty)
        BY <1>0, <2>1, <2>2, <2>3
    <2> QED
        BY <2>4 DEF MoneyInv, NothingShort
<1>3. /\ items[i] \in ItemRow
      /\ items'[i] = Recompute(items[i], i, fulfillments', activeItems, "Forbid")
      /\ \A j \in Items \ {i} : items'[j] = items[j]
    BY <1>0 DEF TypeOK
<1>4. /\ \A j \in Items : items'[j].requester = items[j].requester
      /\ items'[i].qty = items[i].qty
      /\ items'[i].filled = LiveOn(fulfillments', i)
      /\ items'[i].status # "absent" /\ items'[i].status # "settled"
      /\ items'[i].status \in Fulfilled =>
            Units(fulfillments', LiveOn(fulfillments', i)) >= items[i].qty
    <2>1. items[i].status # "settled" /\ items[i].status # "delivered"
        BY <1>2 DEF Fulfilled
    <2>2. /\ items'[i].requester = items[i].requester
          /\ items'[i].qty = items[i].qty
          /\ items'[i].filled = LiveOn(fulfillments', i)
          /\ items'[i].status \notin {"absent", "settled"}
          /\ items'[i].status \in Fulfilled =>
                Units(fulfillments', LiveOn(fulfillments', i)) >= items[i].qty
        BY <1>3, <2>1, RecomputeFresh
    <2> QED
        BY <1>3, <2>2
<1>5. RefersToRows'
    <2>1. \A j \in Items : items'[j].status # "absent" => items'[j].requester \in Users
        BY <1>0, <1>3, <1>4 DEF MoneyInv, RefersToRows, Existing
    <2>2. \A j \in Items : items[j].status # "absent" => items'[j].status # "absent"
        BY <1>3, <1>4
    <2>3. \A g \in Fulfillments : fulfillments'[g].state = "live" =>
                /\ fulfillments'[g].item \in Existing
                /\ fulfillments'[g].hauler \in Users
        BY <1>0, <1>1 DEF MoneyInv, RefersToRows
    <2> QED
        BY <2>1, <2>2, <2>3 DEF RefersToRows, Existing
<1>6. k \in BillableKeys
    <2>1. items[i].requester \in Users /\ list.payer \in Corps \cup {None}
        BY <1>0 DEF MoneyInv, RefersToRows, Existing, TypeOK, ListRow
    <2> QED
        BY <2>1 DEF BillableKeys, Keys, Principals, RequesterPrincipal
<1>7. \A k2 \in BillableKeys \ {k} : /\ f \notin LiveFor(fulfillments, k2)
                                    /\ f \notin LiveFor(fulfillments', k2)
    <2>1. items[i].requester \in Users /\ list.payer \in Corps \cup {None}
        BY <1>0 DEF MoneyInv, RefersToRows, Existing, TypeOK, ListRow
    <2> QED
        BY <1>1, <2>1, ListAssumption
           DEF LiveFor, BillableKeys, Keys, Principals, RequesterPrincipal
<1>8. BillingExact' /\ BillsNothingElse'
    <2>1. /\ fulfillments[f].state \in {"absent", "live"}
          /\ fulfillments'[f].state \in {"live", "reversed"}
        BY <1>1
    <2>2. list.status # "absent"
        BY <1>0 DEF Exists
    <2>3. \A j \in Items : items'[j].requester = items[j].requester
        BY <1>4
    <2> QED
        BY <1>0, <1>1, <1>5, <1>6, <1>7, <2>1, <2>2, <2>3, UpsertBills
<1>9. \A j \in Items \ {i} : LiveOn(fulfillments', j) = LiveOn(fulfillments, j)
    BY <1>1 DEF LiveOn
<1>10. NothingShort'
    <2>1. \A j \in Items \ {i} : Units(fulfillments', LiveOn(fulfillments, j))
                                    = Units(fulfillments, LiveOn(fulfillments, j))
        <3> SUFFICES ASSUME NEW j \in Items \ {i}
                     PROVE  \A g \in LiveOn(fulfillments, j) :
                                fulfillments'[g].qty = fulfillments[g].qty
            BY UnitsSame
        <3> QED
            BY <1>1 DEF LiveOn
    <2> QED
        BY <1>3, <1>4, <1>9, <2>1 DEF MoneyInv, NothingShort
<1>11. SettledItemsPaid'
    <2> SUFFICES ASSUME NEW j \in Items, items'[j].status = "settled",
                        NEW g \in LiveOn(fulfillments', j)
                 PROVE  reimb'[KeyOf(g)'].status = "settled"
        BY DEF SettledItemsPaid
    <2>1. j # i /\ g # f /\ g \in LiveOn(fulfillments, j)
        BY <1>1, <1>4, <1>9 DEF LiveOn
    <2>2. items[j].status = "settled"
        BY <2>1, <1>3
    <2>3. KeyOf(g)' = KeyOf(g)
        BY <1>0, <1>1, <1>3, <2>1 DEF KeyOf, RequesterPrincipal, LiveOn
    <2>4. reimb[KeyOf(g)].status = "settled"
        BY <2>1, <2>2 DEF MoneyInv, SettledItemsPaid
    <2>5. KeyOf(g) # k
        BY <1>0, <2>4 DEF Unsettled
    <2> QED
        BY <1>0, <2>3, <2>4, <2>5 DEF Upsert, TypeOK
<1> QED
    BY <1>5, <1>8, <1>10, <1>11 DEF MoneyInv

\* reverse_fulfillment: a purchase that may be reversed is on no settled item.
LEMMA ReverseKeepsMoney ==
    ASSUME TypeOK, MoneyInv, NEW u \in Users, NEW f \in Fulfillments,
           ReverseFulfillment(u, f)
    PROVE  MoneyInv'
<1> DEFINE i == fulfillments[f].item
           k == KeyOf(f)
<1>0. /\ IsMutable /\ fulfillments[f].state = "live"
      /\ Unsettled(k) /\ reimb' = Upsert(k, fulfillments')
      /\ fulfillments' = [fulfillments EXCEPT ![f].state = "reversed"]
      /\ items' = [items EXCEPT
            ![i] = Recompute(@, i, fulfillments', activeItems, "Allow")]
      /\ list' = list
    BY DEF ReverseFulfillment, KeyOf
<1>1. i \in Items /\ items[i].status # "absent"
    BY <1>0 DEF MoneyInv, RefersToRows, Existing
<1>2. /\ fulfillments'[f] = [fulfillments[f] EXCEPT !.state = "reversed"]
      /\ fulfillments'[f].state = "reversed" /\ fulfillments'[f].item = i
      /\ fulfillments'[f].qty = fulfillments[f].qty
      /\ \A g \in Fulfillments \ {f} : fulfillments'[g] = fulfillments[g]
    BY <1>0 DEF TypeOK, FulfillmentRow
<1>3. items[i].status # "settled"
    BY <1>0, <1>1 DEF MoneyInv, SettledItemsPaid, LiveOn, Unsettled
<1>4. /\ items[i] \in ItemRow
      /\ items'[i] = Recompute(items[i], i, fulfillments', activeItems, "Allow")
      /\ \A j \in Items \ {i} : items'[j] = items[j]
    BY <1>0, <1>1 DEF TypeOK
<1>5. /\ \A j \in Items : items'[j].requester = items[j].requester
      /\ items'[i].qty = items[i].qty
      /\ items'[i].filled = LiveOn(fulfillments', i)
      /\ items'[i].status # "absent" /\ items'[i].status # "settled"
      /\ items'[i].status \in Fulfilled =>
            Units(fulfillments', LiveOn(fulfillments', i)) >= items[i].qty
    <2>1. /\ items'[i].requester = items[i].requester
          /\ items'[i].qty = items[i].qty
          /\ items'[i].filled = LiveOn(fulfillments', i)
          /\ items'[i].status \notin {"absent", "settled"}
          /\ items'[i].status \in Fulfilled =>
                Units(fulfillments', LiveOn(fulfillments', i)) >= items[i].qty
        BY <1>3, <1>4, RecomputeFresh
    <2> QED
        BY <1>4, <2>1
<1>6. RefersToRows'
    <2>1. \A j \in Items : items'[j].status # "absent" => items'[j].requester \in Users
        BY <1>1, <1>4, <1>5 DEF MoneyInv, RefersToRows
    <2>2. \A j \in Items : items[j].status # "absent" => items'[j].status # "absent"
        BY <1>4, <1>5
    <2>3. \A g \in Fulfillments : fulfillments'[g].state = "live" =>
                /\ fulfillments'[g].item \in Existing
                /\ fulfillments'[g].hauler \in Users
        BY <1>2 DEF MoneyInv, RefersToRows
    <2> QED
        BY <2>1, <2>2, <2>3 DEF RefersToRows, Existing
<1>7. k \in BillableKeys
    BY <1>0, BilledOnce DEF MoneyInv
<1>8. \A k2 \in BillableKeys \ {k} : /\ f \notin LiveFor(fulfillments, k2)
                                    /\ f \notin LiveFor(fulfillments', k2)
    BY <1>0, <1>2, BilledOnce DEF MoneyInv, LiveFor
<1>9. BillingExact' /\ BillsNothingElse'
    BY <1>0, <1>1, <1>2, <1>5, <1>6, <1>7, <1>8, UpsertBills DEF IsMutable
<1>10. \A j \in Items \ {i} : LiveOn(fulfillments', j) = LiveOn(fulfillments, j)
    BY <1>2 DEF LiveOn
<1>11. NothingShort'
    <2>1. \A j \in Items : Units(fulfillments', LiveOn(fulfillments, j))
                            = Units(fulfillments, LiveOn(fulfillments, j))
        <3> SUFFICES ASSUME NEW j \in Items
                     PROVE  \A g \in LiveOn(fulfillments, j) :
                                fulfillments'[g].qty = fulfillments[g].qty
            BY UnitsSame
        <3> QED
            BY <1>2 DEF LiveOn
    <2> QED
        BY <1>4, <1>5, <1>10, <2>1 DEF MoneyInv, NothingShort
<1>12. SettledItemsPaid'
    <2> SUFFICES ASSUME NEW j \in Items, items'[j].status = "settled",
                        NEW g \in LiveOn(fulfillments', j)
                 PROVE  reimb'[KeyOf(g)'].status = "settled"
        BY DEF SettledItemsPaid
    <2>1. j # i /\ g # f /\ g \in LiveOn(fulfillments, j)
        BY <1>2, <1>5, <1>10 DEF LiveOn
    <2>2. items[j].status = "settled"
        BY <2>1, <1>4
    <2>3. KeyOf(g)' = KeyOf(g)
        BY <1>0, <1>2, <1>4, <2>1 DEF KeyOf, RequesterPrincipal, LiveOn
    <2>4. reimb[KeyOf(g)].status = "settled"
        BY <2>1, <2>2 DEF MoneyInv, SettledItemsPaid
    <2>5. KeyOf(g) # k
        BY <1>0, <2>4 DEF Unsettled
    <2> QED
        BY <1>0, <2>3, <2>4, <2>5 DEF Upsert, TypeOK
<1> QED
    BY <1>6, <1>9, <1>11, <1>12 DEF MoneyInv

\* Settling one reimbursement settles the items nobody else is still owed for.
LEMMA SettleKeepsMoney ==
    ASSUME TypeOK, MoneyInv, NEW u \in Users, NEW k \in Keys, SettleReimbursement(u, k)
    PROVE  MoneyInv'
<1>0. /\ reimb[k].status = "pending" /\ Exists
      /\ reimb' = [reimb EXCEPT ![k].status = "settled"]
      /\ items' = [i \in Items |->
            IF i \in Covered(k) /\ items[i].status = "delivered" /\ ~OtherPending(k, i)
            THEN [items[i] EXCEPT !.status = "settled"] ELSE items[i]]
      /\ list' = AutoClose(items')
      /\ fulfillments' = fulfillments
    BY DEF SettleReimbursement
<1>1. /\ list'.payer = list.payer /\ list'.tip = list.tip
      /\ list'.status # "absent"
    BY <1>0 DEF AutoClose, TypeOK, ListRow, Exists
<1>2. \A k2 \in Keys \ {k} : reimb'[k2] = reimb[k2]
    BY <1>0 DEF TypeOK
<1>3. /\ reimb'[k].status = "settled" /\ reimb'[k].subtotal = reimb[k].subtotal
    BY <1>0 DEF TypeOK, ReimbRow
<1>4. \A i \in Items : /\ items'[i].requester = items[i].requester
                      /\ items'[i].filled = items[i].filled
                      /\ items'[i].qty = items[i].qty
                      /\ \/ items'[i].status = items[i].status
                         \/ /\ items'[i].status = "settled" /\ items[i].status = "delivered"
                            /\ i \in Covered(k) /\ ~OtherPending(k, i)
    BY <1>0 DEF TypeOK, ItemRow
<1>5. RefersToRows'
    <2>1. Existing' = Existing
        BY <1>4 DEF Existing
    <2> QED
        BY <1>0, <1>4, <2>1 DEF MoneyInv, RefersToRows
<1>6. k \in BillableKeys
    BY <1>0 DEF MoneyInv, BillingExact
<1>7. BillsNothingElse'
    BY <1>0, <1>1, <1>2, <1>3 DEF MoneyInv, BillsNothingElse
<1>8. NothingShort'
    BY <1>0, <1>4 DEF MoneyInv, NothingShort, LiveOn, Fulfilled
<1>9. BillingExact'
    <2>1. \A k2 \in Keys : LiveFor(fulfillments, k2)' = LiveFor(fulfillments, k2)
        BY <1>0, <1>4 DEF LiveFor, MoneyInv, RefersToRows, Existing
    <2>2. BillableKeys' = BillableKeys /\ BillableKeys \subseteq Keys
        BY <1>1 DEF BillableKeys
    <2> QED
        BY <1>0, <1>1, <1>2, <1>3, <1>6, <2>1, <2>2 DEF MoneyInv, BillingExact
<1>10. SettledItemsPaid'
    <2> SUFFICES ASSUME NEW i \in Items, items'[i].status = "settled",
                        NEW f \in LiveOn(fulfillments, i)
                 PROVE  reimb'[KeyOf(f)].status = "settled"
        <3>1. \A f \in Fulfillments : fulfillments[f].state = "live" => KeyOf(f)' = KeyOf(f)
            BY <1>0, <1>1, <1>4 DEF KeyOf, RequesterPrincipal, MoneyInv, RefersToRows, Existing
        <3> QED
            BY <1>0, <3>1 DEF SettledItemsPaid, LiveOn
    <2>1. f \in Fulfillments /\ fulfillments[f].state = "live" /\ fulfillments[f].item = i
        BY DEF LiveOn
    <2>2. KeyOf(f) \in BillableKeys /\ KeyOf(f) \in Keys
        BY <2>1, BilledOnce DEF MoneyInv, BillableKeys
    <2>3. reimb[KeyOf(f)].status # "absent"
        BY <2>1, <2>2, BilledOnce DEF MoneyInv, BillingExact
    <2>4. CASE items[i].status = "settled"
        BY <1>2, <1>3, <2>2, <2>4 DEF MoneyInv, SettledItemsPaid
    <2>5. CASE i \in Covered(k) /\ ~OtherPending(k, i)
        <3>1. k[1] \in Corps \/ items[i].requester = k[1]
            BY <2>5 DEF Covered
        <3>2. KeyOf(f)[1] = k[1]
            BY <1>6, <2>1, <2>2, <3>1, ListAssumption
               DEF KeyOf, RequesterPrincipal, BillableKeys, Keys, Principals
        <3>3. KeyOf(f)[2] = fulfillments[f].hauler
            BY DEF KeyOf
        <3>4. CASE KeyOf(f) = k
            BY <1>3, <3>4
        <3>5. CASE KeyOf(f) # k
            <4>1. KeyOf(f)[2] # k[2]
                BY <2>2, <3>2, <3>5 DEF Keys
            <4>2. reimb[KeyOf(f)].status # "pending"
                BY <2>2, <2>5, <3>2, <3>3, <4>1 DEF OtherPending
            <4>3. reimb[KeyOf(f)].status = "settled"
                BY <2>2, <2>3, <4>2 DEF TypeOK, ReimbRow
            <4> QED
                BY <1>2, <2>2, <3>5, <4>3
        <3> QED
            BY <3>4, <3>5
    <2> QED
        BY <1>4, <2>4, <2>5
<1> QED
    BY <1>5, <1>7, <1>8, <1>9, <1>10 DEF MoneyInv

\* No request breaks the money invariants.
LEMMA MoneyStep == TypeOK /\ ClaimsInv /\ MoneyInv /\ [Next]_vars => MoneyInv'
<1> SUFFICES ASSUME TypeOK, ClaimsInv, MoneyInv, [Next]_vars PROVE MoneyInv'
    OBVIOUS
<1>1. ASSUME NEW u \in Users, NEW S \in SUBSET Items, NEW q \in Requested,
             NEW t \in Tips, Create(u, S, q, t)
      PROVE  MoneyInv'
    <2>1. \A f \in Fulfillments : fulfillments[f].state # "live"
        BY <1>1 DEF Create, MoneyInv, BillsNothingElse
    <2>2. \A i \in Items : items[i].filled = {}
        BY <2>1 DEF MoneyInv, NothingShort, LiveOn
    <2>3. \A k \in Keys : reimb[k] = NoReimb
        BY <1>1 DEF Create, MoneyInv, BillsNothingElse, NothingBilled
    <2>4. \A i \in Items : items'[i] = IF i \in S
                THEN [status |-> "open", requester |-> u, qty |-> q, filled |-> {}]
                ELSE items[i]
        BY <1>1 DEF Create
    <2>5. RefersToRows'
        BY <1>1, <2>1, <2>4 DEF Create, MoneyInv, RefersToRows
    <2>6. BillsNothingElse'
        BY <1>1, <2>3 DEF Create, BillsNothingElse, NoReimb
    <2>7. NothingShort' /\ SettledItemsPaid'
        BY <1>1, <2>1, <2>2, <2>4
           DEF Create, MoneyInv, NothingShort, SettledItemsPaid, LiveOn, Fulfilled
    <2>8. BillingExact'
        <3>1. \A k : LiveFor(fulfillments, k)' = {}
            BY <1>1, <2>1 DEF Create, LiveFor
        <3> QED
            BY <1>1, <2>3, <3>1 DEF Create, BillingExact, BillableKeys, NoReimb
    <2> QED
        BY <2>5, <2>6, <2>7, <2>8 DEF MoneyInv
<1>2. ASSUME UNCHANGED <<items, fulfillments, reimb>>,
             list'.payer = list.payer, list'.tip = list.tip,
             list'.status = list.status \/ list'.status # "absent"
      PROVE  MoneyInv'
    BY <1>2, SameMoney DEF MoneyInv, RefersToRows, NothingShort
<1>3. ASSUME NEW u \in Users, NEW s \in {"open", "closed", "archived"}, PatchList(u, s)
      PROVE  MoneyInv'
    BY <1>3, <1>2 DEF PatchList, TypeOK, ListRow
<1>4. ASSUME NEW u \in Users, NEW p \in Corps \cup {None}, PatchListPayer(u, p)
      PROVE  MoneyInv'
    BY <1>4, PayerKeepsMoney DEF PatchListPayer
<1>5. ASSUME NEW u \in Users, DeleteList(u)
      PROVE  MoneyInv'
    BY <1>5, DeleteListKeepsMoney
<1>6. ASSUME NEW u \in Users, NEW t \in Tips, SetListTip(u, t)
      PROVE  MoneyInv'
    BY <1>6, TipKeepsMoney DEF SetListTip
<1>7. ASSUME NEW u \in Users, NEW S \in SUBSET Items, NEW q \in Requested,
             AddItems(u, S, q)
      PROVE  MoneyInv'
    <2>1. UNCHANGED <<list, fulfillments, reimb>>
        BY <1>7 DEF AddItems, AddItemsLocked
    <2>2. \A i \in Items : items'[i] = IF i \in S
                THEN [status |-> "open", requester |-> u, qty |-> q, filled |-> {}]
                ELSE items[i]
        BY <1>7 DEF AddItems, AddItemsLocked
    <2>3. \A i \in S : items[i].status = "absent" /\ items[i].filled = {}
        BY <1>7 DEF AddItems, AddItemsLocked, Existing, MoneyInv, NothingShort,
                    LiveOn, RefersToRows
    <2> QED
        <3>1. \A i \in S : /\ items'[i].status = "open" /\ items'[i].requester = u
                           /\ items'[i].filled = items[i].filled
            BY <2>2, <2>3
        <3>2. \A i \in Items \ S : items'[i] = items[i]
            BY <2>2
        <3> QED
            BY <2>1, <2>3, <3>1, <3>2, SameMoney
               DEF MoneyInv, RefersToRows, NothingShort, Fulfilled
<1>8. ASSUME NEW i \in Items, NEW q \in Requested, PatchItem(i, q)
      PROVE  MoneyInv'
    <2>1. UNCHANGED <<list, fulfillments, reimb>> /\ items[i].status = "open"
        BY <1>8 DEF PatchItem, PatchItemLocked
    <2>2. /\ \A j \in Items \ {i} : items'[j] = items[j]
          /\ items'[i].status = "open" /\ items'[i].requester = items[i].requester
          /\ items'[i].filled = items[i].filled
        BY <1>8, <2>1 DEF PatchItem, PatchItemLocked, TypeOK, ItemRow
    <2> QED
        BY <2>1, <2>2, SameMoney DEF MoneyInv, RefersToRows, NothingShort, Fulfilled
<1>9. ASSUME NEW i \in Items, DeleteItem(i)
      PROVE  MoneyInv'
    BY <1>9, DeleteItemKeepsMoney DEF DeleteItem
<1>10. ASSUME NEW u \in Users, NEW i \in Items, MarkDelivered(u, i)
       PROVE  MoneyInv'
    <2>1. UNCHANGED <<list, fulfillments, reimb>> /\ items[i].status = "bought"
        BY <1>10 DEF MarkDelivered, MarkDeliveredLocked
    <2>2. /\ \A j \in Items \ {i} : items'[j] = items[j]
          /\ items'[i] = [items[i] EXCEPT !.status = "delivered"]
        BY <1>10 DEF MarkDelivered, MarkDeliveredLocked, TypeOK
    <2>3. /\ items'[i].status = "delivered" /\ items'[i].requester = items[i].requester
          /\ items'[i].filled = items[i].filled /\ items'[i].qty = items[i].qty
        BY <2>2 DEF TypeOK, ItemRow
    <2> QED
        BY <2>1, <2>2, <2>3, SameMoney DEF MoneyInv, RefersToRows, NothingShort, Fulfilled
<1>11. ASSUME NEW u \in Users, NEW c \in Claims, NEW S \in SUBSET Items,
              CreateClaim(u, c, S)
       PROVE  MoneyInv'
    <2>1. S \in SUBSET Existing
        BY <1>11 DEF CreateClaim, CreateClaimLocked, Claimable, Existing
    <2> QED
        BY <1>11, <2>1, BulkKeepsMoney DEF CreateClaim, CreateClaimLocked, InsertClaimItems
<1>12. ASSUME NEW u \in Users, NEW c \in Claims, NEW S \in SUBSET Items,
              AddClaimItems(u, c, S)
       PROVE  MoneyInv'
    <2>1. S \in SUBSET Existing
        BY <1>12 DEF AddClaimItems, AddClaimItemsLocked, Claimable, Existing
    <2> QED
        BY <1>12, <2>1, BulkKeepsMoney DEF AddClaimItems, AddClaimItemsLocked, InsertClaimItems
<1>13. ASSUME NEW u \in Users, NEW c \in Claims, NEW i \in Items,
              RemoveClaimItem(u, c, i)
       PROVE  MoneyInv'
    <2>1. /\ UNCHANGED <<list, fulfillments, reimb>>
          /\ <<c, i>> \in claimItems
          /\ items' = [items EXCEPT
                ![i] = Recompute(@, i, fulfillments, activeItems', "Forbid")]
        BY <1>13 DEF RemoveClaimItem, RemoveClaimItemLocked
    <2>2. items[i] \in ItemRow /\ items[i].status # "absent"
        BY <2>1 DEF TypeOK, ClaimsInv, RowsHaveParents
    <2>3. /\ items'[i] = Recompute(items[i], i, fulfillments, activeItems', "Forbid")
          /\ \A j \in Items \ {i} : items'[j] = items[j]
        BY <2>1 DEF TypeOK
    <2>4. /\ items'[i].requester = items[i].requester /\ items'[i].qty = items[i].qty
          /\ items'[i].status # "absent"
          /\ items'[i] = items[i] \/ items'[i].filled = LiveOn(fulfillments, i)
          /\ items'[i].status \in Fulfilled => \/ items'[i] = items[i]
                                               \/ Units(fulfillments, LiveOn(fulfillments, i)) >= items[i].qty
          /\ items'[i].status = "settled" => items'[i] = items[i]
        BY <2>2, <2>3, RecomputeKeeps, RecomputeExists
    <2>5. /\ items[i].filled = LiveOn(fulfillments, i)
          /\ items[i].status \in Fulfilled => Units(fulfillments, LiveOn(fulfillments, i)) >= items[i].qty
        BY DEF MoneyInv, NothingShort
    <2>6. /\ items'[i].filled = items[i].filled
          /\ items'[i].status \in Fulfilled
                => Units(fulfillments, items[i].filled) >= items'[i].qty
          /\ items'[i].status = "settled" => items[i].status = "settled"
          /\ items'[i].requester \in Users
        BY <2>2, <2>4, <2>5 DEF MoneyInv, RefersToRows
    <2> QED
        BY <2>1, <2>2, <2>3, <2>4, <2>6, SameMoney DEF MoneyInv, RefersToRows, NothingShort
<1>14. ASSUME NEW u \in Users, NEW c \in Claims, ReleaseClaim(u, c)
       PROVE  MoneyInv'
    <2>1. {i \in Items : <<c, i>> \in claimItems} \in SUBSET Existing
        BY DEF ClaimsInv, RowsHaveParents, Existing
    <2> QED
        BY <1>14, <2>1, BulkKeepsMoney DEF ReleaseClaim, ReleaseClaimLocked
<1>15. ASSUME NEW u \in Users, NEW i \in Items, NEW q \in 1 .. MaxQty,
              NEW f \in Fulfillments, RecordFulfillment(u, i, q, f)
       PROVE  MoneyInv'
    BY <1>15, RecordKeepsMoney DEF RecordFulfillment
<1>16. ASSUME NEW u \in Users, NEW f \in Fulfillments, ReverseFulfillment(u, f)
       PROVE  MoneyInv'
    BY <1>16, ReverseKeepsMoney
<1>17. ASSUME NEW u \in Users, NEW k \in Keys, SettleReimbursement(u, k)
       PROVE  MoneyInv'
    BY <1>17, SettleKeepsMoney
<1>18. CASE UNCHANGED vars
    BY <1>18, <1>2 DEF vars
<1> QED
    BY <1>1, <1>3, <1>4, <1>5, <1>6, <1>7, <1>8, <1>9, <1>10, <1>11, <1>12, <1>13,
       <1>14, <1>15, <1>16, <1>17, <1>18
       DEF Next, ListRequest, ItemRequest, ClaimRequest, MoneyRequest

\* Before the list exists it has no items.
EmptyList == list.status = "absent" => \A i \in Items : items[i].status = "absent"

\* After a request there is, or was, a list.
LEMMA ListIsThere ==
    ASSUME TypeOK, Next PROVE list'.status # "absent"
<1>1. CASE list' = list /\ list.status # "absent"
    BY <1>1
<1>2. ASSUME NEW u \in Users, ListRequest(u) PROVE list'.status # "absent"
    <2>1. ASSUME NEW S \in SUBSET Items, NEW q \in Requested, NEW t \in Tips, Create(u, S, q, t)
          PROVE  list'.status # "absent"
        BY <2>1 DEF Create
    <2>2. ASSUME NEW s \in {"open", "closed", "archived"}, PatchList(u, s)
          PROVE  list'.status # "absent"
        BY <2>2 DEF PatchList, TypeOK, ListRow
    <2>3. ASSUME NEW p \in Corps \cup {None}, PatchListPayer(u, p)
          PROVE  list'.status # "absent"
        BY <2>3 DEF PatchListPayer, SetPayer, TypeOK, ListRow, Exists
    <2>4. ASSUME DeleteList(u) PROVE list'.status # "absent"
        BY <2>4 DEF DeleteList, TypeOK, ListRow
    <2>5. ASSUME NEW t \in Tips, SetListTip(u, t) PROVE list'.status # "absent"
        BY <2>5 DEF SetListTip, SetListTipLocked, TypeOK, ListRow, Exists
    <2> QED
        BY <1>2, <2>1, <2>2, <2>3, <2>4, <2>5 DEF ListRequest
<1>3. ASSUME NEW u \in Users, NEW k \in Keys, SettleReimbursement(u, k)
      PROVE  list'.status # "absent"
    BY <1>3 DEF SettleReimbursement, AutoClose, Exists, TypeOK, ListRow
<1> QED
    BY <1>1, <1>2, <1>3
       DEF Next, ItemRequest, ClaimRequest, MoneyRequest, Exists, IsOpen, IsMutable,
           AddItems, AddItemsLocked, PatchItem, PatchItemLocked, DeleteItem, DeleteItemLocked,
           MarkDelivered, MarkDeliveredLocked, CreateClaim, CreateClaimLocked, AddClaimItems,
           AddClaimItemsLocked, RemoveClaimItem, RemoveClaimItemLocked, ReleaseClaim,
           ReleaseClaimLocked, RecordFulfillment, RecordFulfillmentLocked, ReverseFulfillment

\* The inductive invariant of the list.
ListInv == TypeOK /\ ClaimsInv /\ MoneyInv /\ EmptyList

\* Requests preserve it.
LEMMA RequestStep == ListInv /\ [Next]_vars => ListInv'
<1>1. TypeOK /\ EmptyList /\ [Next]_vars => EmptyList'
    <2>1. CASE Next
        BY <2>1, ListIsThere DEF EmptyList
    <2>2. CASE UNCHANGED vars
        BY <2>2 DEF EmptyList, vars
    <2> QED
        BY <2>1, <2>2
<1> QED
    BY <1>1, TypeStep, ClaimsStep, MoneyStep DEF ListInv

\* The inductive invariant holds of every state that requests under the list's
\* lock can reach.
THEOREM ListInvariant == Spec => []ListInv
<1>1. Init => EmptyList
    BY DEF Init, EmptyList, NoItem
<1>2. Init => ListInv
    BY <1>1, TypeInit, ClaimsInit, MoneyInit DEF ListInv
<1> QED
    BY <1>2, RequestStep, PTL DEF Spec

\* No item is ever bought, delivered or settled with a unit missing, whatever is
\* bought, reversed, claimed, released or edited in between.
THEOREM NothingIsShort == Spec => []NothingShort
<1>1. ListInv => NothingShort
    BY DEF ListInv, MoneyInv
<1> QED
    BY <1>1, ListInvariant, PTL

\* Every purchase is billed once, to the principal that owes it, for ever.
THEOREM BillingIsExact == Spec => []BillingExact
<1>1. ListInv => BillingExact
    BY DEF ListInv, MoneyInv
<1> QED
    BY <1>1, ListInvariant, PTL

\* A settled item leaves no hauler unpaid.
THEOREM SettledIsPaid == Spec => []SettledItemsPaid
<1>1. ListInv => SettledItemsPaid
    BY DEF ListInv, MoneyInv
<1> QED
    BY <1>1, ListInvariant, PTL

-----------------------------------------------------------------------------
(* What is settled stays as it is.                                           *)

\* A step keeps the settled items, the settled reimbursements and the purchases
\* these paid.
KeepsItems == \A i \in Items : items[i].status = "settled" => items'[i] = items[i]
KeepsReimbursements == \A k \in Keys : reimb[k].status = "settled" => reimb'[k] = reimb[k]
KeepsPurchases ==
    \A k \in Keys : reimb[k].status = "settled" =>
        \A f \in LiveFor(fulfillments, k) : \/ fulfillments'[f] = fulfillments[f]
                                            \/ fulfillments'[f].state = "deleted"

\* A bulk recompute rewrites a settled item with what it holds.
LEMMA BulkKeepsSettled ==
    ASSUME TypeOK, NothingShort, NEW S, NEW act,
           items' = RecomputeBulk(S, fulfillments, act)
    PROVE  KeepsItems
<1> SUFFICES ASSUME NEW i \in Items, items[i].status = "settled" PROVE items'[i] = items[i]
    BY DEF KeepsItems
<1>1. items[i] \in ItemRow /\ items[i].filled = LiveOn(fulfillments, i)
    BY DEF TypeOK, NothingShort
<1>2. items'[i] = items[i] \/ items'[i] = [items[i] EXCEPT !.filled = items[i].filled,
                                             !.status = items[i].status]
    <2>1. CASE i \in S
        <3>1. items'[i] = [items[i] EXCEPT !.filled = LiveOn(fulfillments, i),
                    !.status = IF @ \in {"delivered", "settled"} THEN @
                               ELSE BaseStatus(items[i], Units(fulfillments, LiveOn(fulfillments, i)),
                                               Held(act, i))]
            BY <2>1 DEF RecomputeBulk
        <3> QED
            BY <1>1, <3>1
    <2>2. CASE i \notin S
        BY <2>2 DEF RecomputeBulk
    <2> QED
        BY <2>1, <2>2
<1>3. \A r \in ItemRow : [r EXCEPT !.filled = r.filled, !.status = r.status] = r
    BY DEF ItemRow
<1> QED
    BY <1>1, <1>2, <1>3

\* An upsert leaves a settled row alone.
LEMMA UpsertKeepsSettled ==
    ASSUME TypeOK, NEW k \in Keys, NEW ff, reimb' = Upsert(k, ff) PROVE KeepsReimbursements
    BY DEF TypeOK, Upsert, KeepsReimbursements

\* Nobody can take back a purchase that was paid: its key is the settled one.
LEMMA ReverseKeepsPaid ==
    ASSUME ListInv, NEW u \in Users, NEW f \in Fulfillments, ReverseFulfillment(u, f)
    PROVE  KeepsPurchases
<1>1. /\ fulfillments[f].state = "live" /\ Unsettled(KeyOf(f))
      /\ fulfillments' = [fulfillments EXCEPT ![f].state = "reversed"]
    BY DEF ReverseFulfillment, KeyOf
<1>2. ASSUME NEW k \in Keys, reimb[k].status = "settled" PROVE f \notin LiveFor(fulfillments, k)
    <2>1. k \in BillableKeys
        BY <1>2 DEF ListInv, MoneyInv, BillingExact
    <2> QED
        BY <1>1, <1>2, <2>1, BilledOnce DEF ListInv, MoneyInv, Unsettled
<1>3. \A g \in Fulfillments : g # f => fulfillments'[g] = fulfillments[g]
    BY <1>1 DEF ListInv, TypeOK
<1> QED
    BY <1>2, <1>3 DEF KeepsPurchases, LiveFor

\* Every request keeps what is settled, unless it deletes the list.
LEMMA RequestIsFinal ==
    ASSUME ListInv, Next, list'.status # "deleted"
    PROVE  KeepsItems /\ KeepsReimbursements /\ KeepsPurchases
<1> USE DEF ListInv
<1>0. /\ UNCHANGED items => KeepsItems
      /\ UNCHANGED reimb => KeepsReimbursements
      /\ UNCHANGED fulfillments => KeepsPurchases
    BY DEF KeepsItems, KeepsReimbursements, KeepsPurchases
<1>1. ASSUME NEW u \in Users, NEW S \in SUBSET Items, NEW q \in Requested, NEW t \in Tips,
             Create(u, S, q, t)
      PROVE  KeepsItems /\ KeepsReimbursements /\ KeepsPurchases
    <2>1. KeepsItems
        BY <1>1 DEF Create, EmptyList, KeepsItems
    <2> QED
        BY <1>0, <1>1, <2>1 DEF Create
<1>2. ASSUME NEW u \in Users, NEW t \in Tips, SetListTip(u, t)
      PROVE  KeepsItems /\ KeepsReimbursements /\ KeepsPurchases
    <2>1. KeepsReimbursements
        BY <1>2 DEF SetListTip, SetListTipLocked, KeepsReimbursements
    <2> QED
        BY <1>0, <1>2, <2>1 DEF SetListTip, SetListTipLocked
<1>3. ASSUME NEW u \in Users,
             \/ \E s \in {"open", "closed", "archived"} : PatchList(u, s)
             \/ \E p \in Corps \cup {None} : PatchListPayer(u, p)
      PROVE  KeepsItems /\ KeepsReimbursements /\ KeepsPurchases
    BY <1>0, <1>3 DEF PatchList, PatchListPayer, SetPayer
<1>4. ASSUME NEW u \in Users, DeleteList(u) PROVE FALSE
    BY <1>4 DEF DeleteList, TypeOK, ListRow
<1>5. ASSUME NEW u \in Users, ItemRequest(u)
      PROVE  KeepsItems /\ KeepsReimbursements /\ KeepsPurchases
    <2>1. ASSUME NEW S \in SUBSET Items, NEW q \in Requested, AddItems(u, S, q) PROVE KeepsItems
        BY <2>1 DEF AddItems, AddItemsLocked, KeepsItems, Existing
    <2>2. ASSUME NEW i \in Items, NEW q \in Requested, PatchItem(i, q) PROVE KeepsItems
        BY <2>2 DEF PatchItem, PatchItemLocked, KeepsItems, TypeOK
    <2>3. ASSUME NEW i \in Items, DeleteItem(i) PROVE KeepsItems /\ KeepsPurchases
        BY <2>3 DEF DeleteItem, DeleteItemLocked, KeepsItems, KeepsPurchases, TypeOK, LiveFor,
                    DeletedFulfillment, NoFulfillment
    <2>4. ASSUME NEW i \in Items, MarkDelivered(u, i) PROVE KeepsItems
        BY <2>4 DEF MarkDelivered, MarkDeliveredLocked, KeepsItems, TypeOK
    <2> QED
        BY <1>0, <1>5, <2>1, <2>2, <2>3, <2>4
           DEF ItemRequest, AddItems, AddItemsLocked, PatchItem, PatchItemLocked, DeleteItem,
               DeleteItemLocked, MarkDelivered, MarkDeliveredLocked
<1>6. ASSUME NEW u \in Users, ClaimRequest(u)
      PROVE  KeepsItems /\ KeepsReimbursements /\ KeepsPurchases
    <2>1. ASSUME NEW S, NEW act, items' = RecomputeBulk(S, fulfillments, act) PROVE KeepsItems
        BY <2>1, BulkKeepsSettled DEF MoneyInv
    <2>2. ASSUME NEW c \in Claims, NEW i \in Items, RemoveClaimItem(u, c, i) PROVE KeepsItems
        BY <2>2 DEF RemoveClaimItem, RemoveClaimItemLocked, KeepsItems, TypeOK, Recompute
    <2>3. KeepsItems
        BY <1>6, <2>1, <2>2
           DEF ClaimRequest, CreateClaim, CreateClaimLocked, AddClaimItems, AddClaimItemsLocked,
               ReleaseClaim, ReleaseClaimLocked, InsertClaimItems
    <2>4. UNCHANGED <<fulfillments, reimb>>
        BY <1>6
           DEF ClaimRequest, CreateClaim, CreateClaimLocked, AddClaimItems, AddClaimItemsLocked,
               RemoveClaimItem, RemoveClaimItemLocked, ReleaseClaim, ReleaseClaimLocked
    <2> QED
        BY <1>0, <2>3, <2>4
<1>7. ASSUME NEW u \in Users, NEW i \in Items, NEW q \in 1 .. MaxQty, NEW f \in Fulfillments,
             RecordFulfillment(u, i, q, f)
      PROVE  KeepsItems /\ KeepsReimbursements /\ KeepsPurchases
    <2> DEFINE k == <<RequesterPrincipal(items[i].requester), u>>
    <2>1. KeepsItems
        BY <1>7 DEF RecordFulfillment, RecordFulfillmentLocked, KeepsItems, TypeOK, Recompute
    <2>2. k \in Keys
        BY <1>7 DEF RecordFulfillment, RecordFulfillmentLocked, MoneyInv, RefersToRows, Existing,
                    RequesterPrincipal, Keys, Principals, TypeOK, ListRow
    <2>3. KeepsReimbursements
        BY <1>7, <2>2, UpsertKeepsSettled DEF RecordFulfillment, RecordFulfillmentLocked
    <2>4. /\ fulfillments[f].state = "absent"
          /\ \A g \in Fulfillments : g # f => fulfillments'[g] = fulfillments[g]
        BY <1>7 DEF RecordFulfillment, RecordFulfillmentLocked, NextFulfillment, Fulfillments, TypeOK
    <2>5. KeepsPurchases
        BY <2>4 DEF KeepsPurchases, LiveFor
    <2> QED
        BY <2>1, <2>3, <2>5
<1>8. ASSUME NEW u \in Users, NEW f \in Fulfillments, ReverseFulfillment(u, f)
      PROVE  KeepsItems /\ KeepsReimbursements /\ KeepsPurchases
    <2> DEFINE i == fulfillments[f].item
               k == <<RequesterPrincipal(items[i].requester), fulfillments[f].hauler>>
    <2>1. KeepsItems
        BY <1>8 DEF ReverseFulfillment, KeepsItems, TypeOK, Recompute
    <2>2. k \in Keys
        BY <1>8 DEF ReverseFulfillment, MoneyInv, RefersToRows, Existing,
                    RequesterPrincipal, Keys, Principals, TypeOK, ListRow
    <2>3. KeepsReimbursements
        BY <1>8, <2>2, UpsertKeepsSettled DEF ReverseFulfillment
    <2> QED
        BY <1>8, <2>1, <2>3, ReverseKeepsPaid
<1>9. ASSUME NEW u \in Users, NEW k \in Keys, SettleReimbursement(u, k)
      PROVE  KeepsItems /\ KeepsReimbursements /\ KeepsPurchases
    <2>1. KeepsItems
        BY <1>9 DEF SettleReimbursement, KeepsItems
    <2>2. KeepsReimbursements
        BY <1>9 DEF SettleReimbursement, KeepsReimbursements, TypeOK
    <2> QED
        BY <1>0, <1>9, <2>1, <2>2 DEF SettleReimbursement
<1> QED
    BY <1>1, <1>2, <1>3, <1>4, <1>5, <1>6, <1>7, <1>8, <1>9
       DEF Next, ListRequest, MoneyRequest

\* What has been settled never changes again while the list exists: nobody reverses
\* a purchase that was paid, and no recompute, tip or later settlement touches it.
THEOREM SettledStays == Spec => SettlementIsFinal
<1> DEFINE A == list'.status # "deleted" =>
                  /\ \A i \in Items : items[i].status = "settled" => items'[i] = items[i]
                  /\ \A k \in Keys : reimb[k].status = "settled" =>
                      /\ reimb'[k] = reimb[k]
                      /\ \A f \in LiveFor(fulfillments, k) :
                          \/ fulfillments'[f] = fulfillments[f]
                          \/ fulfillments'[f].state = "deleted"
<1>1. ListInv /\ [Next]_vars => [A]_vars
    BY RequestIsFinal DEF KeepsItems, KeepsReimbursements, KeepsPurchases
<1> QED
    BY <1>1, ListInvariant, PTL DEF Spec, SettlementIsFinal

=============================================================================
