---------------------- MODULE ContractSettlementProofs ----------------------
(***************************************************************************)
(* Proofs about ContractSettlement, for every set of contracts and pollers *)
(* and every interleaving of requests, polls, links and crashes.           *)
(***************************************************************************)
EXTENDS ContractSettlement, ListFulfillmentProofs

-----------------------------------------------------------------------------
(* What a payment does to the list.                                        *)

\* A step that settles reimbursements, binds or unbinds them, and settles the items
\* that are paid for, keeps what is known of the list, whoever takes it.
LEMMA PaymentKeepsList ==
    ASSUME ListInv, UNCHANGED <<claims, claimItems, activeItems, fulfillments>>,
           outbox' \subseteq Events,
           list' \in ListRow, list'.payer = list.payer, list'.tip = list.tip,
           list'.status = "absent" <=> list.status = "absent",
           reimb' \in [Keys -> ReimbRow],
           \A k \in Keys :
              /\ reimb'[k].subtotal = reimb[k].subtotal /\ reimb'[k].tip = reimb[k].tip
              /\ reimb[k].status = "absent" => reimb'[k] = reimb[k]
              /\ reimb[k].status = "settled" => reimb'[k].status = "settled"
              /\ reimb[k].status = "pending" => reimb'[k].status \in {"pending", "settled"},
           items' \in [Items -> ItemRow],
           \A i \in Items :
              /\ items'[i].requester = items[i].requester
              /\ items'[i].filled = items[i].filled /\ items'[i].qty = items[i].qty
              /\ \/ items'[i].status = items[i].status
                 \/ /\ items[i].status \in {"bought", "delivered"}
                    /\ items'[i].status = "settled"
                    /\ \A f \in LiveOn(fulfillments, i) : reimb'[KeyOf(f)].status = "settled"
    PROVE  ListInv'
<1>1. TypeOK'
    BY DEF ListInv, TypeOK
<1>2. ClaimsInv'
    <2>1. StatusShowsHolder'
        BY DEF ListInv, ClaimsInv, ClaimsAgree, StatusShowsHolder, Held
    <2>2. ActiveRows' /\ OneHolder'
        BY DEF ListInv, ClaimsInv, ClaimsAgree, ActiveRows, OneHolder
    <2>3. RowsHaveParents'
        <3>1. claimItems \subseteq Claims \X Items
            BY DEF ListInv, TypeOK
        <3> QED
            BY <3>1 DEF ListInv, ClaimsInv, RowsHaveParents
    <2> QED
        BY <2>1, <2>2, <2>3 DEF ClaimsInv, ClaimsAgree
<1>3. Existing' = Existing
    BY DEF Existing
<1>4. RefersToRows'
    BY <1>3 DEF ListInv, MoneyInv, RefersToRows
<1>5. BillsNothingElse'
    <2>1. \A k \in Keys : reimb'[k].status = "absent" => reimb[k].status = "absent"
        BY DEF ListInv, TypeOK, ReimbRow
    <2> QED
        BY <2>1 DEF ListInv, MoneyInv, BillsNothingElse, NothingBilled
<1>6. NothingShort'
    BY DEF ListInv, MoneyInv, NothingShort, LiveOn, Fulfilled
<1>7. BillableKeys' = BillableKeys /\ BillableKeys \subseteq Keys
    BY DEF BillableKeys
<1>8. \A k \in Keys : LiveFor(fulfillments, k)' = LiveFor(fulfillments, k)
    BY DEF LiveFor, ListInv, MoneyInv, RefersToRows, Existing
<1>9. BillingExact'
    <2>1. \A k \in Keys : reimb[k].status \in {"absent", "pending", "settled"}
        BY DEF ListInv, TypeOK, ReimbRow
    <2> QED
        BY <1>7, <1>8, <2>1 DEF ListInv, MoneyInv, BillingExact
<1>10. \A f \in Fulfillments : fulfillments[f].state = "live" =>
            KeyOf(f)' = KeyOf(f) /\ KeyOf(f) \in Keys
    BY BilledOnce DEF KeyOf, RequesterPrincipal, ListInv, MoneyInv, RefersToRows, Existing,
                      BillableKeys
<1>11. SettledItemsPaid'
    <2> SUFFICES ASSUME NEW i \in Items, items'[i].status = "settled",
                        NEW f \in LiveOn(fulfillments, i)
                 PROVE  reimb'[KeyOf(f)].status = "settled"
        BY <1>10 DEF SettledItemsPaid, LiveOn
    <2>1. KeyOf(f) \in Keys
        BY <1>10 DEF LiveOn
    <2>2. CASE items[i].status = "settled"
        BY <2>1, <2>2 DEF ListInv, MoneyInv, SettledItemsPaid
    <2> QED
        BY <2>2
<1>12. EmptyList'
    BY DEF ListInv, EmptyList
<1> QED
    BY <1>1, <1>2, <1>4, <1>5, <1>6, <1>9, <1>11, <1>12 DEF ListInv, MoneyInv

\* The items that settle_via_contract settles leave nobody owed: haulers whose
\* reimbursements are pending hold an item up, and the bound ones are settled.
LEMMA FlippedItemsPaid ==
    ASSUME ListInv, NEW c \in Contracts, NEW rr \in [Keys -> ReimbRow],
           \A k \in Keys : /\ reimb[k].status = "absent" <=> rr[k].status = "absent"
                           /\ reimb[k].status = "absent" => rr[k] = reimb[k]
                           /\ rr[k].contract = c => rr[k].status # "pending",
           NEW i \in Items, NEW k \in BoundIn(rr, c), i \in Covered(k), ~HeldUp(rr, k, i),
           NEW f \in LiveOn(fulfillments, i)
    PROVE  rr[KeyOf(f)].status = "settled"
<1>1. /\ k \in Keys /\ rr[k].contract = c
      /\ f \in Fulfillments /\ fulfillments[f].state = "live" /\ fulfillments[f].item = i
    BY DEF BoundIn, LiveOn
<1>2. /\ \A k2 \in Keys : /\ rr[k2] \in ReimbRow
                          /\ rr[k2].status \in {"absent", "pending", "settled"}
      /\ TypeOK /\ MoneyInv /\ RefersToRows /\ BillingExact /\ BillsNothingElse
    BY DEF ReimbRow, ListInv, MoneyInv
<1>3. rr[k].status = "settled"
    <2>1. reimb[k].status # "absent"
        BY <1>1, <1>2, ListAssumption DEF BillsNothingElse, NoReimb
    <2> QED
        BY <1>1, <1>2, <2>1
<1>4. k \in BillableKeys
    BY <1>1, <1>2, <1>3 DEF BillingExact
<1>5. /\ KeyOf(f) \in BillableKeys /\ KeyOf(f) \in Keys
      /\ f \in LiveFor(fulfillments, KeyOf(f))
    BY <1>1, <1>2, BilledOnce DEF BillableKeys
<1>6. rr[KeyOf(f)].status # "absent"
    BY <1>2, <1>5 DEF BillingExact
<1>7. KeyOf(f)[1] = k[1]
    <2>1. k[1] \in Corps \/ items[i].requester = k[1]
        BY DEF Covered
    <2> QED
        BY <1>1, <1>4, <1>5, <2>1, ListAssumption
           DEF KeyOf, RequesterPrincipal, BillableKeys, Keys, Principals
<1>8. CASE KeyOf(f) # k
    <2>1. KeyOf(f)[2] # k[2] /\ KeyOf(f)[2] = fulfillments[f].hauler
        BY <1>1, <1>5, <1>7, <1>8 DEF Keys, KeyOf
    <2>2. rr[KeyOf(f)].status # "pending"
        BY <1>5, <2>1 DEF HeldUp
    <2> QED
        BY <1>2, <1>5, <1>6, <2>2
<1> QED
    BY <1>3, <1>8

\* Two announcements are the same only for the same settlement.
LEMMA EventsDiffer ==
    /\ \A k, k2 : Event("settled", k) = Event("settled", k2) <=> k = k2
    /\ \A k, r : \A kind \in {"created", "claimed", "delivered"} :
            Event(kind, r) # Event("settled", k)
    /\ \A k \in Keys : Event("settled", k) \in Events
BY DEF Event, Events

\* auto_close_list_if_complete touches nothing but the status of an open list.
LEMMA AutoCloses ==
    ASSUME TypeOK, NEW its, NEW l, l = AutoClose(its) \/ l = list
    PROVE  /\ l \in ListRow /\ l.payer = list.payer /\ l.tip = list.tip
           /\ \/ l.status = list.status
              \/ list.status = "open" /\ l.status = "closed"
<1>1. list \in ListRow
    BY DEF TypeOK
<1> QED
    BY <1>1 DEF AutoClose, ListRow

\* settle_via_contract, on reimbursements rr that differ from the table in their
\* contracts only: what it does to each table.
LEMMA ViaContract ==
    ASSUME ListInv, NEW c \in Contracts, NEW rr \in [Keys -> ReimbRow], NEW exp,
           \A k \in Keys : /\ rr[k].status = reimb[k].status
                           /\ rr[k].subtotal = reimb[k].subtotal /\ rr[k].tip = reimb[k].tip
                           /\ reimb[k].status = "absent" => rr[k] = reimb[k],
           SettleViaContract(c, rr, exp),
           UNCHANGED <<claims, claimItems, activeItems, fulfillments>>
    PROVE  /\ ListInv'
           /\ \A k \in Keys :
                /\ reimb'[k].contract = rr[k].contract /\ reimb'[k].tip = reimb[k].tip
                /\ reimb'[k].status = IF rr[k].contract = c /\ reimb[k].status = "pending"
                                      THEN "settled" ELSE reimb[k].status
                /\ reimb[k].status = "settled" => reimb'[k] = rr[k]
                /\ Event("settled", k) \in outbox' <=>
                        \/ Event("settled", k) \in outbox
                        \/ rr[k].contract = c /\ reimb[k].status = "pending"
           /\ \A i \in Items : items[i].status = "settled" => items'[i] = items[i]
           /\ list'.tip = list.tip
           /\ \/ list'.status = list.status
              \/ list.status = "open" /\ list'.status = "closed"
<1> DEFINE settled == {k \in BoundIn(rr, c) : rr[k].status = "pending"}
           after == [k \in Keys |-> IF k \in settled THEN [rr[k] EXCEPT !.status = "settled"]
                                    ELSE rr[k]]
<1>1. /\ reimb' = after
      /\ items' = IF settled = {} THEN items ELSE FlipItems(after, c)
      /\ list' = IF settled = {} THEN list ELSE AutoClose(items')
      /\ outbox' = outbox \cup {Event("settled", k) : k \in settled}
    BY DEF SettleViaContract, Announce
<1>2. \A k \in Keys : k \in settled <=> rr[k].contract = c /\ reimb[k].status = "pending"
    BY DEF BoundIn
<1>3. settled \subseteq Keys
    BY DEF BoundIn
<1>4. ASSUME NEW k \in Keys
      PROVE  /\ after[k] \in ReimbRow
             /\ after[k].contract = rr[k].contract /\ after[k].tip = reimb[k].tip
             /\ after[k].subtotal = reimb[k].subtotal
             /\ after[k].status = IF k \in settled THEN "settled" ELSE reimb[k].status
             /\ k \notin settled => after[k] = rr[k]
    <2>1. rr[k] \in ReimbRow
        OBVIOUS
    <2>2. after[k] = IF k \in settled THEN [rr[k] EXCEPT !.status = "settled"] ELSE rr[k]
        OBVIOUS
    <2> HIDE DEF settled, after
    <2> QED
        BY <2>1, <2>2 DEF ReimbRow
<1>5. after \in [Keys -> ReimbRow]
    BY <1>4
<1> HIDE DEF settled, after
<1>6. \A k \in Keys : k \in settled => reimb[k].status = "pending"
    BY <1>2
<1>7. \A k \in Keys : reimb[k].status \in {"absent", "pending", "settled"}
    BY DEF ListInv, TypeOK, ReimbRow
<1>8. ASSUME NEW i \in Items
      PROVE  /\ items'[i] \in ItemRow
             /\ items'[i].requester = items[i].requester
             /\ items'[i].filled = items[i].filled /\ items'[i].qty = items[i].qty
             /\ items[i].status = "settled" => items'[i] = items[i]
             /\ \/ items'[i].status = items[i].status
                \/ /\ items[i].status \in {"bought", "delivered"}
                   /\ items'[i].status = "settled"
                   /\ \E k \in BoundIn(after, c) : i \in Covered(k) /\ ~HeldUp(after, k, i)
    <2>1. items[i] \in ItemRow
        BY DEF ListInv, TypeOK
    <2>2. \/ items'[i] = items[i]
          \/ /\ items'[i] = [items[i] EXCEPT !.status = "settled"]
             /\ items[i].status \in {"bought", "delivered"}
             /\ \E k \in BoundIn(after, c) : i \in Covered(k) /\ ~HeldUp(after, k, i)
        BY <1>1 DEF FlipItems
    <2> QED
        BY <2>1, <2>2 DEF ItemRow, ItemStatus
<1>9. items' \in [Items -> ItemRow]
    <2>1. items \in [Items -> ItemRow]
        BY DEF ListInv, TypeOK
    <2>2. items' = [i \in Items |-> items'[i]]
        BY <1>1, <2>1 DEF FlipItems
    <2> QED
        BY <1>8, <2>2
<1>10. \A k \in Keys : /\ reimb[k].status = "absent" <=> after[k].status = "absent"
                       /\ reimb[k].status = "absent" => after[k] = reimb[k]
                       /\ after[k].contract = c => after[k].status # "pending"
    BY <1>2, <1>4
<1>11. \A i \in Items : \/ items'[i].status = items[i].status
                        \/ \A f \in LiveOn(fulfillments, i) : after[KeyOf(f)].status = "settled"
    BY <1>5, <1>8, <1>10, FlippedItemsPaid
<1>12. /\ list' \in ListRow /\ list'.payer = list.payer /\ list'.tip = list.tip
       /\ \/ list'.status = list.status
          \/ list.status = "open" /\ list'.status = "closed"
    BY <1>1, AutoCloses DEF ListInv
<1>13. \A k \in Keys : Event("settled", k) \in outbox' <=>
                          (Event("settled", k) \in outbox \/ k \in settled)
    BY <1>1, EventsDiffer
<1>14. outbox' \subseteq Events
    BY <1>1, <1>3, EventsDiffer DEF ListInv, TypeOK
<1>15. ListInv'
    <2>1. \A k \in Keys :
            /\ reimb'[k].subtotal = reimb[k].subtotal /\ reimb'[k].tip = reimb[k].tip
            /\ reimb[k].status = "absent" => reimb'[k] = reimb[k]
            /\ reimb[k].status = "settled" => reimb'[k].status = "settled"
            /\ reimb[k].status = "pending" => reimb'[k].status \in {"pending", "settled"}
        BY <1>1, <1>4, <1>6, <1>10
    <2>2. \A i \in Items :
            /\ items'[i].requester = items[i].requester
            /\ items'[i].filled = items[i].filled /\ items'[i].qty = items[i].qty
            /\ \/ items'[i].status = items[i].status
               \/ /\ items[i].status \in {"bought", "delivered"}
                  /\ items'[i].status = "settled"
                  /\ \A f \in LiveOn(fulfillments, i) : reimb'[KeyOf(f)].status = "settled"
        BY <1>1, <1>8, <1>11
    <2>3. reimb' \in [Keys -> ReimbRow] /\ (list'.status = "absent" <=> list.status = "absent")
        BY <1>1, <1>5, <1>12
    <2> QED
        BY <1>9, <1>12, <1>14, <2>1, <2>2, <2>3, PaymentKeepsList
<1> QED
    BY <1>1, <1>2, <1>4, <1>8, <1>12, <1>13, <1>15

-----------------------------------------------------------------------------
(* What a request on the list does to the rows the contracts refer to.     *)

\* Whether the settlement of k is announced does not change.
SameNews(k) == Event("settled", k) \in outbox' <=> Event("settled", k) \in outbox

\* A request leaves the reimbursement of k alone, bills it anew, settles it by
\* hand, or removes it with the list.
RequestOn(k) ==
    \/ reimb'[k] = reimb[k] /\ SameNews(k)
    \/ /\ reimb[k].status # "settled" /\ reimb'[k].status = "pending"
       /\ reimb'[k].contract = reimb[k].contract
       /\ Exists' /\ reimb'[k].tip = list'.tip
       /\ SameNews(k)
    \/ /\ reimb[k].status = "pending" /\ reimb[k].contract = None
       /\ reimb'[k].status = "settled" /\ reimb'[k].contract = None
       /\ reimb'[k].tip = reimb[k].tip
       /\ Event("settled", k) \in outbox'
    \/ list'.status = "deleted" /\ reimb'[k] = NoReimb

\* A deleted list takes no requests, and a tip is one a request may set.
RequestOnList ==
    /\ list.status # "deleted"
    /\ Exists' => list'.tip \in Tips \/ (Exists /\ list'.tip = list.tip)

\* An upsert bills key k anew and leaves the others alone.
LEMMA UpsertRow ==
    ASSUME TypeOK, NEW k \in Keys, NEW ff, reimb' = Upsert(k, ff), Unsettled(k),
           UNCHANGED <<list, outbox>>, Exists
    PROVE  \A k2 \in Keys : RequestOn(k2)
<1>1. reimb' = [reimb EXCEPT ![k] = [status |-> "pending", subtotal |-> LiveFor(ff, k),
                               tip |-> list.tip, contract |-> @.contract]]
    BY DEF Upsert, Unsettled
<1>2. /\ reimb'[k].status = "pending" /\ reimb'[k].contract = reimb[k].contract
      /\ reimb'[k].tip = list'.tip
      /\ \A k2 \in Keys \ {k} : reimb'[k2] = reimb[k2]
    BY <1>1 DEF TypeOK
<1> QED
    BY <1>2 DEF RequestOn, SameNews, Unsettled, Exists

\* What an API request of the list does to the rows of reimbursements and to the news.
LEMMA RequestRows ==
    ASSUME ListInv, Next PROVE RequestOnList /\ \A k \in Keys : RequestOn(k)
<1> USE DEF ListInv
<1>1. ASSUME reimb' = reimb, NEW kind \in {"created", "claimed", "delivered"}, NEW r,
             outbox' = outbox \cup {Event(kind, r)}
      PROVE  \A k \in Keys : RequestOn(k)
    <2>1. \A k : Event("settled", k) # Event(kind, r)
        BY EventsDiffer
    <2> QED
        BY <1>1, <2>1 DEF RequestOn, SameNews
<1>2. ASSUME reimb' = reimb, outbox' = outbox PROVE \A k \in Keys : RequestOn(k)
    BY <1>2 DEF RequestOn, SameNews
<1>3. ASSUME list' = list, Exists PROVE RequestOnList
    BY <1>3 DEF RequestOnList, Exists
<1>4. ASSUME NEW u \in Users, ListRequest(u)
      PROVE  RequestOnList /\ \A k \in Keys : RequestOn(k)
    <2>1. ASSUME NEW S \in SUBSET Items, NEW q \in Requested, NEW t \in Tips, Create(u, S, q, t)
          PROVE  RequestOnList /\ \A k \in Keys : RequestOn(k)
        <3>1. /\ list.status = "absent" /\ reimb' = reimb /\ list'.tip = t
              /\ outbox' = outbox \cup {Event("created", None)}
            BY <2>1 DEF Create
        <3>3. \A k \in Keys : RequestOn(k)
            BY <3>1, <1>1
        <3> QED
            BY <3>1, <3>3 DEF RequestOnList
    <2>2. ASSUME NEW s \in {"open", "closed", "archived"}, PatchList(u, s)
          PROVE  RequestOnList /\ \A k \in Keys : RequestOn(k)
        BY <2>2, <1>2 DEF PatchList, RequestOnList, Exists, TypeOK, ListRow
    <2>3. ASSUME NEW p \in Corps \cup {None}, PatchListPayer(u, p)
          PROVE  RequestOnList /\ \A k \in Keys : RequestOn(k)
        BY <2>3, <1>2 DEF PatchListPayer, SetPayer, RequestOnList, Exists, TypeOK, ListRow
    <2>4. ASSUME DeleteList(u) PROVE RequestOnList /\ \A k \in Keys : RequestOn(k)
        BY <2>4 DEF DeleteList, RequestOnList, RequestOn, Exists, TypeOK, ListRow
    <2>5. ASSUME NEW t \in Tips, SetListTip(u, t)
          PROVE  RequestOnList /\ \A k \in Keys : RequestOn(k)
        <3>1. /\ Exists /\ list' = [list EXCEPT !.tip = t] /\ outbox' = outbox
              /\ \A k \in Keys : reimb'[k] = IF reimb[k].status = "pending"
                                             THEN [reimb[k] EXCEPT !.tip = t] ELSE reimb[k]
            BY <2>5 DEF SetListTip, SetListTipLocked
        <3>2. list'.tip = t /\ list'.status = list.status
            BY <3>1 DEF TypeOK, ListRow
        <3>3. ASSUME NEW k \in Keys PROVE RequestOn(k)
            <4>1. reimb[k] \in ReimbRow
                BY DEF TypeOK
            <4>2. CASE reimb[k].status = "pending"
                <5>1. /\ reimb'[k].status = "pending" /\ reimb'[k].tip = t
                      /\ reimb'[k].contract = reimb[k].contract
                    BY <3>1, <4>1, <4>2 DEF ReimbRow
                <5> QED
                    BY <3>1, <3>2, <4>2, <5>1 DEF RequestOn, SameNews, Exists
            <4>3. CASE reimb[k].status # "pending"
                BY <3>1, <4>3 DEF RequestOn, SameNews
            <4> QED
                BY <4>2, <4>3
        <3> QED
            BY <3>1, <3>2, <3>3 DEF RequestOnList, Exists
    <2> QED
        BY <1>4, <2>1, <2>2, <2>3, <2>4, <2>5 DEF ListRequest
<1>5. ASSUME NEW u \in Users, ItemRequest(u)
      PROVE  RequestOnList /\ \A k \in Keys : RequestOn(k)
    <2>1. ASSUME NEW i \in Items, MarkDelivered(u, i)
          PROVE  RequestOnList /\ \A k \in Keys : RequestOn(k)
        <3>1. outbox' = outbox \/ outbox' = outbox \cup {Event("delivered", None)}
            BY <2>1 DEF MarkDelivered, MarkDeliveredLocked
        <3>3. list' = list /\ reimb' = reimb /\ Exists
            BY <2>1 DEF MarkDelivered, MarkDeliveredLocked
        <3> QED
            BY <3>1, <3>3, <1>1, <1>2, <1>3
    <2> QED
        BY <1>5, <2>1, <1>2, <1>3
           DEF ItemRequest, AddItems, AddItemsLocked, PatchItem, PatchItemLocked,
               DeleteItem, DeleteItemLocked
<1>6. ASSUME NEW u \in Users, ClaimRequest(u)
      PROVE  RequestOnList /\ \A k \in Keys : RequestOn(k)
    <2>1. ASSUME NEW c \in Claims, NEW S \in SUBSET Items, CreateClaim(u, c, S)
          PROVE  RequestOnList /\ \A k \in Keys : RequestOn(k)
        <3>1. list' = list /\ reimb' = reimb /\ Exists
              /\ outbox' = outbox \cup {Event("claimed", c)}
            BY <2>1 DEF CreateClaim, CreateClaimLocked
        <3>3. \A k \in Keys : RequestOn(k)
            BY <3>1, <1>1
        <3> QED
            BY <3>1, <3>3, <1>3
    <2> QED
        BY <1>6, <2>1, <1>2, <1>3
           DEF ClaimRequest, AddClaimItems, AddClaimItemsLocked, RemoveClaimItem,
               RemoveClaimItemLocked, ReleaseClaim, ReleaseClaimLocked
<1>7. ASSUME NEW u \in Users, NEW i \in Items, NEW q \in 1 .. MaxQty, NEW f \in Fulfillments,
             RecordFulfillment(u, i, q, f)
      PROVE  RequestOnList /\ \A k \in Keys : RequestOn(k)
    <2> DEFINE k == <<RequesterPrincipal(items[i].requester), u>>
    <2>1. /\ Exists /\ i \in Existing /\ Unsettled(k) /\ list' = list /\ outbox' = outbox
          /\ reimb' = Upsert(k, fulfillments')
        BY <1>7 DEF RecordFulfillment, RecordFulfillmentLocked
    <2>2. k \in Keys
        BY <2>1 DEF MoneyInv, RefersToRows, Existing, RequesterPrincipal, TypeOK, ListRow,
                    Keys, Principals
    <2> HIDE DEF k
    <2> QED
        BY <2>1, <2>2, <1>3, UpsertRow
<1>8. ASSUME NEW u \in Users, NEW f \in Fulfillments, ReverseFulfillment(u, f)
      PROVE  RequestOnList /\ \A k \in Keys : RequestOn(k)
    <2>1. /\ IsMutable /\ fulfillments[f].state = "live" /\ Unsettled(KeyOf(f))
          /\ list' = list /\ outbox' = outbox /\ reimb' = Upsert(KeyOf(f), fulfillments')
        BY <1>8 DEF ReverseFulfillment, KeyOf
    <2>2. KeyOf(f) \in Keys
        BY <2>1, BilledOnce DEF MoneyInv, BillableKeys
    <2>3. Exists
        BY <2>1 DEF IsMutable, Exists
    <2> QED
        BY <2>1, <2>2, <2>3, <1>3, UpsertRow
<1>9. ASSUME NEW u \in Users, NEW k \in Keys, SettleReimbursement(u, k)
      PROVE  RequestOnList /\ \A k2 \in Keys : RequestOn(k2)
    <2>1. /\ Exists /\ reimb[k].status = "pending" /\ reimb[k].contract = None
          /\ reimb' = [reimb EXCEPT ![k].status = "settled"]
          /\ list' = AutoClose(items')
          /\ outbox' = outbox \cup {Event("settled", k)}
        BY <1>9 DEF SettleReimbursement
    <2>2. /\ reimb'[k].status = "settled" /\ reimb'[k].contract = None
          /\ reimb'[k].tip = reimb[k].tip
          /\ \A k2 \in Keys \ {k} : reimb'[k2] = reimb[k2]
        BY <2>1 DEF TypeOK, ReimbRow
    <2>3. RequestOnList
        BY <2>1, AutoCloses DEF RequestOnList, Exists
    <2>4. \A k2 \in Keys \ {k} : SameNews(k2)
        BY <2>1, EventsDiffer DEF SameNews
    <2> QED
        BY <2>1, <2>2, <2>3, <2>4 DEF RequestOn
<1> QED
    BY <1>4, <1>5, <1>6, <1>7, <1>8, <1>9 DEF Next, MoneyRequest

-----------------------------------------------------------------------------
(* The inductive invariant.  BoundIsConfirmed alone is not inductive: the   *)
(* contract that a poll or a suggestion names must be known to be a row of   *)
(* the table, and the totals a link computes to be totals.                   *)

ContractRow == [status : Statuses \cup {"unknown"}, synced : BOOLEAN,
                expected : Totals, delta : Totals \cup {None}]
PollerRow == [phase : {"idle", "fetched", "upserted", "synced", "scored", "matched"},
              contract : Contracts \cup {None}, status : Statuses \cup {"unknown"},
              changed : BOOLEAN, match : BOOLEAN]

\* The tip of a list and of its reimbursements is one a request set.
TipsInv ==
    /\ Exists => list.tip \in Tips
    /\ \A k \in Keys : reimb[k].status # "absent" => reimb[k].tip \in Tips

\* What a poll has reached it has fetched, and what it has upserted is a row.  Only
\* an upsert can have seen a status change.
PollersInv ==
    \A p \in Pollers :
        /\ pollers[p].phase # "idle" => /\ pollers[p].contract \in Contracts
                                        /\ pollers[p].status # "unknown"
        /\ pollers[p].phase \in {"idle", "fetched"} => ~pollers[p].changed
        /\ pollers[p].phase \notin {"idle", "fetched"}
                => contracts[pollers[p].contract].status # "unknown"

\* A suggestion names a contract that is a row.
SuggestionsInv ==
    \A s \in Pairs : suggestions[s] # "none" => contracts[s[1]].status # "unknown"

SettleInv == /\ ListInv /\ ContractTypeOK /\ TipsInv
             /\ PollersInv /\ SuggestionsInv /\ BoundIsConfirmed /\ SettlementsAnnounced

\* The fields of the row of poller p after a step; everybody else's is unchanged.
PollerGoes(p, phase, c, s, changed) ==
    /\ pollers' \in [Pollers -> PollerRow]
    /\ \A q \in Pollers \ {p} : pollers'[q] = pollers[q]
    /\ pollers'[p].phase = phase /\ pollers'[p].contract = c
    /\ pollers'[p].status = s /\ pollers'[p].changed = changed

\* The steps of a poll, each from the phase before it.
LEMMA PollRows ==
    ASSUME ContractTypeOK, NEW p \in Pollers
    PROVE  LET r == pollers[p] IN
           /\ \A c \in Contracts : Fetch(p, c) => PollerGoes(p, "fetched", c, esi[c], FALSE)
           /\ UpsertContract(p) =>
                PollerGoes(p, "upserted", r.contract, r.status,
                           contracts[r.contract].status # r.status)
           /\ SyncItems(p) => PollerGoes(p, "synced", r.contract, r.status, r.changed)
           /\ MatchRead(p) => PollerGoes(p, "scored", r.contract, r.status, r.changed)
           /\ MatchInsert(p) => PollerGoes(p, "matched", r.contract, r.status, r.changed)
           /\ (Terminal(p) \/ Abandon(p)) => PollerGoes(p, "idle", None, "unknown", FALSE)
<1> DEFINE r == pollers[p]
<1>1. pollers \in [Pollers -> PollerRow] /\ r \in PollerRow
    BY DEF ContractTypeOK, PollerRow
<1>2. ASSUME NEW v \in PollerRow, pollers' = [pollers EXCEPT ![p] = v]
      PROVE  PollerGoes(p, v.phase, v.contract, v.status, v.changed)
    BY <1>1, <1>2 DEF PollerGoes
<1>3. IdlePoller \in PollerRow
    BY DEF IdlePoller, PollerRow
<1>4. ASSUME NEW c \in Contracts, Fetch(p, c)
      PROVE  PollerGoes(p, "fetched", c, esi[c], FALSE)
    <2> DEFINE v == [IdlePoller EXCEPT !.phase = "fetched", !.contract = c, !.status = esi[c]]
    <2>1. esi[c] \in Statuses \cup {"unknown"}
        BY DEF ContractTypeOK
    <2>2. v \in PollerRow /\ v.phase = "fetched" /\ v.contract = c /\ v.status = esi[c]
          /\ v.changed = FALSE
        BY <2>1 DEF IdlePoller, PollerRow
    <2>3. pollers' = [pollers EXCEPT ![p] = v]
        BY <1>4 DEF Fetch
    <2> HIDE DEF v
    <2> QED
        BY <1>2, <2>2, <2>3
<1>5. ASSUME NEW ph \in {"upserted", "synced", "scored", "matched"}, NEW ch \in BOOLEAN,
             NEW m \in BOOLEAN,
             pollers' = [pollers EXCEPT ![p].phase = ph, ![p].changed = ch, ![p].match = m]
      PROVE  PollerGoes(p, ph, r.contract, r.status, ch)
    <2> DEFINE v == [[[r EXCEPT !.phase = ph] EXCEPT !.changed = ch] EXCEPT !.match = m]
    <2>1. /\ v \in PollerRow /\ v.phase = ph /\ v.contract = r.contract
          /\ v.status = r.status /\ v.changed = ch
        BY <1>1 DEF PollerRow
    <2>2. pollers' = [pollers EXCEPT ![p] = v]
        BY <1>1, <1>5
    <2> HIDE DEF v, r
    <2> QED
        BY <1>2, <2>1, <2>2
<1>6. r.changed \in BOOLEAN /\ r.match \in BOOLEAN
    BY <1>1 DEF PollerRow
<1>7. ASSUME UpsertContract(p)
      PROVE  PollerGoes(p, "upserted", r.contract, r.status,
                        contracts[r.contract].status # r.status)
    <2> DEFINE ch == contracts[r.contract].status # r.status
    <2>1. pollers' = [pollers EXCEPT ![p].phase = "upserted", ![p].changed = ch]
        BY <1>7 DEF UpsertContract, StatusChanged
    <2>2. ch \in BOOLEAN
        OBVIOUS
    <2>3. pollers' = [pollers EXCEPT ![p].phase = "upserted", ![p].changed = ch,
                                     ![p].match = r.match]
        <3> HIDE DEF ch
        <3> QED
            BY <1>1, <2>1, <2>2 DEF PollerRow
    <2> HIDE DEF ch, r
    <2>4. PollerGoes(p, "upserted", r.contract, r.status, ch)
        BY <1>5, <1>6, <2>2, <2>3
    <2> QED
        BY <2>4 DEF ch
<1>8. ASSUME NEW ph \in {"synced", "scored", "matched"}, NEW m \in BOOLEAN,
             \/ pollers' = [pollers EXCEPT ![p].phase = ph]
             \/ pollers' = [pollers EXCEPT ![p].phase = ph, ![p].match = m]
      PROVE  PollerGoes(p, ph, r.contract, r.status, r.changed)
    <2> DEFINE v == [r EXCEPT !.phase = ph]
               w == [[r EXCEPT !.phase = ph] EXCEPT !.match = m]
    <2>1. /\ v \in PollerRow /\ v.phase = ph /\ v.contract = r.contract
          /\ v.status = r.status /\ v.changed = r.changed
        BY <1>1 DEF PollerRow
    <2>2. /\ w \in PollerRow /\ w.phase = ph /\ w.contract = r.contract
          /\ w.status = r.status /\ w.changed = r.changed
        BY <1>1 DEF PollerRow
    <2>3. pollers' = [pollers EXCEPT ![p] = v] \/ pollers' = [pollers EXCEPT ![p] = w]
        BY <1>1, <1>8
    <2> HIDE DEF v, w, r
    <2> QED
        BY <1>2, <2>1, <2>2, <2>3
<1>9. ASSUME SyncItems(p) PROVE PollerGoes(p, "synced", r.contract, r.status, r.changed)
    <2>1. pollers' = [pollers EXCEPT ![p].phase = "synced"]
        BY <1>9 DEF SyncItems
    <2> QED
        BY <1>8, <2>1
<1>10. ASSUME MatchRead(p) PROVE PollerGoes(p, "scored", r.contract, r.status, r.changed)
    <2>1. \E m \in BOOLEAN : pollers' = [pollers EXCEPT ![p].phase = "scored", ![p].match = m]
        <3>1. Eligible(pollers[p].contract) \in BOOLEAN
            BY DEF Eligible
        <3> QED
            BY <1>10, <3>1 DEF MatchRead
    <2> QED
        BY <1>8, <2>1
<1>11. ASSUME MatchInsert(p) PROVE PollerGoes(p, "matched", r.contract, r.status, r.changed)
    <2>1. pollers' = [pollers EXCEPT ![p].phase = "matched", ![p].match = FALSE]
        BY <1>11 DEF MatchInsert
    <2> QED
        BY <1>8, <2>1
<1>12. ASSUME Terminal(p) \/ Abandon(p) PROVE PollerGoes(p, "idle", None, "unknown", FALSE)
    <2>1. pollers' = [pollers EXCEPT ![p] = IdlePoller]
        BY <1>12 DEF Terminal, Abandon
    <2> QED
        BY <1>2, <1>3, <2>1 DEF IdlePoller
<1> QED
    BY <1>4, <1>7, <1>9, <1>10, <1>11, <1>12

\* A step writes the row of contract c, whose status becomes s.
ContractGoes(c, s) ==
    /\ contracts' \in [Contracts -> ContractRow]
    /\ contracts'[c].status = s
    /\ \A d \in Contracts \ {c} : contracts'[d] = contracts[d]

\* upsert_contract writes the status of one contract.
LEMMA StatusWritten ==
    ASSUME ContractTypeOK, NEW c \in Contracts, NEW s \in Statuses \cup {"unknown"},
           contracts' = [contracts EXCEPT ![c].status = s]
    PROVE  ContractGoes(c, s)
<1> DEFINE v == [contracts[c] EXCEPT !.status = s]
<1>1. contracts \in [Contracts -> ContractRow]
    BY DEF ContractTypeOK, ContractRow
<1>2. v \in ContractRow /\ v.status = s
    BY <1>1 DEF ContractRow
<1>3. contracts' = [contracts EXCEPT ![c] = v]
    OBVIOUS
<1> HIDE DEF v
<1> QED
    BY <1>1, <1>2, <1>3 DEF ContractGoes

\* The items of one contract have been fetched.
LEMMA SyncWritten ==
    ASSUME ContractTypeOK, NEW c \in Contracts, NEW ok \in BOOLEAN,
           contracts' = [contracts EXCEPT ![c].synced = @ \/ ok]
    PROVE  ContractGoes(c, contracts[c].status)
<1>1. contracts \in [Contracts -> ContractRow] /\ contracts[c].synced \in BOOLEAN
    BY DEF ContractTypeOK, ContractRow
<1> DEFINE b == contracts[c].synced \/ ok
           v == [contracts[c] EXCEPT !.synced = b]
<1>2. b \in BOOLEAN
    BY <1>1
<1>3. contracts' = [contracts EXCEPT ![c] = v]
    BY <1>1
<1>4. v \in ContractRow /\ v.status = contracts[c].status
    <2> HIDE DEF b
    <2> QED
        BY <1>1, <1>2 DEF ContractRow
<1> HIDE DEF v, b
<1> QED
    BY <1>1, <1>3, <1>4 DEF ContractGoes

\* refresh_expected_total writes the cached total of one contract.
LEMMA TotalWritten ==
    ASSUME ContractTypeOK, NEW c \in Contracts, NEW exp \in Totals,
           contracts' = [contracts EXCEPT ![c].expected = exp]
    PROVE  ContractGoes(c, contracts[c].status)
<1> DEFINE v == [contracts[c] EXCEPT !.expected = exp]
<1>1. contracts \in [Contracts -> ContractRow]
    BY DEF ContractTypeOK, ContractRow
<1>2. v \in ContractRow /\ v.status = contracts[c].status
    BY <1>1 DEF ContractRow
<1>3. contracts' = [contracts EXCEPT ![c] = v]
    OBVIOUS
<1> HIDE DEF v
<1> QED
    BY <1>1, <1>2, <1>3 DEF ContractGoes

\* settle_via_contract writes the total and the difference of one contract.
LEMMA SettlementWritten ==
    ASSUME ContractTypeOK, NEW c \in Contracts, NEW exp \in Totals, NEW rr,
           SettleViaContract(c, rr, exp)
    PROVE  ContractGoes(c, contracts[c].status)
<1>1. contracts \in [Contracts -> ContractRow] /\ contracts[c].delta \in Totals \cup {None}
    BY DEF ContractTypeOK, ContractRow
<1>2. PICK delta \in Totals \cup {None} :
            contracts' = [contracts EXCEPT ![c].expected = exp, ![c].delta = delta]
    <2> DEFINE some == {k \in BoundIn(rr, c) : rr[k].status = "pending"}
               d == IF some = {} THEN contracts[c].delta ELSE IF exp = {} THEN None ELSE exp
    <2>1. contracts' = [contracts EXCEPT ![c].expected = exp,
                ![c].delta = IF some = {} THEN @ ELSE IF exp = {} THEN None ELSE exp]
        BY DEF SettleViaContract
    <2>2. d \in Totals \cup {None}
        BY <1>1
    <2> HIDE DEF some
    <2>3. contracts' = [contracts EXCEPT ![c].expected = exp, ![c].delta = d]
        BY <1>1, <2>1 DEF ContractRow
    <2> HIDE DEF d
    <2> QED
        BY <2>2, <2>3
<1> DEFINE v == [[contracts[c] EXCEPT !.expected = exp] EXCEPT !.delta = delta]
<1>3. v \in ContractRow /\ v.status = contracts[c].status
    BY <1>1 DEF ContractRow
<1>4. contracts' = [contracts EXCEPT ![c] = v]
    BY <1>1, <1>2
<1> HIDE DEF v
<1> QED
    BY <1>1, <1>3, <1>4 DEF ContractGoes

\* The total of what is bound to a contract is a total.
LEMMA TotalType ==
    ASSUME ListInv, TipsInv, NEW c \in Contracts, NEW rr \in [Keys -> ReimbRow],
           \A k \in Keys : /\ rr[k].tip = reimb[k].tip
                           /\ reimb[k].status = "absent" => rr[k] = reimb[k]
    PROVE  ExpectedTotal(rr, c) \in Totals
<1> SUFFICES ASSUME NEW k \in Keys, rr[k].contract = c
             PROVE  rr[k].subtotal \in SUBSET Fulfillments /\ rr[k].tip \in Tips
    BY DEF ExpectedTotal, Totals, BoundIn
<1>1. reimb[k].status # "absent"
    BY ListAssumption DEF ListInv, MoneyInv, BillsNothingElse, NoReimb
<1> QED
    BY <1>1 DEF TipsInv, ReimbRow

-----------------------------------------------------------------------------
(* Every step keeps the invariant.                                         *)

\* Contracts that are rows stay rows.
KeepsContracts ==
    /\ contracts' \in [Contracts -> ContractRow]
    /\ \A c \in Contracts : contracts[c].status # "unknown" => contracts'[c].status # "unknown"

\* A step that writes one contract keeps what is known of all.
LEMMA GoesKeeps ==
    ASSUME NEW c \in Contracts, NEW s, ContractGoes(c, s), contracts[c].status # "unknown" => s # "unknown"
    PROVE  KeepsContracts
BY DEF ContractGoes, KeepsContracts

\* A step of poller p that keeps the rows of contracts keeps what is known of polls.
LEMMA PollKeeps ==
    ASSUME SettleInv, KeepsContracts, NEW p \in Pollers, NEW phase, NEW c, NEW s, NEW changed,
           PollerGoes(p, phase, c, s, changed),
           phase # "idle" => c \in Contracts /\ s # "unknown",
           phase \in {"idle", "fetched"} => ~changed,
           phase \notin {"idle", "fetched"} => contracts'[c].status # "unknown"
    PROVE  PollersInv'
<1> SUFFICES ASSUME NEW q \in Pollers
             PROVE  /\ pollers'[q].phase # "idle" => /\ pollers'[q].contract \in Contracts
                                                     /\ pollers'[q].status # "unknown"
                    /\ pollers'[q].phase \in {"idle", "fetched"} => ~pollers'[q].changed
                    /\ pollers'[q].phase \notin {"idle", "fetched"}
                        => contracts'[pollers'[q].contract].status # "unknown"
    BY DEF PollersInv
<1>1. CASE q = p
    BY <1>1 DEF PollerGoes
<1>2. CASE q # p
    <2>1. pollers'[q] = pollers[q]
        BY <1>2 DEF PollerGoes
    <2> QED
        BY <2>1 DEF SettleInv, PollersInv, KeepsContracts
<1> QED
    BY <1>1, <1>2

\* A step that leaves the list's tables alone and confirms nothing.
LEMMA QuietKeeps ==
    ASSUME SettleInv, UNCHANGED vars, KeepsContracts, PollersInv',
           esi' \in [Contracts -> Statuses \cup {"unknown"}],
           pollers' \in [Pollers -> PollerRow],
           suggestions' \in [Pairs -> {"none", "pending", "confirmed", "rejected", "superseded"}],
           \A s \in Pairs :
              /\ suggestions'[s] = "confirmed" <=> suggestions[s] = "confirmed"
              /\ suggestions'[s] # "none" => \/ suggestions[s] # "none"
                                             \/ contracts'[s[1]].status # "unknown"
    PROVE  SettleInv'
<1>1. ListInv'
    BY RequestStep DEF SettleInv
<1>2. ContractTypeOK'
    BY <1>1 DEF ListInv, ContractTypeOK, KeepsContracts, ContractRow, PollerRow
<1>3. TipsInv'
    BY DEF SettleInv, TipsInv, Exists, vars
<1>4. SuggestionsInv'
    BY DEF SettleInv, SuggestionsInv, KeepsContracts, Pairs
<1>5. SettlementsAnnounced'
    BY DEF SettleInv, SettlementsAnnounced, vars
<1>6. BoundIsConfirmed'
    <2>1. reimb' = reimb /\ \A k \in Keys : reimb[k].contract \in Contracts \cup {None}
        BY DEF vars, SettleInv, ListInv, TypeOK, ReimbRow
    <2> QED
        BY <2>1 DEF SettleInv, BoundIsConfirmed, KeepsContracts, Pairs
<1> QED
    BY <1>1, <1>2, <1>3, <1>4, <1>5, <1>6 DEF SettleInv

\* Requests on the list.
LEMMA RequestKeeps ==
    ASSUME SettleInv, ListStep PROVE SettleInv'
<1>1. /\ Next /\ UNCHANGED <<esi, contracts, pollers>>
      /\ suggestions' = [s \in Pairs |-> IF reimb'[s[2]].status = "absent" THEN "none"
                                         ELSE suggestions[s]]
    BY DEF ListStep
<1>2. ListInv'
    BY <1>1, RequestStep DEF SettleInv
<1>3. RequestOnList /\ \A k \in Keys : RequestOn(k)
    BY <1>1, RequestRows DEF SettleInv
<1>4. ContractTypeOK'
    <2>1. suggestions' \in [Pairs -> {"none", "pending", "confirmed", "rejected", "superseded"}]
        BY <1>1 DEF SettleInv, ContractTypeOK
    <2> QED
        BY <1>1, <1>2, <2>1 DEF SettleInv, ContractTypeOK, ListInv
<1>5. TipsInv'
    <2>1. Exists' => list'.tip \in Tips
        BY <1>3 DEF RequestOnList, SettleInv, TipsInv
    <2>2. ASSUME NEW k \in Keys, reimb'[k].status # "absent" PROVE reimb'[k].tip \in Tips
        BY <1>3, <2>1, <2>2 DEF RequestOn, SettleInv, TipsInv, NoReimb
    <2> QED
        BY <2>1, <2>2 DEF TipsInv
<1>6. PollersInv'
    BY <1>1 DEF SettleInv, PollersInv
<1>7. SuggestionsInv'
    BY <1>1 DEF SettleInv, SuggestionsInv
<1>8. SettlementsAnnounced'
    <2> SUFFICES ASSUME list'.status # "deleted", NEW k \in Keys
                 PROVE  reimb'[k].status = "settled" <=> Event("settled", k) \in outbox'
        BY DEF SettlementsAnnounced
    <2>1. list.status # "deleted"
        BY <1>3 DEF RequestOnList
    <2> QED
        BY <1>3, <2>1 DEF RequestOn, SameNews, SettleInv, SettlementsAnnounced
<1>9. BoundIsConfirmed'
    <2> SUFFICES ASSUME NEW k \in Keys, reimb'[k].contract # None
                 PROVE  LET c == reimb'[k].contract IN
                        /\ Issuer[c] = k[2] /\ Assignee[c] \in {None, k[1]}
                        /\ contracts[c].status # "unknown"
                        /\ reimb'[k].status = "pending" =>
                            \A d \in Contracts : suggestions'[<<d, k>>] = "confirmed" <=> d = c
        BY <1>1 DEF BoundIsConfirmed
    <2>1. /\ reimb'[k].contract = reimb[k].contract
          /\ reimb'[k].status = "pending" => reimb[k].status # "settled"
          /\ reimb'[k].status = "settled" => reimb[k].status = "settled"
        BY <1>3 DEF RequestOn, NoReimb
    <2>2. reimb[k].status # "absent"
        BY <2>1 DEF SettleInv, ListInv, MoneyInv, BillsNothingElse, NoReimb
    <2>3. reimb'[k].status = "pending" => reimb[k].status = "pending"
        BY <2>1, <2>2 DEF SettleInv, ListInv, TypeOK, ReimbRow
    <2>4. reimb'[k].status = "pending" =>
            \A d \in Contracts : suggestions'[<<d, k>>] = suggestions[<<d, k>>]
        BY <1>1 DEF Pairs
    <2> QED
        BY <2>1, <2>3, <2>4 DEF SettleInv, BoundIsConfirmed
<1> QED
    BY <1>2, <1>4, <1>5, <1>6, <1>7, <1>8, <1>9 DEF SettleInv

\* The steps of a poll before its last.
LEMMA EarlyPollKeeps ==
    ASSUME SettleInv, NEW p \in Pollers,
           \/ \E c \in Contracts : Fetch(p, c)
           \/ UpsertContract(p) \/ SyncItems(p) \/ MatchRead(p) \/ MatchInsert(p) \/ Abandon(p)
    PROVE  SettleInv'
<1> USE DEF SettleInv
<1> DEFINE r == pollers[p]
<1>0. /\ contracts \in [Contracts -> ContractRow] /\ pollers \in [Pollers -> PollerRow]
      /\ esi \in [Contracts -> Statuses \cup {"unknown"}]
      /\ suggestions \in [Pairs -> {"none", "pending", "confirmed", "rejected", "superseded"}]
      /\ r.status \in Statuses \cup {"unknown"}
    BY DEF ContractTypeOK, ContractRow, PollerRow
<1>1. /\ r.phase # "idle" => r.contract \in Contracts /\ r.status # "unknown"
      /\ r.phase \in {"idle", "fetched"} => ~r.changed
      /\ r.phase \notin {"idle", "fetched"} => contracts[r.contract].status # "unknown"
    BY DEF PollersInv
<1>2. ASSUME UNCHANGED contracts PROVE KeepsContracts
    BY <1>0, <1>2 DEF KeepsContracts
<1>3. ASSUME NEW c \in Contracts, Fetch(p, c) PROVE SettleInv'
    <2>1. PollerGoes(p, "fetched", c, esi[c], FALSE) /\ pollers' \in [Pollers -> PollerRow]
        BY <1>3, PollRows DEF PollerGoes
    <2>2. UNCHANGED <<vars, esi, contracts, suggestions>> /\ esi[c] # "unknown"
        BY <1>3 DEF Fetch
    <2>3. PollersInv'
        BY <1>2, <2>1, <2>2, PollKeeps
    <2> QED
        BY <1>0, <1>2, <2>1, <2>2, <2>3, QuietKeeps
<1>4. ASSUME UpsertContract(p) PROVE SettleInv'
    <2>1. /\ PollerGoes(p, "upserted", r.contract, r.status, contracts[r.contract].status # r.status)
          /\ pollers' \in [Pollers -> PollerRow]
        BY <1>4, PollRows DEF PollerGoes
    <2>2. /\ UNCHANGED <<vars, esi, suggestions>> /\ r.phase = "fetched"
          /\ contracts' = [contracts EXCEPT ![r.contract].status = r.status]
        BY <1>4 DEF UpsertContract
    <2>3. ContractGoes(r.contract, r.status)
        BY <1>0, <1>1, <2>2, StatusWritten
    <2>4. KeepsContracts /\ contracts'[r.contract].status # "unknown"
        BY <1>1, <2>2, <2>3, GoesKeeps DEF ContractGoes
    <2>5. PollersInv'
        <3> HIDE DEF r, SettleInv
        <3> QED
            BY <1>1, <2>1, <2>2, <2>4, PollKeeps
    <2> QED
        BY <1>0, <2>1, <2>2, <2>4, <2>5, QuietKeeps
<1>5. ASSUME SyncItems(p) PROVE SettleInv'
    <2>1. PollerGoes(p, "synced", r.contract, r.status, r.changed) /\ pollers' \in [Pollers -> PollerRow]
        BY <1>5, PollRows DEF PollerGoes
    <2>2. /\ UNCHANGED <<vars, esi, suggestions>> /\ r.phase = "upserted"
          /\ \E ok \in BOOLEAN : contracts' = [contracts EXCEPT ![r.contract].synced = @ \/ ok]
        BY <1>5 DEF SyncItems
    <2>3. ContractGoes(r.contract, contracts[r.contract].status)
        BY <1>1, <2>2, SyncWritten
    <2>4. KeepsContracts /\ contracts'[r.contract].status # "unknown"
        BY <1>1, <2>2, <2>3, GoesKeeps DEF ContractGoes
    <2>5. PollersInv'
        <3> HIDE DEF r, SettleInv
        <3> QED
            BY <1>1, <2>1, <2>2, <2>4, PollKeeps
    <2> QED
        BY <1>0, <2>1, <2>2, <2>4, <2>5, QuietKeeps
<1>6. ASSUME MatchRead(p) PROVE SettleInv'
    <2>1. PollerGoes(p, "scored", r.contract, r.status, r.changed) /\ pollers' \in [Pollers -> PollerRow]
        BY <1>6, PollRows DEF PollerGoes
    <2>2. UNCHANGED <<vars, esi, contracts, suggestions>> /\ r.phase = "synced"
        BY <1>6 DEF MatchRead
    <2>5. PollersInv'
        BY <1>1, <1>2, <2>1, <2>2, PollKeeps
    <2> QED
        BY <1>0, <1>2, <2>1, <2>2, <2>5, QuietKeeps
<1>7. ASSUME MatchInsert(p) PROVE SettleInv'
    <2>1. PollerGoes(p, "matched", r.contract, r.status, r.changed) /\ pollers' \in [Pollers -> PollerRow]
        BY <1>7, PollRows DEF PollerGoes
    <2>2. UNCHANGED <<vars, esi, contracts>> /\ r.phase = "scored"
        BY <1>7 DEF MatchInsert
    <2>3. \/ suggestions' = suggestions
          \/ /\ suggestions' = [suggestions EXCEPT ![<<r.contract, MatchKey(r.contract)>>] = "pending"]
             /\ suggestions[<<r.contract, MatchKey(r.contract)>>] = "none"
        BY <1>7 DEF MatchInsert
    <2>4. /\ suggestions' \in [Pairs -> {"none", "pending", "confirmed", "rejected", "superseded"}]
          /\ \A s \in Pairs : \/ suggestions'[s] = suggestions[s]
                              \/ /\ suggestions'[s] = "pending" /\ suggestions[s] = "none"
                                 /\ s[1] = r.contract
        BY <1>0, <2>3
    <2>5. PollersInv'
        BY <1>1, <1>2, <2>1, <2>2, PollKeeps
    <2>6. contracts'[r.contract].status # "unknown"
        BY <1>1, <2>2
    <2> QED
        BY <1>0, <1>2, <2>1, <2>2, <2>4, <2>5, <2>6, QuietKeeps
<1>8. ASSUME Abandon(p) PROVE SettleInv'
    <2>1. PollerGoes(p, "idle", None, "unknown", FALSE) /\ pollers' \in [Pollers -> PollerRow]
        BY <1>8, PollRows DEF PollerGoes
    <2>2. UNCHANGED <<vars, esi, contracts, suggestions>>
        BY <1>8 DEF Abandon
    <2>5. PollersInv'
        BY <1>2, <2>1, <2>2, PollKeeps
    <2> QED
        BY <1>0, <1>2, <2>1, <2>2, <2>5, QuietKeeps
<1> QED
    BY <1>3, <1>4, <1>5, <1>6, <1>7, <1>8

\* A step that settles, binds or unbinds reimbursements.
LEMMA PaidKeeps ==
    ASSUME SettleInv, ListInv', KeepsContracts, PollersInv', BoundIsConfirmed', UNCHANGED esi,
           pollers' \in [Pollers -> PollerRow],
           suggestions' \in [Pairs -> {"none", "pending", "confirmed", "rejected", "superseded"}],
           \A s \in Pairs : suggestions'[s] # "none" => contracts'[s[1]].status # "unknown",
           list'.tip = list.tip,
           list'.status = list.status \/ (list.status = "open" /\ list'.status = "closed"),
           \A k \in Keys :
              /\ reimb'[k].tip = reimb[k].tip
              /\ reimb'[k].status # "absent" => reimb[k].status # "absent"
              /\ \/ /\ reimb'[k].status = "settled" <=> reimb[k].status = "settled"
                    /\ Event("settled", k) \in outbox' <=> Event("settled", k) \in outbox
                 \/ reimb'[k].status = "settled" /\ Event("settled", k) \in outbox'
    PROVE  SettleInv'
<1>1. ContractTypeOK'
    BY DEF SettleInv, ListInv, ContractTypeOK, KeepsContracts, ContractRow, PollerRow
<1>2. TipsInv'
    BY DEF SettleInv, TipsInv, Exists
<1>3. SuggestionsInv'
    BY DEF SuggestionsInv
<1>4. SettlementsAnnounced'
    BY DEF SettleInv, SettlementsAnnounced
<1> QED
    BY <1>1, <1>2, <1>3, <1>4 DEF SettleInv

\* The tables of this module hold rows, and a bound row exists.
LEMMA Rows ==
    ASSUME SettleInv
    PROVE  /\ contracts \in [Contracts -> ContractRow] /\ pollers \in [Pollers -> PollerRow]
           /\ suggestions \in [Pairs -> {"none", "pending", "confirmed", "rejected", "superseded"}]
           /\ reimb \in [Keys -> ReimbRow]
           /\ \A c \in Contracts : contracts[c].expected \in Totals
           /\ \A k \in Keys : reimb[k].contract # None =>
                reimb[k].status # "absent" /\ reimb[k].contract \in Contracts
<1>1. reimb \in [Keys -> ReimbRow] /\ contracts \in [Contracts -> ContractRow]
    BY DEF SettleInv, ListInv, TypeOK, ContractTypeOK, ContractRow
<1>2. \A k \in Keys : reimb[k].contract # None =>
                reimb[k].status # "absent" /\ reimb[k].contract \in Contracts
    BY <1>1 DEF SettleInv, ListInv, MoneyInv, BillsNothingElse, NoReimb, ReimbRow
<1> QED
    BY <1>1, <1>2 DEF SettleInv, ContractTypeOK, ContractRow, PollerRow

\* What the UPDATE of unbind_contract and do_unlink leaves in each row.
LEMMA UnbindRows ==
    ASSUME SettleInv, NEW c \in Contracts, reimb' = Unbind(c)
    PROVE  /\ reimb' \in [Keys -> ReimbRow]
           /\ \A k \in Keys :
                /\ reimb'[k].status = reimb[k].status /\ reimb'[k].tip = reimb[k].tip
                /\ reimb'[k].subtotal = reimb[k].subtotal
                /\ reimb'[k].contract = IF reimb[k].contract = c /\ reimb[k].status = "pending"
                                        THEN None ELSE reimb[k].contract
                /\ reimb[k].status # "pending" => reimb'[k] = reimb[k]
<1>1. ASSUME NEW k \in Keys
      PROVE  /\ reimb'[k] \in ReimbRow
             /\ reimb'[k].status = reimb[k].status /\ reimb'[k].tip = reimb[k].tip
             /\ reimb'[k].subtotal = reimb[k].subtotal
             /\ reimb'[k].contract = IF reimb[k].contract = c /\ reimb[k].status = "pending"
                                     THEN None ELSE reimb[k].contract
             /\ reimb[k].status # "pending" => reimb'[k] = reimb[k]
    <2>1. reimb[k] \in ReimbRow
        BY Rows
    <2>2. reimb'[k] = IF reimb[k].contract = c /\ reimb[k].status = "pending"
                      THEN [reimb[k] EXCEPT !.contract = None] ELSE reimb[k]
        BY DEF Unbind
    <2> QED
        BY <2>1, <2>2 DEF ReimbRow
<1>2. reimb' = [k \in Keys |-> reimb'[k]]
    BY DEF Unbind
<1> QED
    BY <1>1, <1>2

\* A step that changes nothing of the list but what reimbursements are bound to.
LEMMA RebindKeepsList ==
    ASSUME SettleInv, UNCHANGED <<list, items, claims, claimItems, activeItems, fulfillments, outbox>>,
           reimb' \in [Keys -> ReimbRow],
           \A k \in Keys : /\ reimb'[k].status = reimb[k].status /\ reimb'[k].tip = reimb[k].tip
                           /\ reimb'[k].subtotal = reimb[k].subtotal
                           /\ reimb[k].status = "absent" => reimb'[k] = reimb[k]
    PROVE  ListInv'
<1>1. list \in ListRow /\ items \in [Items -> ItemRow] /\ outbox \subseteq Events
    BY DEF SettleInv, ListInv, TypeOK
<1> QED
    BY <1>1, PaymentKeepsList DEF SettleInv

\* A step that binds nothing leaves what is bound confirmed.
LEMMA BoundStays ==
    ASSUME SettleInv, KeepsContracts,
           \A k \in Keys : reimb'[k].contract # None =>
              /\ reimb'[k].contract = reimb[k].contract
              /\ reimb'[k].status = "pending" =>
                    /\ reimb[k].status = "pending"
                    /\ \A d \in Contracts : suggestions'[<<d, k>>] = "confirmed"
                                                <=> suggestions[<<d, k>>] = "confirmed"
    PROVE  BoundIsConfirmed'
<1> SUFFICES ASSUME NEW k \in Keys, reimb'[k].contract # None
             PROVE  LET c == reimb'[k].contract IN
                    /\ Issuer[c] = k[2] /\ Assignee[c] \in {None, k[1]}
                    /\ contracts'[c].status # "unknown"
                    /\ reimb'[k].status = "pending" =>
                        \A d \in Contracts : suggestions'[<<d, k>>] = "confirmed" <=> d = c
    BY DEF BoundIsConfirmed
<1>1. reimb'[k].contract = reimb[k].contract /\ reimb[k].contract \in Contracts
    BY Rows
<1> QED
    BY <1>1 DEF SettleInv, BoundIsConfirmed, KeepsContracts

\* The last step of a poll.
LEMMA TerminalKeeps ==
    ASSUME SettleInv, NEW p \in Pollers, Terminal(p) PROVE SettleInv'
<1> DEFINE c == pollers[p].contract
<1>1. /\ pollers[p].phase = "matched"
      /\ UNCHANGED <<claims, claimItems, activeItems, fulfillments, esi>>
    BY DEF Terminal
<1>2. c \in Contracts /\ contracts[c].status # "unknown"
    BY <1>1 DEF SettleInv, PollersInv
<1>3. PollerGoes(p, "idle", None, "unknown", FALSE) /\ pollers' \in [Pollers -> PollerRow]
    BY PollRows DEF SettleInv, PollerGoes
<1>4. ASSUME KeepsContracts PROVE PollersInv'
    BY <1>3, <1>4, PollKeeps
<1> HIDE DEF c
<1>5. CASE SettleViaContract(c, reimb, contracts[c].expected) /\ UNCHANGED suggestions
    <2>1. KeepsContracts
        BY <1>2, <1>5, Rows, SettlementWritten, GoesKeeps DEF SettleInv
    <2>2. /\ ListInv'
          /\ \A k \in Keys :
                /\ reimb'[k].contract = reimb[k].contract /\ reimb'[k].tip = reimb[k].tip
                /\ reimb'[k].status = IF reimb[k].contract = c /\ reimb[k].status = "pending"
                                      THEN "settled" ELSE reimb[k].status
                /\ Event("settled", k) \in outbox' <=>
                        \/ Event("settled", k) \in outbox
                        \/ reimb[k].contract = c /\ reimb[k].status = "pending"
          /\ list'.tip = list.tip
          /\ \/ list'.status = list.status
             \/ list.status = "open" /\ list'.status = "closed"
        <3>1. ListInv /\ reimb \in [Keys -> ReimbRow]
            BY Rows DEF SettleInv
        <3> QED
            BY <1>1, <1>2, <1>5, <3>1, ViaContract
    <2>3. BoundIsConfirmed'
        BY <1>5, <2>1, <2>2, BoundStays
    <2>4. \A s \in Pairs : suggestions'[s] # "none" => contracts'[s[1]].status # "unknown"
        BY <1>5, <2>1 DEF SettleInv, SuggestionsInv, KeepsContracts, Pairs
    <2> QED
        BY <1>1, <1>3, <1>4, <1>5, <2>1, <2>2, <2>3, <2>4, Rows, PaidKeeps
<1>6. CASE UnbindContract(c)
    <2>1. KeepsContracts
        <3>1. {} \in Totals
            BY DEF Totals
        <3>2. contracts' = [contracts EXCEPT ![c].expected = {}]
            BY <1>6 DEF UnbindContract
        <3> QED
            BY <1>2, <3>1, <3>2, TotalWritten, GoesKeeps DEF SettleInv
    <2>2. /\ reimb' = Unbind(c) /\ UNCHANGED <<items, list, outbox>>
          /\ suggestions' = [s \in Pairs |->
                IF s[1] = c /\ suggestions[s] = "pending" THEN "superseded" ELSE suggestions[s]]
        BY <1>6 DEF UnbindContract
    <2>3. ListInv'
        BY <1>1, <1>2, <2>2, UnbindRows, RebindKeepsList
    <2>4. /\ suggestions' \in [Pairs -> {"none", "pending", "confirmed", "rejected", "superseded"}]
          /\ \A s \in Pairs : /\ suggestions'[s] = "confirmed" <=> suggestions[s] = "confirmed"
                              /\ suggestions'[s] # "none" => suggestions[s] # "none"
        BY <2>2, Rows
    <2>5. BoundIsConfirmed'
        BY <1>2, <2>1, <2>2, <2>4, UnbindRows, BoundStays DEF Pairs
    <2>6. \A s \in Pairs : suggestions'[s] # "none" => contracts'[s[1]].status # "unknown"
        BY <2>1, <2>4 DEF SettleInv, SuggestionsInv, KeepsContracts, Pairs
    <2> QED
        BY <1>1, <1>2, <1>3, <1>4, <2>1, <2>2, <2>3, <2>4, <2>5, <2>6, UnbindRows, PaidKeeps
<1>7. CASE UNCHANGED <<items, list, reimb, outbox, contracts, suggestions>>
    <2>1. UNCHANGED vars /\ KeepsContracts
        BY <1>1, <1>7, Rows DEF vars, KeepsContracts
    <2> QED
        BY <1>1, <1>3, <1>4, <1>7, <2>1, Rows, QuietKeeps DEF SettleInv, ContractTypeOK
<1> QED
    BY <1>5, <1>6, <1>7 DEF Terminal, c

\* The reimbursements after finalize_link has bound k to c.
BoundTo(c, k) == [reimb EXCEPT ![k].contract = c]

\* Binding a contract changes one reimbursement, and of it only the contract.
LEMMA BindRows ==
    ASSUME SettleInv, NEW c \in Contracts, NEW k \in Keys
    PROVE  LET rr == BoundTo(c, k) IN
           /\ rr \in [Keys -> ReimbRow]
           /\ \A k2 \in Keys :
                /\ rr[k2].status = reimb[k2].status /\ rr[k2].tip = reimb[k2].tip
                /\ rr[k2].subtotal = reimb[k2].subtotal
                /\ rr[k2].contract = IF k2 = k THEN c ELSE reimb[k2].contract
                /\ k2 # k => rr[k2] = reimb[k2]
<1> DEFINE v == [reimb[k] EXCEPT !.contract = c]
<1>1. reimb \in [Keys -> ReimbRow]
    BY Rows
<1>2. /\ v \in ReimbRow /\ v.status = reimb[k].status /\ v.tip = reimb[k].tip
      /\ v.subtotal = reimb[k].subtotal /\ v.contract = c
    BY <1>1 DEF ReimbRow
<1>3. BoundTo(c, k) = [reimb EXCEPT ![k] = v]
    BY DEF BoundTo
<1> HIDE DEF v
<1> QED
    BY <1>1, <1>2, <1>3

\* What finalize_link does to each table, whether or not the contract has finished.
Linked(c, k) ==
    /\ ListInv' /\ ContractGoes(c, contracts[c].status)
    /\ \A k2 \in Keys :
         /\ reimb'[k2].tip = reimb[k2].tip
         /\ reimb'[k2].contract = IF k2 = k THEN c ELSE reimb[k2].contract
         /\ reimb'[k2].status =
                 IF /\ contracts[c].status \in Success /\ reimb[k2].status = "pending"
                    /\ k2 = k \/ reimb[k2].contract = c
                 THEN "settled" ELSE reimb[k2].status
         /\ reimb[k2].status = "settled" => reimb'[k2] = reimb[k2]
         /\ \/ reimb'[k2].status = reimb[k2].status /\ SameNews(k2)
            \/ reimb'[k2].status = "settled" /\ Event("settled", k2) \in outbox'
    /\ \A i \in Items : items[i].status = "settled" => items'[i] = items[i]
    /\ list'.tip = list.tip
    /\ \/ list'.status = list.status
       \/ list.status = "open" /\ list'.status = "closed"
    /\ suggestions' = [suggestions EXCEPT ![<<c, k>>] = "confirmed"]
    /\ UNCHANGED <<fulfillments, esi, pollers>>

\* finalize_link, whether or not it settles at once.
LEMMA LinkRows ==
    ASSUME SettleInv, NEW c \in Contracts, NEW k \in Keys,
           reimb[k].status = "pending", FinalizeLink(c, k)
    PROVE  Linked(c, k)
<1> USE DEF Linked
<1> DEFINE rr == BoundTo(c, k)
<1>1. /\ suggestions' = [suggestions EXCEPT ![<<c, k>>] = "confirmed"]
      /\ UNCHANGED <<claims, claimItems, activeItems, fulfillments, esi, pollers>>
      /\ IF contracts[c].status \in Success
         THEN SettleViaContract(c, rr, ExpectedTotal(rr, c))
         ELSE /\ reimb' = rr
              /\ contracts' = [contracts EXCEPT ![c].expected = ExpectedTotal(rr, c)]
              /\ UNCHANGED <<items, list, outbox>>
    BY DEF FinalizeLink, BoundTo
<1>2. /\ rr \in [Keys -> ReimbRow]
      /\ \A k2 \in Keys :
            /\ rr[k2].status = reimb[k2].status /\ rr[k2].tip = reimb[k2].tip
            /\ rr[k2].subtotal = reimb[k2].subtotal
            /\ rr[k2].contract = IF k2 = k THEN c ELSE reimb[k2].contract
            /\ k2 # k => rr[k2] = reimb[k2]
    BY BindRows
<1> HIDE DEF rr
<1>3. ExpectedTotal(rr, c) \in Totals
    BY <1>2, TotalType DEF SettleInv
<1>4. \A k2 \in Keys : reimb[k2].status = "absent" => rr[k2] = reimb[k2]
    BY <1>2
<1>5. CASE contracts[c].status \in Success
    <2>1. SettleViaContract(c, rr, ExpectedTotal(rr, c))
        BY <1>1, <1>5
    <2>2. ContractGoes(c, contracts[c].status)
        BY <1>3, <2>1, SettlementWritten DEF SettleInv
    <2>3. /\ ListInv'
          /\ \A k2 \in Keys :
                /\ reimb'[k2].contract = rr[k2].contract /\ reimb'[k2].tip = reimb[k2].tip
                /\ reimb'[k2].status = IF rr[k2].contract = c /\ reimb[k2].status = "pending"
                                       THEN "settled" ELSE reimb[k2].status
                /\ reimb[k2].status = "settled" => reimb'[k2] = rr[k2]
                /\ Event("settled", k2) \in outbox' <=>
                        \/ Event("settled", k2) \in outbox
                        \/ rr[k2].contract = c /\ reimb[k2].status = "pending"
          /\ \A i \in Items : items[i].status = "settled" => items'[i] = items[i]
          /\ list'.tip = list.tip
          /\ \/ list'.status = list.status
             \/ list.status = "open" /\ list'.status = "closed"
        <3>1. UNCHANGED <<claims, claimItems, activeItems, fulfillments>> /\ ListInv
            BY <1>1 DEF SettleInv
        <3> QED
            BY <1>2, <1>4, <2>1, <3>1, ViaContract
    <2>4. \A k2 \in Keys :
            \/ reimb'[k2].status = reimb[k2].status /\ SameNews(k2)
            \/ reimb'[k2].status = "settled" /\ Event("settled", k2) \in outbox'
        BY <2>3 DEF SameNews
    <2> QED
        BY <1>1, <1>2, <1>5, <2>2, <2>3, <2>4
<1>6. CASE contracts[c].status \notin Success
    <2>1. /\ reimb' = rr /\ UNCHANGED <<items, list, outbox>>
          /\ contracts' = [contracts EXCEPT ![c].expected = ExpectedTotal(rr, c)]
        BY <1>1, <1>6
    <2>2. ContractGoes(c, contracts[c].status)
        BY <1>3, <2>1, TotalWritten DEF SettleInv
    <2>3. ListInv'
        BY <1>1, <1>2, <1>4, <2>1, RebindKeepsList
    <2>4. \A k2 \in Keys : SameNews(k2)
        BY <2>1 DEF SameNews
    <2> QED
        BY <1>1, <1>2, <1>6, <2>1, <2>2, <2>3, <2>4
<1> QED
    BY <1>5, <1>6

\* A link that is allowed keeps the invariant: the index admits no second
\* confirmation of the reimbursement.
LEMMA LinkKeeps ==
    ASSUME SettleInv, NEW u \in Users, NEW c \in Contracts, NEW k \in Keys,
           contracts[c].status # "unknown", ValidLink(u, c, k), NotConfirmedElsewhere(c, k),
           FinalizeLink(c, k)
    PROVE  SettleInv'
<1>1. /\ reimb[k].status = "pending" /\ Issuer[c] = k[2] /\ Assignee[c] \in {None, k[1]}
    BY DEF ValidLink
<1>0. Linked(c, k)
    BY <1>1, LinkRows
<1>2. KeepsContracts
    BY <1>0, GoesKeeps DEF Linked
<1>3. UNCHANGED <<esi, pollers>> /\ PollersInv'
    BY <1>0, <1>2 DEF Linked, SettleInv, PollersInv, KeepsContracts
<1>4. <<c, k>> \in Pairs /\ suggestions' = [suggestions EXCEPT ![<<c, k>>] = "confirmed"]
    BY <1>0 DEF Linked, Pairs
<1>5. /\ suggestions' \in [Pairs -> {"none", "pending", "confirmed", "rejected", "superseded"}]
      /\ \A s \in Pairs : suggestions'[s] = IF s = <<c, k>> THEN "confirmed" ELSE suggestions[s]
    BY <1>4, Rows
<1>6. \A s \in Pairs : suggestions'[s] # "none" => contracts'[s[1]].status # "unknown"
    BY <1>2, <1>5 DEF SettleInv, SuggestionsInv, KeepsContracts, Pairs
<1>7. BoundIsConfirmed'
    <2> SUFFICES ASSUME NEW k2 \in Keys, reimb'[k2].contract # None
                 PROVE  LET b == reimb'[k2].contract IN
                        /\ Issuer[b] = k2[2] /\ Assignee[b] \in {None, k2[1]}
                        /\ contracts'[b].status # "unknown"
                        /\ reimb'[k2].status = "pending" =>
                            \A d \in Contracts : suggestions'[<<d, k2>>] = "confirmed" <=> d = b
        BY DEF BoundIsConfirmed
    <2>1. CASE k2 = k
        <3>1. reimb'[k2].contract = c
            BY <1>0, <2>1 DEF Linked
        <3>2. \A d \in Contracts : suggestions'[<<d, k>>] = "confirmed" <=> d = c
            BY <1>5 DEF Pairs, NotConfirmedElsewhere
        <3> QED
            BY <1>1, <1>2, <2>1, <3>1, <3>2 DEF KeepsContracts
    <2>2. CASE k2 # k
        <3>1. /\ reimb'[k2].contract = reimb[k2].contract
              /\ reimb'[k2].status = "pending" => reimb[k2].status = "pending"
            BY <1>0, <2>2 DEF Linked
        <3>2. \A d \in Contracts : suggestions'[<<d, k2>>] = suggestions[<<d, k2>>]
            BY <1>5, <2>2 DEF Pairs
        <3>3. reimb[k2].contract \in Contracts
            BY <3>1, Rows
        <3> QED
            BY <1>2, <3>1, <3>2, <3>3 DEF SettleInv, BoundIsConfirmed, KeepsContracts
    <2> QED
        BY <2>1, <2>2
<1>8. \A k2 \in Keys :
            /\ reimb'[k2].tip = reimb[k2].tip
            /\ reimb'[k2].status # "absent" => reimb[k2].status # "absent"
            /\ \/ /\ reimb'[k2].status = "settled" <=> reimb[k2].status = "settled"
                  /\ Event("settled", k2) \in outbox' <=> Event("settled", k2) \in outbox
               \/ reimb'[k2].status = "settled" /\ Event("settled", k2) \in outbox'
    BY <1>0 DEF Linked, SameNews
<1>9. /\ ListInv' /\ list'.tip = list.tip
      /\ list'.status = list.status \/ (list.status = "open" /\ list'.status = "closed")
    BY <1>0 DEF Linked
<1>10. pollers' \in [Pollers -> PollerRow]
    BY <1>3, Rows
<1> QED
    BY <1>2, <1>3, <1>5, <1>6, <1>7, <1>8, <1>9, <1>10, PaidKeeps

\* Unlinking takes every reimbursement that is still pending off the contract, and
\* its confirmations back.
LEMMA UnlinkKeeps ==
    ASSUME SettleInv, NEW u \in Users, NEW c \in Contracts, Unlink(u, c)
    PROVE  SettleInv'
<1>1. /\ reimb' = Unbind(c)
      /\ contracts' = [contracts EXCEPT ![c].expected = ExpectedTotal(reimb', c)]
      /\ suggestions' = [s \in Pairs |->
            IF s[1] = c /\ suggestions[s] = "confirmed" THEN "superseded" ELSE suggestions[s]]
      /\ UNCHANGED <<items, list, outbox, claims, claimItems, activeItems, fulfillments,
                     esi, pollers>>
    BY DEF Unlink
<1>2. /\ reimb' \in [Keys -> ReimbRow]
      /\ \A k \in Keys :
            /\ reimb'[k].status = reimb[k].status /\ reimb'[k].tip = reimb[k].tip
            /\ reimb'[k].subtotal = reimb[k].subtotal
            /\ reimb'[k].contract = IF reimb[k].contract = c /\ reimb[k].status = "pending"
                                    THEN None ELSE reimb[k].contract
            /\ reimb[k].status # "pending" => reimb'[k] = reimb[k]
    BY <1>1, UnbindRows
<1>3. ListInv'
    BY <1>1, <1>2, RebindKeepsList
<1>4. KeepsContracts
    <2>1. ExpectedTotal(reimb', c) \in Totals
        BY <1>2, TotalType DEF SettleInv
    <2> QED
        BY <1>1, <2>1, TotalWritten, GoesKeeps DEF SettleInv
<1>5. PollersInv' /\ pollers' \in [Pollers -> PollerRow]
    BY <1>1, <1>4, Rows DEF SettleInv, PollersInv, KeepsContracts
<1>6. /\ suggestions' \in [Pairs -> {"none", "pending", "confirmed", "rejected", "superseded"}]
      /\ \A s \in Pairs : /\ suggestions'[s] = IF s[1] = c /\ suggestions[s] = "confirmed"
                                               THEN "superseded" ELSE suggestions[s]
                          /\ suggestions'[s] # "none" => suggestions[s] # "none"
    BY <1>1, Rows
<1>7. \A s \in Pairs : suggestions'[s] # "none" => contracts'[s[1]].status # "unknown"
    BY <1>4, <1>6 DEF SettleInv, SuggestionsInv, KeepsContracts, Pairs
<1>8. BoundIsConfirmed'
    <2>1. ASSUME NEW k \in Keys, reimb'[k].contract # None, reimb'[k].status = "pending",
                 NEW d \in Contracts
          PROVE  suggestions'[<<d, k>>] = "confirmed" <=> suggestions[<<d, k>>] = "confirmed"
        <3>1. reimb[k].contract # None /\ reimb[k].contract # c /\ reimb[k].status = "pending"
            BY <1>2, <2>1
        <3>2. suggestions[<<c, k>>] # "confirmed"
            BY <3>1 DEF SettleInv, BoundIsConfirmed
        <3>3. <<d, k>> \in Pairs
            BY DEF Pairs
        <3> QED
            BY <1>6, <3>2, <3>3
    <2> QED
        BY <1>2, <1>4, <2>1, BoundStays
<1> QED
    BY <1>1, <1>2, <1>3, <1>4, <1>5, <1>6, <1>7, <1>8, PaidKeeps

\* Rejecting a suggestion, and what happens in EVE, bind and confirm nothing.
LEMMA RejectKeeps ==
    ASSUME SettleInv, NEW u \in Users, NEW c \in Contracts, NEW k \in Keys, Reject(u, c, k)
    PROVE  SettleInv'
<1>1. /\ UNCHANGED <<vars, esi, contracts, pollers>> /\ suggestions[<<c, k>>] = "pending"
      /\ suggestions' = [suggestions EXCEPT ![<<c, k>>] = "rejected"]
    BY DEF Reject
<1>2. KeepsContracts /\ PollersInv' /\ pollers' \in [Pollers -> PollerRow]
      /\ esi' \in [Contracts -> Statuses \cup {"unknown"}]
    BY <1>1, Rows DEF KeepsContracts, SettleInv, PollersInv, ContractTypeOK
<1>3. /\ suggestions' \in [Pairs -> {"none", "pending", "confirmed", "rejected", "superseded"}]
      /\ \A s \in Pairs : /\ suggestions'[s] = "confirmed" <=> suggestions[s] = "confirmed"
                          /\ suggestions'[s] # "none" => suggestions[s] # "none"
    BY <1>1, Rows
<1> QED
    BY <1>1, <1>2, <1>3, QuietKeeps

\* The game changes the status of a contract.
LEMMA EsiKeeps ==
    ASSUME SettleInv, NEW c \in Contracts, NEW s \in Statuses, EsiAdvance(c, s)
    PROVE  SettleInv'
<1>1. /\ UNCHANGED <<vars, contracts, suggestions, pollers>> /\ esi' = [esi EXCEPT ![c] = s]
    BY DEF EsiAdvance
<1>2. esi' \in [Contracts -> Statuses \cup {"unknown"}]
    BY <1>1 DEF SettleInv, ContractTypeOK
<1>3. KeepsContracts /\ PollersInv' /\ pollers' \in [Pollers -> PollerRow]
      /\ suggestions' \in [Pairs -> {"none", "pending", "confirmed", "rejected", "superseded"}]
    BY <1>1, Rows DEF KeepsContracts, SettleInv, PollersInv
<1> QED
    BY <1>1, <1>2, <1>3, QuietKeeps

\* Every step of requests, polls, links and crashes keeps the invariant.
LEMMA SettleStep == SettleInv /\ [ContractNext]_allVars => SettleInv'
<1> SUFFICES ASSUME SettleInv, [ContractNext]_allVars PROVE SettleInv'
    OBVIOUS
<1>1. ASSUME NEW p \in Pollers, Poll(p) \/ Abandon(p) PROVE SettleInv'
    BY <1>1, EarlyPollKeeps, TerminalKeeps DEF Poll
<1>2. ASSUME NEW u \in Users, LinkRequest(u) PROVE SettleInv'
    <2>1. ASSUME NEW c \in Contracts, NEW k \in Keys, Confirm(u, c, k) PROVE SettleInv'
        <3>1. /\ suggestions[<<c, k>>] = "pending" /\ ValidLink(u, c, k)
              /\ NotConfirmedElsewhere(c, k) /\ FinalizeLink(c, k)
            BY <2>1 DEF Confirm
        <3>2. contracts[c].status # "unknown"
            BY <3>1 DEF SettleInv, SuggestionsInv, Pairs
        <3> QED
            BY <3>1, <3>2, LinkKeeps
    <2>2. ASSUME NEW c \in Contracts, NEW k \in Keys, ManualLink(u, c, k) PROVE SettleInv'
        BY <2>2, LinkKeeps DEF ManualLink
    <2> QED
        BY <1>2, <2>1, <2>2, RejectKeeps, UnlinkKeeps DEF LinkRequest
<1>3. CASE UNCHANGED allVars
    <2>1. UNCHANGED <<vars, esi, contracts, suggestions, pollers>>
        BY <1>3 DEF allVars, contractVars
    <2>2. KeepsContracts /\ PollersInv'
        BY <2>1, Rows DEF KeepsContracts, SettleInv, PollersInv
    <2> QED
        BY <2>1, <2>2, Rows, QuietKeeps DEF SettleInv, ContractTypeOK
<1> QED
    BY <1>1, <1>2, <1>3, RequestKeeps, EsiKeeps DEF ContractNext

\* Before the first request and the first poll.
LEMMA SettleInit == ContractInit => SettleInv
<1> SUFFICES ASSUME ContractInit PROVE SettleInv
    OBVIOUS
<1>1. ListInv
    <2>1. EmptyList
        BY DEF ContractInit, Init, EmptyList, NoItem
    <2> QED
        BY <2>1, TypeInit, ClaimsInit, MoneyInit DEF ListInv, ContractInit
<1>2. ContractTypeOK
    <2>1. NoContract \in ContractRow /\ IdlePoller \in PollerRow
        BY DEF NoContract, ContractRow, IdlePoller, PollerRow, Totals
    <2>2. contracts \in [Contracts -> ContractRow] /\ pollers \in [Pollers -> PollerRow]
        BY <2>1 DEF ContractInit
    <2> QED
        BY <1>1, <2>2 DEF ContractTypeOK, ListInv, ContractInit, ContractRow, PollerRow
<1>3. /\ list.status = "absent" /\ outbox = {} /\ \A k \in Keys : reimb[k] = NoReimb
    BY DEF ContractInit, Init
<1>4. TipsInv /\ SettlementsAnnounced /\ BoundIsConfirmed
    BY <1>3 DEF TipsInv, SettlementsAnnounced, BoundIsConfirmed, NoReimb, Exists
<1>5. PollersInv /\ SuggestionsInv
    BY DEF ContractInit, PollersInv, SuggestionsInv, IdlePoller
<1> QED
    BY <1>1, <1>2, <1>4, <1>5 DEF SettleInv

-----------------------------------------------------------------------------
(* No settlement is lost, as long as no poll is cut short.                 *)

\* Reimbursement k waits for a contract b that has finished, and poll q has seen
\* it finish.
Owed(k, b) == /\ reimb[k].status = "pending" /\ reimb[k].contract = b /\ b # None
              /\ contracts[b].status \in Success
Sees(q, b) == pollers[q].contract = b /\ pollers[q].changed /\ pollers[q].status \in Success

\* Nothing becomes owed without being seen, and what is owed stays seen.
LEMMA StaysSeen ==
    ASSUME NoLostSettlement,
           \A k \in Keys, b \in Contracts : Owed(k, b)' =>
              \/ \E q \in Pollers : Sees(q, b)'
              \/ Owed(k, b) /\ \A q \in Pollers : Sees(q, b) => Sees(q, b)',
           reimb' \in [Keys -> ReimbRow]
    PROVE  NoLostSettlement'
<1> SUFFICES ASSUME NEW k \in Keys, reimb'[k].status = "pending", reimb'[k].contract # None,
                    contracts'[reimb'[k].contract].status \in Success
             PROVE  \E q \in Pollers : /\ pollers'[q].contract = reimb'[k].contract
                                       /\ pollers'[q].changed /\ pollers'[q].status \in Success
    BY DEF NoLostSettlement
<1>1. PICK b \in Contracts : b = reimb'[k].contract
    BY DEF ReimbRow
<1>2. Owed(k, b)'
    BY <1>1 DEF Owed
<1>3. Owed(k, b) => \E q \in Pollers : Sees(q, b)
    BY DEF NoLostSettlement, Owed, Sees
<1>4. \E q \in Pollers : Sees(q, b)'
    BY <1>2, <1>3
<1> QED
    BY <1>1, <1>4 DEF Sees

\* A settlement that is owed stays with a poll that has yet to make it.
LEMMA NoLostStep ==
    ~CanFail /\ SettleInv /\ NoLostSettlement /\ [ContractNext]_allVars => NoLostSettlement'
<1> SUFFICES ASSUME ~CanFail, SettleInv, NoLostSettlement, [ContractNext]_allVars
             PROVE  NoLostSettlement'
    OBVIOUS
<1>0. reimb' \in [Keys -> ReimbRow] /\ reimb \in [Keys -> ReimbRow]
    BY SettleStep DEF SettleInv, ListInv, TypeOK
<1>1. ASSUME UNCHANGED <<reimb, contracts, pollers>> PROVE NoLostSettlement'
    BY <1>1 DEF NoLostSettlement
<1>2. CASE ListStep
    <2>1. UNCHANGED <<contracts, pollers>> /\ \A k \in Keys : RequestOn(k)
        BY <1>2, RequestRows DEF ListStep, SettleInv
    <2>2. ASSUME NEW k \in Keys, NEW b \in Contracts, Owed(k, b)' PROVE Owed(k, b)
        <3>1. reimb'[k].status = "pending" /\ reimb'[k].contract = b /\ b # None
              /\ contracts[b].status \in Success
            BY <2>1, <2>2 DEF Owed
        <3>2. reimb[k].contract = b /\ reimb[k].status # "settled"
            BY <2>1, <3>1 DEF RequestOn, NoReimb
        <3>3. reimb[k].status = "pending"
            BY <1>0, <3>1, <3>2, Rows DEF ReimbRow
        <3> QED
            BY <3>1, <3>2, <3>3 DEF Owed
    <2>3. \A q, b : Sees(q, b)' = Sees(q, b)
        BY <2>1 DEF Sees
    <2> QED
        BY <1>0, <2>2, <2>3, StaysSeen
<1>3. ASSUME NEW p \in Pollers, UNCHANGED <<reimb, contracts>>,
             NEW phase, NEW c, NEW s, NEW changed, PollerGoes(p, phase, c, s, changed),
             \/ ~pollers[p].changed
             \/ /\ c = pollers[p].contract /\ s = pollers[p].status
                /\ changed = pollers[p].changed
      PROVE  NoLostSettlement'
    <2>1. \A k, b : Owed(k, b)' => Owed(k, b)
        BY <1>3 DEF Owed
    <2>2. \A q \in Pollers, b \in Contracts : Sees(q, b) => Sees(q, b)'
        BY <1>3 DEF Sees, PollerGoes
    <2> QED
        BY <1>0, <2>1, <2>2, StaysSeen
<1>4. ASSUME NEW p \in Pollers, NEW c \in Contracts, Fetch(p, c) PROVE NoLostSettlement'
    <2>1. PollerGoes(p, "fetched", c, esi[c], FALSE)
        BY <1>4, PollRows DEF SettleInv
    <2>2. UNCHANGED <<reimb, contracts>> /\ ~pollers[p].changed
        BY <1>4 DEF Fetch, SettleInv, PollersInv, vars
    <2> QED
        BY <1>3, <2>1, <2>2
<1>5. ASSUME NEW p \in Pollers, UpsertContract(p) PROVE NoLostSettlement'
    <2> DEFINE c == pollers[p].contract
               s == pollers[p].status
    <2>1. PollerGoes(p, "upserted", c, s, contracts[c].status # s)
        BY <1>5, PollRows DEF SettleInv
    <2>2. /\ UNCHANGED reimb /\ pollers[p].phase = "fetched"
          /\ contracts' = [contracts EXCEPT ![c].status = s]
        BY <1>5 DEF UpsertContract, vars
    <2>3. c \in Contracts /\ ~pollers[p].changed /\ s \in Statuses \cup {"unknown"}
        BY <2>2 DEF SettleInv, PollersInv, ContractTypeOK
    <2>4. ContractGoes(c, s)
        BY <2>2, <2>3, StatusWritten DEF SettleInv
    <2> HIDE DEF c, s
    <2>5. \A q \in Pollers, b \in Contracts : Sees(q, b) => Sees(q, b)'
        BY <2>1, <2>3 DEF Sees, PollerGoes
    <2>6. ASSUME NEW k \in Keys, NEW b \in Contracts, Owed(k, b)'
          PROVE  Owed(k, b) \/ \E q \in Pollers : Sees(q, b)'
        <3>1. reimb[k].status = "pending" /\ reimb[k].contract = b /\ b # None
              /\ contracts'[b].status \in Success
            BY <2>2, <2>6 DEF Owed
        <3>2. CASE b # c \/ contracts[c].status = s
            BY <2>3, <2>4, <3>1, <3>2 DEF ContractGoes, Owed
        <3>3. CASE b = c /\ contracts[c].status # s
            <4>1. s \in Success
                BY <2>4, <3>1, <3>3 DEF ContractGoes
            <4>2. pollers'[p].contract = c /\ pollers'[p].status = s
                  /\ pollers'[p].changed = (contracts[c].status # s)
                BY <2>1 DEF PollerGoes
            <4>3. Sees(p, b)'
                BY <3>3, <4>1, <4>2 DEF Sees
            <4> QED
                BY <4>3
        <3> QED
            BY <3>2, <3>3
    <2> QED
        BY <1>0, <2>5, <2>6, StaysSeen
<1>6. ASSUME NEW p \in Pollers, SyncItems(p) PROVE NoLostSettlement'
    <2> DEFINE c == pollers[p].contract
    <2>1. PollerGoes(p, "synced", c, pollers[p].status, pollers[p].changed)
        BY <1>6, PollRows DEF SettleInv
    <2>2. /\ UNCHANGED reimb /\ pollers[p].phase = "upserted"
          /\ \E ok \in BOOLEAN : contracts' = [contracts EXCEPT ![c].synced = @ \/ ok]
        BY <1>6 DEF SyncItems, vars
    <2>3. c \in Contracts
        BY <2>2 DEF SettleInv, PollersInv
    <2>4. ContractGoes(c, contracts[c].status)
        BY <2>2, <2>3, SyncWritten DEF SettleInv
    <2>5. \A k \in Keys, b \in Contracts : Owed(k, b)' => Owed(k, b)
        BY <2>2, <2>4 DEF Owed, ContractGoes
    <2>6. \A q \in Pollers, b \in Contracts : Sees(q, b) => Sees(q, b)'
        BY <2>1 DEF Sees, PollerGoes
    <2> QED
        BY <1>0, <2>5, <2>6, StaysSeen
<1>7. ASSUME NEW p \in Pollers, MatchRead(p) \/ MatchInsert(p) PROVE NoLostSettlement'
    <2>1. \E phase : PollerGoes(p, phase, pollers[p].contract, pollers[p].status,
                                pollers[p].changed)
        BY <1>7, PollRows DEF SettleInv
    <2>2. UNCHANGED <<reimb, contracts>>
        BY <1>7 DEF MatchRead, MatchInsert, vars
    <2> QED
        BY <1>3, <2>1, <2>2
<1>8. ASSUME NEW p \in Pollers, Terminal(p) PROVE NoLostSettlement'
    <2> DEFINE c == pollers[p].contract
    <2>1. PollerGoes(p, "idle", None, "unknown", FALSE)
        BY <1>8, PollRows DEF SettleInv
    <2>2. c \in Contracts
        BY <1>8 DEF Terminal, SettleInv, PollersInv
    <2>3. ASSUME NEW b \in Contracts, ~Sees(p, b), NEW q \in Pollers, Sees(q, b)
          PROVE  Sees(q, b)'
        BY <2>1, <2>3 DEF Sees, PollerGoes
    <2>4. CASE /\ pollers[p].changed /\ pollers[p].status \in Success
               /\ SettleViaContract(c, reimb, contracts[c].expected)
        <3> HIDE DEF c
        <3>1. ContractGoes(c, contracts[c].status)
            BY <2>2, <2>4, Rows, SettlementWritten DEF SettleInv
        <3>2. \A k \in Keys :
                /\ reimb'[k].contract = reimb[k].contract
                /\ reimb'[k].status = IF reimb[k].contract = c /\ reimb[k].status = "pending"
                                      THEN "settled" ELSE reimb[k].status
            <4>1. ListInv /\ UNCHANGED <<claims, claimItems, activeItems, fulfillments>>
                BY <1>8 DEF Terminal, SettleInv
            <4> QED
                BY <1>0, <2>2, <2>4, <4>1, ViaContract
        <3>3. \A k \in Keys, b \in Contracts : Owed(k, b)' => Owed(k, b) /\ b # c
            BY <2>2, <3>1, <3>2 DEF Owed, ContractGoes
        <3>4. \A b \in Contracts : b # c => ~Sees(p, b)
            BY DEF Sees, c
        <3> QED
            BY <1>0, <2>3, <3>3, <3>4, StaysSeen
    <2>5. CASE pollers[p].status \in Failure /\ UnbindContract(c)
        <3>1. reimb' = Unbind(c) /\ contracts' = [contracts EXCEPT ![c].expected = {}]
            BY <2>5 DEF UnbindContract
        <3>2. {} \in Totals
            BY DEF Totals
        <3>3. ContractGoes(c, contracts[c].status)
            BY <2>2, <3>1, <3>2, TotalWritten DEF SettleInv
        <3> HIDE DEF c
        <3>4. \A k \in Keys, b \in Contracts : Owed(k, b)' => Owed(k, b)
            BY <2>2, <3>1, <3>3, UnbindRows DEF Owed, ContractGoes
        <3>5. \A b \in Contracts : ~Sees(p, b)
            BY <2>5 DEF Sees, Success, Failure
        <3> QED
            BY <1>0, <2>3, <3>4, <3>5, StaysSeen
    <2>6. CASE /\ ~pollers[p].changed \/ pollers[p].status \in Live
               /\ UNCHANGED <<items, list, reimb, outbox, contracts, suggestions>>
        <3>1. \A k \in Keys, b \in Contracts : Owed(k, b)' => Owed(k, b)
            BY <2>6 DEF Owed
        <3>2. \A b \in Contracts : ~Sees(p, b)
            BY <2>6 DEF Sees, Success, Live
        <3> QED
            BY <1>0, <2>3, <3>1, <3>2, StaysSeen
    <2> QED
        BY <1>8, <2>4, <2>5, <2>6 DEF Terminal
<1>9. ASSUME NEW u \in Users, NEW c \in Contracts, NEW k \in Keys,
             Confirm(u, c, k) \/ ManualLink(u, c, k)
      PROVE  NoLostSettlement'
    <2>1. Linked(c, k) /\ reimb[k].status = "pending"
        BY <1>9, LinkRows DEF Confirm, ManualLink, ValidLink
    <2>2. ASSUME NEW k2 \in Keys, NEW b \in Contracts, Owed(k2, b)' PROVE Owed(k2, b)
        <3>1. reimb'[k2].status = "pending" /\ reimb'[k2].contract = b /\ b # None
              /\ contracts'[b].status \in Success
            BY <2>2 DEF Owed
        <3>2. contracts[b].status \in Success
            BY <2>1, <3>1 DEF Linked, ContractGoes
        <3>3. k2 # k /\ reimb[k2].contract = b /\ reimb[k2].status = "pending"
            BY <2>1, <3>1, <3>2 DEF Linked
        <3> QED
            BY <3>1, <3>2, <3>3 DEF Owed
    <2>3. \A q, b : Sees(q, b)' = Sees(q, b)
        BY <2>1 DEF Sees, Linked
    <2> QED
        BY <1>0, <2>2, <2>3, StaysSeen
<1>10. ASSUME NEW u \in Users, NEW c \in Contracts, Unlink(u, c) PROVE NoLostSettlement'
    <2>1. /\ reimb' = Unbind(c) /\ UNCHANGED pollers
          /\ contracts' = [contracts EXCEPT ![c].expected = ExpectedTotal(reimb', c)]
        BY <1>10 DEF Unlink
    <2>2. ExpectedTotal(reimb', c) \in Totals
        BY <1>0, <2>1, UnbindRows, TotalType DEF SettleInv
    <2>3. ContractGoes(c, contracts[c].status)
        BY <2>1, <2>2, TotalWritten DEF SettleInv
    <2>4. \A k \in Keys, b \in Contracts : Owed(k, b)' => Owed(k, b)
        BY <2>1, <2>3, UnbindRows DEF Owed, ContractGoes
    <2>5. \A q, b : Sees(q, b)' = Sees(q, b)
        BY <2>1 DEF Sees
    <2> QED
        BY <1>0, <2>4, <2>5, StaysSeen
<1>11. ASSUME NEW u \in Users, LinkRequest(u) PROVE NoLostSettlement'
    <2>1. ASSUME NEW c \in Contracts, NEW k \in Keys, Reject(u, c, k) PROVE NoLostSettlement'
        BY <2>1, <1>1 DEF Reject, vars
    <2> QED
        BY <1>9, <1>10, <1>11, <2>1 DEF LinkRequest
<1>12. ASSUME NEW c \in Contracts, NEW s \in Statuses, EsiAdvance(c, s) PROVE NoLostSettlement'
    BY <1>12, <1>1 DEF EsiAdvance, vars
<1>13. CASE UNCHANGED allVars
    BY <1>13, <1>1 DEF allVars, contractVars, vars
<1>14. ASSUME NEW p \in Pollers, Poll(p) PROVE NoLostSettlement'
    BY <1>4, <1>5, <1>6, <1>7, <1>8, <1>14 DEF Poll
<1>15. ASSUME NEW p \in Pollers PROVE ~Abandon(p)
    BY DEF Abandon
<1> QED
    BY <1>2, <1>11, <1>12, <1>13, <1>14, <1>15 DEF ContractNext

-----------------------------------------------------------------------------
(* What is settled stays as it is, whoever settled it.                     *)

\* Polls and links settle what is pending and leave the rest alone.
LEMMA SettledIsLeftAlone ==
    ASSUME SettleInv, ContractNext, ~ListStep
    PROVE  KeepsItems /\ KeepsReimbursements /\ KeepsPurchases
<1>0. reimb \in [Keys -> ReimbRow]
    BY Rows
<1>1. ASSUME UNCHANGED vars PROVE KeepsItems /\ KeepsReimbursements /\ KeepsPurchases
    BY <1>1 DEF vars, KeepsItems, KeepsReimbursements, KeepsPurchases
<1>2. ASSUME NEW c \in Contracts, reimb' = Unbind(c), UNCHANGED <<items, fulfillments>>
      PROVE  KeepsItems /\ KeepsReimbursements /\ KeepsPurchases
    BY <1>2, UnbindRows DEF KeepsItems, KeepsReimbursements, KeepsPurchases
<1>3. ASSUME NEW p \in Pollers, Terminal(p)
      PROVE  KeepsItems /\ KeepsReimbursements /\ KeepsPurchases
    <2> DEFINE c == pollers[p].contract
    <2>1. c \in Contracts /\ UNCHANGED <<claims, claimItems, activeItems, fulfillments>>
        BY <1>3 DEF Terminal, SettleInv, PollersInv
    <2>2. CASE SettleViaContract(c, reimb, contracts[c].expected)
        <3>1. /\ \A k \in Keys : reimb[k].status = "settled" => reimb'[k] = reimb[k]
              /\ \A i \in Items : items[i].status = "settled" => items'[i] = items[i]
            <4>1. ListInv
                BY DEF SettleInv
            <4> HIDE DEF c
            <4> QED
                BY <1>0, <2>1, <2>2, <4>1, ViaContract
        <3> QED
            BY <2>1, <3>1 DEF KeepsItems, KeepsReimbursements, KeepsPurchases
    <2>3. CASE UnbindContract(c)
        BY <1>2, <2>1, <2>3 DEF UnbindContract
    <2>4. CASE UNCHANGED <<items, reimb>>
        BY <2>1, <2>4 DEF KeepsItems, KeepsReimbursements, KeepsPurchases
    <2> QED
        BY <1>3, <2>2, <2>3, <2>4 DEF Terminal
<1>4. ASSUME NEW p \in Pollers, Poll(p) \/ Abandon(p)
      PROVE  KeepsItems /\ KeepsReimbursements /\ KeepsPurchases
    BY <1>1, <1>3, <1>4
       DEF Poll, Fetch, UpsertContract, SyncItems, MatchRead, MatchInsert, Abandon
<1>5. ASSUME NEW u \in Users, LinkRequest(u)
      PROVE  KeepsItems /\ KeepsReimbursements /\ KeepsPurchases
    <2>1. ASSUME NEW c \in Contracts, NEW k \in Keys, Confirm(u, c, k) \/ ManualLink(u, c, k)
          PROVE  KeepsItems /\ KeepsReimbursements /\ KeepsPurchases
        <3>1. Linked(c, k)
            BY <2>1, LinkRows DEF Confirm, ManualLink, ValidLink
        <3> QED
            BY <3>1 DEF Linked, KeepsItems, KeepsReimbursements, KeepsPurchases
    <2>2. ASSUME NEW c \in Contracts, Unlink(u, c)
          PROVE  KeepsItems /\ KeepsReimbursements /\ KeepsPurchases
        BY <1>2, <2>2 DEF Unlink
    <2>3. ASSUME NEW c \in Contracts, NEW k \in Keys, Reject(u, c, k)
          PROVE  KeepsItems /\ KeepsReimbursements /\ KeepsPurchases
        BY <1>1, <2>3 DEF Reject
    <2> QED
        BY <1>5, <2>1, <2>2, <2>3 DEF LinkRequest
<1>6. ASSUME NEW c \in Contracts, NEW s \in Statuses, EsiAdvance(c, s)
      PROVE  KeepsItems /\ KeepsReimbursements /\ KeepsPurchases
    BY <1>1, <1>6 DEF EsiAdvance
<1> QED
    BY <1>4, <1>5, <1>6 DEF ContractNext

-----------------------------------------------------------------------------
(* The theorems.                                                           *)

\* The inductive invariant holds of every state that requests, polls, links and
\* crashes can reach.
THEOREM SettleInvariant == ContractSpec => []SettleInv
    BY SettleInit, SettleStep, PTL DEF ContractSpec

\* The contract tables are well typed, and a pending reimbursement is bound only to
\* a contract between its own parties that its hauler confirmed, whatever confirm,
\* link, unlink and poll do in between.
THEOREM BoundContractsAreConfirmed == ContractSpec => []ContractInv
<1>1. SettleInv => ContractInv
    BY DEF SettleInv, ContractInv
<1> QED
    BY <1>1, SettleInvariant, PTL

\* Every settlement is announced, and nothing else is.
THEOREM EverySettlementIsAnnounced == ContractSpec => []SettlementsAnnounced
<1>1. SettleInv => SettlementsAnnounced
    BY DEF SettleInv
<1> QED
    BY <1>1, SettleInvariant, PTL

\* The invariants of the list that hold of its requests alone still hold when polls
\* and links settle reimbursements behind its back: claims agree, nothing is paid
\* short, every purchase is billed once and a settled item leaves nobody unpaid.
THEOREM ContractsKeepTheList ==
    ContractSpec => [](ClaimsAgree /\ NothingShort /\ BillingExact /\ SettledItemsPaid)
<1>1. SettleInv => ClaimsAgree /\ NothingShort /\ BillingExact /\ SettledItemsPaid
    BY DEF SettleInv, ListInv, ClaimsInv, MoneyInv
<1> QED
    BY <1>1, SettleInvariant, PTL

\* As long as no poll is cut short, a pending reimbursement bound to a contract that
\* is known to have finished is about to be settled by a poll.
THEOREM SettlementsAreNotLost ==
    ASSUME ~CanFail PROVE ContractSpec => []NoLostSettlement
<1>1. ContractInit => NoLostSettlement
    BY DEF ContractInit, Init, NoLostSettlement, NoReimb
<1>2. SettleInv /\ NoLostSettlement /\ [ContractNext]_allVars => NoLostSettlement'
    BY NoLostStep
<1> QED
    BY <1>1, <1>2, SettleInvariant, PTL DEF ContractSpec

\* Nothing that is settled changes again while the list exists, by hand, by a poll or
\* by a link.
THEOREM SettledStaysUnderContracts == ContractSpec => SettlementIsFinal
<1>1. ASSUME SettleInv, [ContractNext]_allVars
      PROVE  \/ list'.status = "deleted"
             \/ KeepsItems /\ KeepsReimbursements /\ KeepsPurchases
             \/ UNCHANGED vars
    <2>1. CASE ListStep
        <3>1. Next /\ ListInv
            BY <1>1, <2>1 DEF ListStep, SettleInv
        <3> QED
            BY <3>1, RequestIsFinal
    <2>2. CASE ContractNext /\ ~ListStep
        BY <1>1, <2>2, SettledIsLeftAlone
    <2>3. CASE UNCHANGED allVars
        BY <2>3 DEF allVars
    <2> QED
        BY <1>1, <2>1, <2>2, <2>3
<1>2. SettleInv /\ [ContractNext]_allVars =>
        [list'.status # "deleted" =>
            /\ \A i \in Items : items[i].status = "settled" => items'[i] = items[i]
            /\ \A k \in Keys : reimb[k].status = "settled" =>
                /\ reimb'[k] = reimb[k]
                /\ \A f \in LiveFor(fulfillments, k) :
                    \/ fulfillments'[f] = fulfillments[f]
                    \/ fulfillments'[f].state = "deleted"]_vars
    BY <1>1 DEF KeepsItems, KeepsReimbursements, KeepsPurchases
<1> QED
    BY <1>2, SettleInvariant, PTL DEF ContractSpec, SettlementIsFinal

=============================================================================
