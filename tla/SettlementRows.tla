---------------------------- MODULE SettlementRows ----------------------------
(* One list, one requester, statement by statement. ContractSettlement takes *)
(* settle_via_contract and every request as one step; here each is a READ    *)
(* COMMITTED transaction of several SQL statements. A statement sees what is *)
(* committed when it starts and what its own transaction wrote; a row it     *)
(* updates or selects FOR UPDATE is locked until the transaction ends, and   *)
(* once the lock is granted only the columns of that row are tested again.   *)
(* PostgreSQL ends a cycle of waits by rolling one transaction back.         *)
EXTENDS Integers, FiniteSets, Sequences, SequencesExt

CONSTANTS
    Items,          \* list_items, some of them not inserted yet
    Haulers,        \* each has at most one reimbursement on the list
    Fulfillments,   \* identifiers of purchases, of one unit each
    Contracts,      \* contracts that may be bound to a reimbursement
    Requests,       \* API requests that can be in flight together
    Initial,        \* the items of the list at the start
    Qty,            \* [Items -> quantity requested]
    Issuer,         \* [Contracts -> the hauler who issued it]
    None

ASSUME RowsAssumption ==
    /\ Initial \subseteq Items
    /\ Qty \in [Items -> Nat \ {0}]
    /\ Issuer \in [Contracts -> Haulers]

(* The worker settles a contract in one transaction per contract, so that    *)
(* transaction goes by the contract's name.                                  *)
List == "list"
Rows == {List} \cup Items \cup Haulers \cup Fulfillments \cup Contracts
Procs == Requests \cup Contracts

(* Primary keys: a row is of one table, and None is none of them. *)
ASSUME KeysAssumption ==
    /\ IsFiniteSet(Items) /\ IsFiniteSet(Fulfillments)
    /\ List \notin Items \cup Haulers \cup Fulfillments \cup Contracts
    /\ Items \cap Haulers = {} /\ Items \cap Fulfillments = {} /\ Items \cap Contracts = {}
    /\ Haulers \cap Fulfillments = {} /\ Haulers \cap Contracts = {}
    /\ Fulfillments \cap Contracts = {} /\ Requests \cap Contracts = {}
    /\ None \notin Procs \cup Rows

VARIABLES
    db,     \* the committed rows: lists, list_items, reimbursements, ...
    lock,   \* which transaction has the row locked
    pc,     \* the statement a transaction is at
    arg,    \* what the request is about
    mine,   \* the rows it wrote, not committed
    seen,   \* what a statement computed from the rows of its start
    todo,   \* the rows that statement has yet to lock, in scan order
    raced   \* history: purchases whose request overlapped their settlement

vars == <<db, lock, pc, arg, mine, seen, todo, raced>>

ItemRow == [status : {"open", "bought", "delivered", "settled"},
            filled : 0 .. Cardinality(Fulfillments)]
Bill == [status : {"pending", "settled"}, total : SUBSET Fulfillments,
         contract : Contracts \cup {None}]
Purchase == [item : Items, hauler : Haulers, live : BOOLEAN]
Nothing == [r \in {} |-> None]

ASSUME NullAssumption == None \notin ItemRow \cup Bill \cup Purchase

RowsInit ==
    /\ db = [r \in Rows |->
               CASE r = List -> "open"
                 [] r \in Initial -> [status |-> "open", filled |-> 0]
                 [] r \in Contracts -> "outstanding"
                 [] OTHER -> None]
    /\ lock = [r \in Rows |-> None]
    /\ pc = [p \in Procs |-> "idle"]
    /\ arg = [p \in Procs |-> None]
    /\ mine = [p \in Procs |-> Nothing]
    /\ seen = [p \in Procs |-> None]
    /\ todo = [p \in Procs |-> <<>>]
    /\ raced = {}
-----------------------------------------------------------------------------
(* What transaction p sees if a statement starts now. *)
View(p) == [r \in Rows |-> IF r \in DOMAIN mine[p] THEN mine[p][r] ELSE db[r]]

Put(p, r, v) ==
    [q \in Procs |-> IF q # p THEN mine[q]
                     ELSE [x \in DOMAIN mine[p] \cup {r} |->
                             IF x = r THEN v ELSE mine[p][x]]]

Live(v, f) == v[f] # None /\ v[f].live
Bought(v, h) == {f \in Fulfillments : Live(v, f) /\ v[f].hauler = h}
Covers(v, h, i) == \E f \in Bought(v, h) : v[f].item = i
Units(v, i) == Cardinality({f \in Fulfillments : Live(v, f) /\ v[f].item = i})
Pending(v, h) == v[h] # None /\ v[h].status = "pending"

(* A statement of p starts: by the rows p sees now it has to lock the set S, *)
(* in an order the query plan chooses.                                       *)
Start(p, label, S) ==
    /\ pc' = [pc EXCEPT ![p] = label]
    /\ \E order \in SetToSeqs(S) : todo' = [todo EXCEPT ![p] = order]

(* The next row of the statement, once no other transaction has it. *)
Grant(p, r) ==
    /\ todo[p] # <<>>
    /\ r = Head(todo[p])
    /\ lock[r] \in {None, p}
    /\ lock' = [lock EXCEPT ![r] = p]
    /\ todo' = [todo EXCEPT ![p] = Tail(@)]

(* The transaction ends and its rows are released. *)
Finish(p) ==
    /\ lock' = [r \in Rows |-> IF lock[r] = p THEN None ELSE lock[r]]
    /\ pc' = [pc EXCEPT ![p] = IF p \in Contracts THEN "done" ELSE "idle"]
    /\ arg' = [arg EXCEPT ![p] = None]
    /\ mine' = [mine EXCEPT ![p] = Nothing]
    /\ seen' = [seen EXCEPT ![p] = None]
    /\ todo' = [todo EXCEPT ![p] = <<>>]

(* COMMIT, the last statement of every transaction. *)
Commit(p) ==
    /\ pc[p] = "commit"
    /\ db' = View(p)
    /\ Finish(p)
    /\ UNCHANGED raced

(* An error response: the middleware rolls the transaction back. *)
Reject(p) == Finish(p) /\ UNCHANGED <<db, raced>>
-----------------------------------------------------------------------------
(* The requests that lock the list first. arg[p] says which and about what.  *)

Request(p, a, S) ==
    /\ pc[p] = "idle"
    /\ arg' = [arg EXCEPT ![p] = a]
    /\ Start(p, "first", S)
    /\ UNCHANGED <<db, lock, mine, raced, seen>>

(* lock_list; for a purchase or a delivery the item is locked next, for a   *)
(* settlement by hand the reimbursement.                                    *)
FirstRows(a) ==
    CASE a.op \in {"record", "deliver"} -> {a.item}
      [] a.op = "settle" -> {a.hauler}
      [] OTHER -> {}

\* settle_reimbursement without lock_list.
MutantLockList(p) ==
    /\ pc[p] = "first" /\ arg[p].op # "link"
    /\ arg[p].op # "settle" => lock[List] = None
    /\ lock' = IF arg[p].op = "settle" THEN lock ELSE [lock EXCEPT ![List] = p]
    /\ Start(p, arg[p].op, FirstRows(arg[p]))
    /\ UNCHANGED <<db, arg, mine, raced, seen>>

LockList(p) ==
    /\ pc[p] = "first" /\ arg[p].op # "link"
    /\ lock[List] = None
    /\ lock' = [lock EXCEPT ![List] = p]
    /\ Start(p, arg[p].op, FirstRows(arg[p]))
    /\ UNCHANGED <<db, arg, mine, raced, seen>>

(* recompute_item_status on what p sees. Claims are left out, so an item     *)
(* that is not fully bought is open.                                         *)
Recomputed(v, i, demote) ==
    IF v[i].status = "settled" \/ (v[i].status = "delivered" /\ ~demote) THEN v[i]
    ELSE [status |-> CASE Units(v, i) < Qty[i] -> "open"
                       [] Units(v, i) >= Qty[i] /\ v[i].status = "delivered" -> "delivered"
                       [] OTHER -> "bought",
          filled |-> Units(v, i)]

(* record_fulfillment once the item is locked: the test on the reimbursement *)
(* reads without a lock. The INSERT and the recompute touch only rows that   *)
(* p has to itself, so they are part of the same step.                       *)
\* Off by one: a full item accepts one more.
MutantMayRecord(v, a) ==
    /\ v[a.item].filled <= Qty[a.item]
    /\ v[a.hauler] # None => v[a.hauler].status = "pending"
    /\ \E f \in Fulfillments : v[f] = None

MayRecord(v, a) ==
    /\ v[a.item].filled < Qty[a.item]
    /\ v[a.hauler] # None => v[a.hauler].status = "pending"
    /\ \E f \in Fulfillments : v[f] = None       \* bound of the model

RecordFulfillment(p) ==
    LET a == arg[p]  v == View(p) IN
    /\ pc[p] = "record" /\ MayRecord(v, a)
    /\ Grant(p, a.item)
    /\ \E f \in Fulfillments :
          LET new == [v EXCEPT ![f] = [item |-> a.item, hauler |-> a.hauler, live |-> TRUE]]
          IN /\ v[f] = None
             /\ mine' = [mine EXCEPT ![p] =
                           [x \in {f, a.item} |-> IF x = f THEN new[f]
                                                  ELSE Recomputed(new, a.item, FALSE)]]
             /\ raced' = IF lock[a.hauler] = None THEN raced ELSE raced \cup {f}
    /\ pc' = [pc EXCEPT ![p] = "recorded"]
    /\ UNCHANGED <<db, arg, seen>>

(* reverse_fulfillment tests the reimbursement without a lock and marks the *)
(* purchase; recompute_item_status reads the item in the next statement and *)
(* writes it in the one after, which waits for the item's lock.             *)
\* Without the test of the reimbursement.
MutantMayReverse(v, f) == TRUE

MayReverse(v, f) ==
    LET r == v[v[f].hauler] IN r # None => r.status = "pending"

ReverseFulfillment(p) ==
    LET f == arg[p].ful IN
    /\ pc[p] = "reverse"
    /\ Live(View(p), f) /\ MayReverse(View(p), f)
    /\ mine' = Put(p, f, [db[f] EXCEPT !.live = FALSE])
    /\ pc' = [pc EXCEPT ![p] = "reread"]
    /\ raced' = IF lock[db[f].hauler] = None THEN raced ELSE raced \cup {f}
    /\ UNCHANGED <<db, lock, arg, seen, todo>>

RereadItem(p) ==
    /\ pc[p] = "reread"
    /\ LET i == View(p)[arg[p].ful].item IN
       /\ IF View(p)[i].status = "settled" THEN Start(p, "rewritten", {})
                                           ELSE Start(p, "rewrite", {i})
       /\ seen' = [seen EXCEPT ![p] = Recomputed(View(p), i, TRUE)]
    /\ UNCHANGED <<db, lock, arg, mine, raced>>

RewriteItem(p) ==
    LET i == Head(todo[p]) IN
    /\ pc[p] = "rewrite" /\ Grant(p, i)
    /\ mine' = Put(p, i, seen[p])
    /\ pc' = [pc EXCEPT ![p] = "rewritten"]
    /\ UNCHANGED <<db, arg, seen, raced>>

(* upsert_reimbursement: the sum is what the statement saw at its start, and *)
(* DO UPDATE ... WHERE status = 'pending' is tested on the row it waited for. *)
UpsertStart(p) ==
    LET h == IF pc[p] = "recorded" THEN arg[p].hauler
                                   ELSE View(p)[arg[p].ful].hauler
    IN /\ pc[p] \in {"recorded", "rewritten"}
       /\ Start(p, "upsert", {h})
       /\ seen' = [seen EXCEPT ![p] = Bought(View(p), h)]
       /\ UNCHANGED <<db, lock, arg, mine, raced>>

\* DO UPDATE without its WHERE.
MutantUpserted(row, total) ==
    IF row = None THEN [status |-> "pending", total |-> total, contract |-> None]
    ELSE [row EXCEPT !.total = total]

\* ON CONFLICT DO NOTHING: the first sum stays.
MutantUpsertedOnce(row, total) ==
    IF row = None THEN [status |-> "pending", total |-> total, contract |-> None]
    ELSE row

Upserted(row, total) ==
    CASE row = None -> [status |-> "pending", total |-> total, contract |-> None]
      [] row # None /\ row.status = "pending" -> [row EXCEPT !.total = total]
      [] OTHER -> row

Upsert(p) ==
    LET h == Head(todo[p]) IN
    /\ pc[p] = "upsert" /\ Grant(p, h)
    /\ mine' = Put(p, h, Upserted(View(p)[h], seen[p]))
    /\ pc' = [pc EXCEPT ![p] = "commit"]
    /\ UNCHANGED <<db, arg, seen, raced>>

(* mark_delivered. *)
MarkDelivered(p) ==
    LET i == arg[p].item IN
    /\ pc[p] = "deliver" /\ Grant(p, i)
    /\ View(p)[i].status = "bought"
    /\ mine' = Put(p, i, [View(p)[i] EXCEPT !.status = "delivered"])
    /\ pc' = [pc EXCEPT ![p] = "commit"]
    /\ UNCHANGED <<db, arg, seen, raced>>

(* add_items, on the list it locked. *)
AddItem(p) ==
    LET i == arg[p].item IN
    /\ pc[p] = "add" /\ db[i] = None
    /\ mine' = Put(p, i, [status |-> "open", filled |-> 0])
    /\ pc' = [pc EXCEPT ![p] = "commit"]
    /\ UNCHANGED <<db, lock, arg, seen, todo, raced>>
-----------------------------------------------------------------------------
(* settle_via_contract, called by the worker (p is the contract) and by a    *)
(* request that links a contract which is already finished.                  *)

ContractOf(p) == IF p \in Contracts THEN p ELSE arg[p].contract
HaulerOf(p) == IF p \in Contracts THEN Issuer[p] ELSE arg[p].hauler
ByHand(p) == p \in Requests /\ arg[p].op = "settle"

(* upsert_contract commits the new status; handle_contract_terminal follows  *)
(* in a transaction of its own.                                              *)
FinishContract(c) ==
    /\ pc[c] = "idle" /\ db[c] = "outstanding" /\ lock[c] = None
    /\ db' = [db EXCEPT ![c] = "finished"]
    /\ pc' = [pc EXCEPT ![c] = "found"]
    /\ UNCHANGED <<lock, arg, mine, seen, todo, raced>>

TerminalStart(c) ==
    /\ pc[c] = "found"
    /\ Start(c, "contract", {c})
    /\ UNCHANGED <<db, lock, arg, mine, raced, seen>>

LockContract(c) ==
    /\ pc[c] = "contract" /\ Grant(c, c)
    /\ pc' = [pc EXCEPT ![c] = "bills"]
    /\ UNCHANGED <<db, arg, mine, seen, raced>>

(* do_confirm and do_manual_link: SELECT ... FOR UPDATE OF c, r. *)
LockLinkRow(p) ==
    /\ pc[p] = "first" /\ arg[p].op = "link"
    /\ \E r \in Rows : Grant(p, r)
    /\ UNCHANGED <<db, pc, arg, mine, seen, raced>>

MayLink(v, h) == Pending(v, h) /\ v[h].contract = None

Link(p) ==
    LET h == arg[p].hauler  c == arg[p].contract IN
    /\ pc[p] = "first" /\ arg[p].op = "link" /\ todo[p] = <<>>
    /\ MayLink(View(p), h)
    /\ mine' = Put(p, h, [View(p)[h] EXCEPT !.contract = c])
    /\ pc' = [pc EXCEPT ![p] = IF db[c] = "finished" THEN "bills" ELSE "commit"]
    /\ UNCHANGED <<db, lock, arg, seen, todo, raced>>

Bound(v, h, c) == Pending(v, h) /\ v[h].contract = c

BillsStart(p) ==
    LET h == HaulerOf(p) IN
    /\ pc[p] = "bills"
    /\ IF Bound(View(p), h, ContractOf(p)) THEN Start(p, "bill", {h})
                                           ELSE Start(p, "commit", {})
    /\ UNCHANGED <<db, lock, arg, mine, raced, seen>>

(* A purchase that another transaction is recording or reversing now. *)
InFlight(p, h) ==
    {f \in Fulfillments : \E q \in Procs \ {p} :
        f \in DOMAIN mine[q] /\ mine[q][f].hauler = h}

SettleBill(p) ==
    LET h == HaulerOf(p) IN
    /\ pc[p] = "bill" /\ Grant(p, h)
    /\ IF Bound(View(p), h, ContractOf(p))
       THEN /\ mine' = Put(p, h, [View(p)[h] EXCEPT !.status = "settled"])
            /\ pc' = [pc EXCEPT ![p] = "settled"]
       ELSE /\ pc' = [pc EXCEPT ![p] = "commit"]
            /\ UNCHANGED mine
    /\ raced' = raced \cup InFlight(p, h)
    /\ UNCHANGED <<db, arg, seen>>

(* settle_reimbursement and settle_manual, with the row locked. *)
MaySettle(v, h) ==
    /\ Pending(v, h) /\ v[h].contract = None
    /\ \A i \in Items : v[i] # None /\ Covers(v, h, i) => v[i].status \in {"delivered", "settled"}

SettleByHand(p) ==
    LET h == arg[p].hauler IN
    /\ pc[p] = "settle" /\ Grant(p, h)
    /\ MaySettle(View(p), h)
    /\ mine' = Put(p, h, [View(p)[h] EXCEPT !.status = "settled"])
    /\ pc' = [pc EXCEPT ![p] = "settled"]
    /\ UNCHANGED <<db, arg, seen, raced>>

(* The UPDATE of list_items: the subqueries are answered by the rows of the  *)
(* start, only the item's own status is tested again under its lock.         *)
Flippable(p) == IF ByHand(p) THEN {"delivered"} ELSE {"bought", "delivered"}

\* Without the NOT EXISTS on other haulers.
MutantFlipStart(p) ==
    LET v == View(p)  h == HaulerOf(p) IN
    /\ pc[p] = "settled"
    /\ Start(p, "flip", {i \in Items : /\ v[i] # None
                                       /\ v[i].status \in Flippable(p)
                                       /\ Covers(v, h, i)})
    /\ UNCHANGED <<db, lock, arg, mine, raced, seen>>

FlipStart(p) ==
    LET v == View(p)  h == HaulerOf(p) IN
    /\ pc[p] = "settled"
    /\ Start(p, "flip", {i \in Items : /\ v[i] # None
                                       /\ v[i].status \in Flippable(p)
                                       /\ Covers(v, h, i)
                                       /\ \A g \in Haulers \ {h} : ~(Pending(v, g) /\ Covers(v, g, i))})
    /\ UNCHANGED <<db, lock, arg, mine, raced, seen>>

FlipItem(p) ==
    LET i == Head(todo[p]) IN
    /\ pc[p] = "flip" /\ Grant(p, i)
    /\ mine' = IF View(p)[i].status \in Flippable(p)
               THEN Put(p, i, [View(p)[i] EXCEPT !.status = "settled"]) ELSE mine
    /\ UNCHANGED <<db, pc, arg, seen, raced>>

(* auto_close_list_if_complete: the same, on the row of the list. *)
Complete(v) == \A i \in Items : v[i] # None => v[i].status = "settled"

CloseStart(p) ==
    /\ pc[p] = "flip" /\ todo[p] = <<>>
    /\ IF View(p)[List] = "open" /\ Complete(View(p))
       THEN Start(p, "close", {List}) ELSE Start(p, "commit", {})
    /\ UNCHANGED <<db, lock, arg, mine, raced, seen>>

CloseList(p) ==
    /\ pc[p] = "close" /\ Grant(p, List)
    /\ mine' = Put(p, List, "closed")
    /\ pc' = [pc EXCEPT ![p] = "commit"]
    /\ UNCHANGED <<db, arg, seen, raced>>
-----------------------------------------------------------------------------
(* An error response, once the rows the test needs are locked. *)
Refused(p) ==
    LET v == View(p)  a == arg[p] IN
    /\ todo[p] # <<>> => lock[Head(todo[p])] \in {None, p}
    /\ \/ pc[p] = "record" /\ ~MayRecord(v, a)
       \/ pc[p] = "reverse" /\ ~(Live(v, a.ful) /\ MayReverse(v, a.ful))
       \/ pc[p] = "deliver" /\ v[a.item].status # "bought"
       \/ pc[p] = "add" /\ v[a.item] # None
       \/ pc[p] = "settle" /\ ~MaySettle(v, a.hauler)
       \/ pc[p] = "first" /\ a.op = "link" /\ todo[p] = <<>> /\ ~MayLink(v, a.hauler)

RejectRequest(p) == Refused(p) /\ Reject(p)

(* PostgreSQL rolls back one transaction of a cycle of waits. When it is the *)
(* worker's, the poll fails and the next one finds the status unchanged.     *)
WaitsFor(p, q) == p # q /\ todo[p] # <<>> /\ lock[Head(todo[p])] = q

Cycle(S) == S # {} /\ \A p \in S : (\E q \in S : WaitsFor(p, q)) /\ (\E q \in S : WaitsFor(q, p))

DeadlockVictim(p) ==
    /\ \E S \in SUBSET Procs : p \in S /\ Cycle(S)
    /\ Reject(p)

NewRequest(p) ==
    \/ \E i \in Items, h \in Haulers : db[i] # None
          /\ Request(p, [op |-> "record", item |-> i, hauler |-> h], {List})
    \/ \E i \in Items : db[i] # None /\ Request(p, [op |-> "deliver", item |-> i], {List})
    \/ \E i \in Items : db[i] = None /\ Request(p, [op |-> "add", item |-> i], {List})
    \/ \E f \in Fulfillments : db[f] # None /\ Request(p, [op |-> "reverse", ful |-> f], {List})
    \/ \E h \in Haulers : db[h] # None /\ Request(p, [op |-> "settle", hauler |-> h], {List})
    \/ \E c \in Contracts : db[Issuer[c]] # None
          /\ Request(p, [op |-> "link", contract |-> c, hauler |-> Issuer[c]], {c, Issuer[c]})

RequestStep(p) ==
    \/ NewRequest(p) \/ LockList(p) \/ RecordFulfillment(p)
    \/ ReverseFulfillment(p) \/ RereadItem(p) \/ RewriteItem(p)
    \/ UpsertStart(p) \/ Upsert(p) \/ MarkDelivered(p) \/ AddItem(p)
    \/ LockLinkRow(p) \/ Link(p) \/ SettleByHand(p) \/ RejectRequest(p)

SettlementStep(p) ==
    \/ BillsStart(p) \/ SettleBill(p) \/ FlipStart(p) \/ FlipItem(p)
    \/ CloseStart(p) \/ CloseList(p)

RowsNext ==
    \/ \E p \in Requests : RequestStep(p)
    \/ \E c \in Contracts : FinishContract(c) \/ TerminalStart(c) \/ LockContract(c)
    \/ \E p \in Procs : SettlementStep(p) \/ Commit(p) \/ DeadlockVictim(p)

RowsSpec == RowsInit /\ [][RowsNext]_vars
-----------------------------------------------------------------------------
(* The tables hold what their columns allow, record_fulfillment never buys   *)
(* more than was requested, and no row is being written by two transactions. *)
RowsTypeOK ==
    /\ db[List] \in {"open", "closed"}
    /\ \A i \in Items : db[i] \in ItemRow \cup {None}
    /\ \A i \in Items : db[i] # None => db[i].filled <= Qty[i]
    /\ \A h \in Haulers : db[h] \in Bill \cup {None}
    /\ \A f \in Fulfillments : db[f] \in Purchase \cup {None}
    /\ \A p, q \in Procs : p # q => DOMAIN mine[p] \cap DOMAIN mine[q] = {}

(* What the NOT EXISTS of the flip is for: an item is settled only when      *)
(* every hauler who bought part of it has been paid. Its subquery is         *)
(* answered by the rows of the start, so with a third hauler it is not kept. *)
SettledIsPaid ==
    \A i \in Items, h \in Haulers :
        db[i] # None /\ db[i].status = "settled" /\ Covers(db, h, i) => ~Pending(db, h)

(* settle_via_contract settles an item that somebody is still owed for only  *)
(* after another purchase of the item was reversed while the bill it is in   *)
(* was being settled. In every other interleaving with settle_manual,        *)
(* record_fulfillment and reverse_fulfillment the guard of the flip holds.   *)
SettledUnpaidInRace ==
    \A i \in Items, h \in Haulers :
        db[i] # None /\ db[i].status = "settled" /\ Covers(db, h, i) /\ Pending(db, h) =>
            \E f \in raced : db[f] # None /\ db[f].item = i /\ ~db[f].live

(* A pending reimbursement adds up exactly the purchases of its hauler that  *)
(* are not reversed: upsert_reimbursement never leaves a stale sum behind.   *)
PendingIsExact ==
    \A h \in Haulers : Pending(db, h) => db[h].total = Bought(db, h)

(* record_fulfillment and reverse_fulfillment test the reimbursement without *)
(* a lock, so a purchase can miss, or outlive, the bill that is being        *)
(* settled. That needs the two transactions to overlap: no other purchase is *)
(* ever left out of, or reversed after, a settled reimbursement.             *)
MissedOnlyInRace ==
    \A h \in Haulers :
        db[h] # None /\ db[h].status = "settled" =>
            (db[h].total \ Bought(db, h)) \cup (Bought(db, h) \ db[h].total) \subseteq raced

(* Requests lock the list before anything else, so they never wait for each  *)
(* other in a circle: a deadlock has a settlement by contract in it.         *)
DeadlockNeedsContract ==
    \A S \in SUBSET Requests :
        Cycle(S) => \E p \in S : arg[p].op = "link"

(* A settled reimbursement is final: DO UPDATE ... WHERE status = 'pending'  *)
(* is tested on the row as it is after the wait.                             *)
BillFrozen ==
    [][\A h \in Haulers : db[h] # None /\ db[h].status = "settled" => db'[h] = db[h]]_vars

(* recompute_item_status says that it never demotes a settled item. It does: *)
(* reverse_fulfillment reads the item without a lock, so RewriteItem can     *)
(* write back a status computed before the item was settled. No run checks   *)
(* this formula; the README describes the behaviour.                         *)
SettledNeverDemoted ==
    [][\A i \in Items : db[i] # None /\ db[i].status = "settled" => db'[i].status = "settled"]_vars
=============================================================================
