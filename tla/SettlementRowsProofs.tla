------------------------ MODULE SettlementRowsProofs ------------------------
(***************************************************************************)
(* Proofs about SettlementRows: what the interleaved statements of any     *)
(* number of requests and contract transactions leave of the guarantees of *)
(* the atomic model, for every set of items, haulers and purchases.        *)
(***************************************************************************)
EXTENDS SettlementRows, FiniteSetTheorems, SequenceTheorems, TLAPS

-----------------------------------------------------------------------------
(* Where a transaction is, and what it is about.                           *)

Recording == [op : {"record"}, item : Items, hauler : Haulers]
OnItem == [op : {"deliver", "add"}, item : Items]
Reversing == [op : {"reverse"}, ful : Fulfillments]
ByHandOf == [op : {"settle"}, hauler : Haulers]
Linking == {a \in [op : {"link"}, contract : Contracts, hauler : Haulers] :
              a.hauler = Issuer[a.contract]}
Args == Recording \cup OnItem \cup Reversing \cup ByHandOf \cup Linking

Op(p) == IF p \in Contracts THEN "contract"
         ELSE IF pc[p] = "idle" THEN "none" ELSE arg[p].op

Settling == {"bills", "bill", "settled", "flip", "close", "commit"}

\* The statements of each kind of transaction.
AtStatement(p) ==
    /\ Op(p) = "record" => pc[p] \in {"first", "record", "recorded", "upsert", "commit"}
    /\ Op(p) = "reverse" =>
          pc[p] \in {"first", "reverse", "reread", "rewrite", "rewritten", "upsert", "commit"}
    /\ Op(p) = "deliver" => pc[p] \in {"first", "deliver", "commit"}
    /\ Op(p) = "add" => pc[p] \in {"first", "add", "commit"}
    /\ Op(p) = "settle" => pc[p] \in {"first", "settle", "settled", "flip", "close", "commit"}
    /\ Op(p) = "link" => pc[p] \in {"first"} \cup Settling
    /\ Op(p) = "contract" => pc[p] \in {"idle", "found", "contract", "done"} \cup Settling

Settler(p) == Op(p) \in {"settle", "link", "contract"}
Buyer(p) == Op(p) \in {"record", "reverse"}

\* Past lock_list.
Serial(p) == Op(p) \in {"record", "reverse", "deliver", "add", "settle"} /\ pc[p] # "first"

Shape(p) ==
    /\ p \in Contracts => arg[p] = None
    /\ p \in Requests => IF pc[p] = "idle" THEN arg[p] = None ELSE arg[p] \in Args
    /\ AtStatement(p)
    /\ Op(p) \in {"record", "deliver"} => db[arg[p].item] # None
    /\ Op(p) = "reverse" => db[arg[p].ful] # None
    /\ Op(p) \in {"settle", "link"} => db[arg[p].hauler] # None

Holds(p) ==
    /\ Serial(p) => lock[List] = p
    /\ p \in Requests /\ pc[p] \in {"idle", "first"} /\ Op(p) # "link" =>
          \A r \in Rows : lock[r] # p

\* Whom and what a purchase or a reversal is about.
Payee(p) == IF Op(p) = "record" THEN arg[p].hauler ELSE db[arg[p].ful].hauler
ItemOf(p) == IF Op(p) = "record" THEN arg[p].item ELSE db[arg[p].ful].item

-----------------------------------------------------------------------------
(* What a transaction waits for and remembers.                             *)

\* A purchase of the item was reversed while its bill was being settled.
Tainted(i) == \E f \in raced : db[f] # None /\ db[f].item = i /\ ~db[f].live

\* The guard of the flip still holds for an item of its snapshot, or a reversal raced.
MayFlip(p, i) ==
    /\ db[i] # None
    /\ \/ Tainted(i)
       \/ /\ db[i].filled = Qty[i]
          /\ \A g \in Haulers \ {HaulerOf(p)} : ~(Pending(db, g) /\ Covers(db, g, i))

\* A row of list_items that fits the purchases of v.
Sound(v, i, row) ==
    /\ row \in ItemRow
    /\ Units(v, i) <= row.filled /\ row.filled <= Qty[i]
    /\ row.filled < Qty[i] => row.status = "open"

Left(p) == {todo[p][n] : n \in 1 .. Len(todo[p])}

Waits(p) ==
    /\ todo[p] \in Seq(Rows)
    /\ pc[p] \in {"record", "deliver"} => todo[p] = <<arg[p].item>>
    /\ pc[p] \in {"settle", "bill"} => todo[p] = <<HaulerOf(p)>>
    /\ pc[p] = "upsert" => todo[p] = <<Payee(p)>> /\ seen[p] = Bought(View(p), Payee(p))
    /\ pc[p] = "rewrite" => /\ todo[p] = <<ItemOf(p)>>
                            /\ seen[p].status # "settled"
                            /\ Sound(View(p), ItemOf(p), seen[p])
    /\ pc[p] = "flip" => \A i \in Left(p) : i \in Items /\ MayFlip(p, i)
    /\ pc[p] = "first" /\ Op(p) = "link" => lock[arg[p].hauler] = p \/ arg[p].hauler \in Left(p)

-----------------------------------------------------------------------------
(* What a transaction has written and not committed.                       *)

Fresh == {"idle", "done", "found", "contract", "first", "record", "deliver", "add",
          "reverse", "settle"}

\* The purchase it records or reverses is its only one.
PurchaseMine(p, f) ==
    /\ Buyer(p) /\ Serial(p)
    /\ mine[p][f] \in Purchase /\ mine[p][f].hauler = Payee(p) /\ mine[p][f].item = ItemOf(p)
    /\ Op(p) = "record" => db[f] = None /\ mine[p][f].live /\ ItemOf(p) \in DOMAIN mine[p]
    /\ Op(p) = "reverse" => f = arg[p].ful /\ db[f].live /\ ~mine[p][f].live
    /\ pc[p] = "commit" => Payee(p) \in DOMAIN mine[p]
    /\ \A g \in DOMAIN mine[p] \cap Fulfillments : g = f

ItemMine(p, i) ==
    /\ Sound(View(p), i, mine[p][i])
    /\ IF db[i] = None THEN Op(p) = "add" ELSE lock[i] = p
    /\ Buyer(p) => i = ItemOf(p)
    /\ Op(p) = "record" => db[i].filled < Qty[i]
    /\ Settler(p) => /\ MayFlip(p, i)
                     /\ HaulerOf(p) \in DOMAIN mine[p]
                     /\ mine[p][HaulerOf(p)].status = "settled"
    /\ mine[p][i].status = "settled" => Settler(p)
    /\ ~Buyer(p) /\ db[i] # None => mine[p][i].filled = db[i].filled

BillMine(p, h) ==
    /\ lock[h] = p
    /\ Buyer(p) => h = Payee(p) /\ mine[p][h] = Upserted(db[h], Bought(View(p), h))
    /\ ~Buyer(p) => /\ Settler(p) /\ h = HaulerOf(p) /\ Pending(db, h)
                    /\ mine[p][h] \in Bill /\ mine[p][h].total = db[h].total

Mine(p) ==
    /\ DOMAIN mine[p] \subseteq Rows \ Contracts
    /\ pc[p] \in Fresh => DOMAIN mine[p] = {}
    /\ Op(p) = "reverse" /\ pc[p] \notin Fresh => arg[p].ful \in DOMAIN mine[p]
    /\ pc[p] \in {"settled", "flip", "close"} =>
          HaulerOf(p) \in DOMAIN mine[p] /\ mine[p][HaulerOf(p)].status = "settled"
    /\ List \in DOMAIN mine[p] => mine[p][List] = "closed" /\ lock[List] = p
    /\ \A f \in DOMAIN mine[p] \cap Fulfillments : PurchaseMine(p, f)
    /\ \A i \in DOMAIN mine[p] \cap Items : ItemMine(p, i)
    /\ \A h \in DOMAIN mine[p] \cap Haulers : BillMine(p, h)

Proc(p) == Shape(p) /\ Holds(p) /\ Waits(p) /\ Mine(p)
ProcInv == \A p \in Procs : Proc(p)

-----------------------------------------------------------------------------
(* The inductive invariant.                                                *)

Tables ==
    /\ DOMAIN db = Rows /\ lock \in [Rows -> Procs \cup {None}]
    /\ DOMAIN pc = Procs /\ DOMAIN arg = Procs /\ DOMAIN mine = Procs
    /\ DOMAIN seen = Procs /\ DOMAIN todo = Procs
    /\ raced \subseteq Fulfillments

\* The rows of the tables, and what they refer to.
RowsHold ==
    /\ db[List] \in {"open", "closed"}
    /\ \A i \in Items : db[i] # None => Sound(db, i, db[i])
    /\ \A h \in Haulers : db[h] \in Bill \cup {None}
    /\ \A f \in Fulfillments : db[f] # None =>
          db[f] \in Purchase /\ db[db[f].item] # None /\ db[db[f].hauler] # None

\* A purchase or a reversal is in raced as soon as the bill it belongs to is settled, by
\* anybody, committed or not.
RaceSeen ==
    \A p, q \in Procs : \A f \in DOMAIN mine[p] \cap Fulfillments :
        (\/ db[Payee(p)] # None /\ db[Payee(p)].status = "settled"
         \/ /\ p # q /\ Payee(p) \in DOMAIN mine[q]
            /\ mine[q][Payee(p)].status = "settled") => f \in raced

RowsInv == /\ Tables /\ ProcInv /\ RaceSeen /\ RowsHold
           /\ PendingIsExact /\ MissedOnlyInRace /\ SettledUnpaidInRace

-----------------------------------------------------------------------------
(* Orders of rows.                                                         *)

\* Every order lists rows the statement has to lock.
LEMMA OrderOfRows ==
    ASSUME NEW S, IsFiniteSet(S), NEW s \in SetToSeqs(S)
    PROVE  /\ s \in Seq(S) /\ Len(s) = Cardinality(S)
           /\ \A n \in 1 .. Len(s) : s[n] \in S
           /\ \A m, n \in 1 .. Len(s) : m # n => s[m] # s[n]
<1>1. Cardinality(S) \in Nat
    BY FS_CardinalityType
<1> QED
    BY <1>1 DEF SetToSeqs

\* A statement that locks no row, or one row, has no choice of an order.
LEMMA FewRows ==
    ASSUME NEW x
    PROVE  /\ \A s \in SetToSeqs({}) : s = <<>>
           /\ \A s \in SetToSeqs({x}) : s = <<x>>
<1>1. \A s \in SetToSeqs({}) : s = <<>>
    <2> TAKE s \in SetToSeqs({})
    <2>1. s \in Seq({}) /\ Len(s) = 0
        BY FS_EmptySet, OrderOfRows
    <2> QED
        BY <2>1, EmptySeq
<1>2. \A s \in SetToSeqs({x}) : s = <<x>>
    <2> TAKE s \in SetToSeqs({x})
    <2>1. IsFiniteSet({x}) /\ Cardinality({x}) = 1
        BY FS_Singleton
    <2>2. s \in Seq({x}) /\ Len(s) = 1
        BY <2>1, OrderOfRows
    <2>3. <<x>> \in Seq({x}) /\ Len(<<x>>) = 1 /\ <<x>>[1] = x
        OBVIOUS
    <2>4. \A n \in 1 .. Len(s) : s[n] = <<x>>[n]
        BY <2>2, <2>3, ElementOfSeq
    <2> QED
        BY <2>2, <2>3, <2>4, SeqEqual
<1> QED
    BY <1>1, <1>2

\* A statement on two rows locks both.
LEMMA TwoRows ==
    ASSUME NEW x, NEW y, x # y, NEW s \in SetToSeqs({x, y})
    PROVE  /\ s \in Seq({x, y})
           /\ \E n \in 1 .. Len(s) : s[n] = y
<1>1. IsFiniteSet({x}) /\ Cardinality({x}) = 1
    BY FS_Singleton
<1>2. IsFiniteSet({x} \cup {y}) /\ Cardinality({x} \cup {y}) = 2
    <2>1. y \notin {x}
        OBVIOUS
    <2> QED
        BY <1>1, <2>1, FS_AddElement, 1 + 1 = 2
<1>3. {x} \cup {y} = {x, y}
    OBVIOUS
<1>4. /\ s \in Seq({x, y}) /\ Len(s) = 2
      /\ \A n \in 1 .. Len(s) : s[n] \in {x, y}
      /\ \A m, n \in 1 .. Len(s) : m # n => s[m] # s[n]
    <2>1. IsFiniteSet({x, y}) /\ Cardinality({x, y}) = 2
        BY <1>2, <1>3
    <2> QED
        BY <2>1, OrderOfRows
<1>5. 1 \in 1 .. Len(s) /\ 2 \in 1 .. Len(s) /\ 1 # 2
    BY <1>4
<1> QED
    BY <1>4, <1>5

\* The rest of a statement once a row is granted.
LEMMA RestOfRows ==
    ASSUME NEW S, NEW s \in Seq(S), s # <<>>
    PROVE  /\ Head(s) \in S /\ Tail(s) \in Seq(S)
           /\ Head(s) \in {s[n] : n \in 1 .. Len(s)}
           /\ {Tail(s)[n] : n \in 1 .. Len(Tail(s))} \subseteq {s[n] : n \in 1 .. Len(s)}
           /\ \A x \in {s[n] : n \in 1 .. Len(s)} :
                 x = Head(s) \/ x \in {Tail(s)[n] : n \in 1 .. Len(Tail(s))}
<1>1. /\ Head(s) \in S /\ Tail(s) \in Seq(S) /\ Len(Tail(s)) = Len(s) - 1
      /\ \A i \in 1 .. Len(Tail(s)) : Tail(s)[i] = s[i + 1]
    BY HeadTailProperties
<1>2. Len(s) \in Nat \ {0} /\ Head(s) = s[1]
    BY EmptySeq
<1>3. \A n \in 1 .. Len(s) - 1 : n + 1 \in 1 .. Len(s)
    BY <1>2
<1>4. \A n \in 1 .. Len(s) : n = 1 \/ (n - 1 \in 1 .. Len(s) - 1 /\ (n - 1) + 1 = n)
    BY <1>2
<1>5. Head(s) \in {s[n] : n \in 1 .. Len(s)}
    BY <1>2
<1>6. {Tail(s)[n] : n \in 1 .. Len(Tail(s))} \subseteq {s[n] : n \in 1 .. Len(s)}
    BY <1>1, <1>3
<1>7. \A x \in {s[n] : n \in 1 .. Len(s)} :
         x = Head(s) \/ x \in {Tail(s)[n] : n \in 1 .. Len(Tail(s))}
    BY <1>1, <1>2, <1>4
<1> QED
    BY <1>1, <1>5, <1>6, <1>7

-----------------------------------------------------------------------------
(* Purchases.                                                              *)

\* What is bought depends on the rows of fulfillments only.
LEMMA SamePurchases ==
    ASSUME NEW v, NEW w, \A f \in Fulfillments : v[f] = w[f]
    PROVE  /\ \A h : Bought(v, h) = Bought(w, h)
           /\ \A i : Units(v, i) = Units(w, i)
           /\ \A h, i : Covers(v, h, i) <=> Covers(w, h, i)
<1>1. \A f \in Fulfillments : Live(v, f) <=> Live(w, f)
    BY DEF Live
<1>2. \A h : Bought(v, h) = Bought(w, h)
    BY <1>1 DEF Bought
<1>3. \A i : {f \in Fulfillments : Live(v, f) /\ v[f].item = i}
             = {f \in Fulfillments : Live(w, f) /\ w[f].item = i}
    BY <1>1
<1>4. \A i : Units(v, i) = Units(w, i)
    BY <1>3 DEF Units
<1>5. \A h, i : Covers(v, h, i) <=> Covers(w, h, i)
    BY <1>2 DEF Covers, Bought
<1> QED
    BY <1>2, <1>4, <1>5

\* The units bought of an item are a number.
LEMMA UnitsType ==
    ASSUME NEW v, NEW i
    PROVE  /\ Units(v, i) \in Nat /\ Cardinality(Fulfillments) \in Nat
           /\ Units(v, i) \in 0 .. Cardinality(Fulfillments)
<1>1. {f \in Fulfillments : Live(v, f) /\ v[f].item = i} \in SUBSET Fulfillments
    OBVIOUS
<1>2. IsFiniteSet(Fulfillments)
    BY KeysAssumption
<1>3. Cardinality(Fulfillments) \in Nat
    BY <1>2, FS_CardinalityType
<1>4. Units(v, i) \in Nat /\ Units(v, i) <= Cardinality(Fulfillments)
    BY <1>1, <1>2, FS_Subset, FS_CardinalityType DEF Units
<1> QED
    BY <1>3, <1>4

\* Fewer purchases of an item are fewer units.
LEMMA FewerUnits ==
    ASSUME NEW v, NEW w, NEW i,
           \A f \in Fulfillments : Live(w, f) /\ w[f].item = i => Live(v, f) /\ v[f].item = i
    PROVE  Units(w, i) <= Units(v, i)
<1>1. {f \in Fulfillments : Live(w, f) /\ w[f].item = i}
      \in SUBSET {f \in Fulfillments : Live(v, f) /\ v[f].item = i}
    OBVIOUS
<1>2. IsFiniteSet({f \in Fulfillments : Live(v, f) /\ v[f].item = i})
    <2>1. {f \in Fulfillments : Live(v, f) /\ v[f].item = i} \in SUBSET Fulfillments
        OBVIOUS
    <2> QED
        BY <2>1, KeysAssumption, FS_Subset
<1> QED
    BY <1>1, <1>2, FS_Subset DEF Units

\* A purchase more of an item is a unit more.
LEMMA UnitMore ==
    ASSUME NEW v, NEW w, NEW i, NEW f \in Fulfillments,
           v[f] = None, Live(w, f), w[f].item = i,
           \A g \in Fulfillments \ {f} : v[g] = w[g]
    PROVE  Units(w, i) = Units(v, i) + 1
<1> DEFINE S == {g \in Fulfillments : Live(v, g) /\ v[g].item = i}
<1> DEFINE T == {g \in Fulfillments : Live(w, g) /\ w[g].item = i}
<1>1. T = S \cup {f} /\ f \notin S
    BY DEF Live
<1>2. S \in SUBSET Fulfillments
    OBVIOUS
<1>3. IsFiniteSet(S)
    BY <1>2, KeysAssumption, FS_Subset
<1>4. Cardinality(T) = Cardinality(S) + 1
    <2> HIDE DEF S, T
    <2> QED
        BY <1>1, <1>3, FS_AddElement
<1> QED
    BY <1>4 DEF Units

-----------------------------------------------------------------------------
(* Transactions.                                                           *)

\* What a transaction of each kind is about.
LEMMA ArgOf ==
    ASSUME NEW p \in Procs, Shape(p)
    PROVE  /\ Op(p) \in {"none", "record", "reverse", "deliver", "add", "settle", "link",
                         "contract"}
           /\ Op(p) = "contract" <=> p \in Contracts
           /\ Op(p) # "contract" => p \in Requests
           /\ Op(p) = "none" <=> p \in Requests /\ pc[p] = "idle"
           /\ Op(p) = "record" => arg[p] \in Recording
           /\ Op(p) \in {"deliver", "add"} => arg[p] \in OnItem
           /\ Op(p) = "reverse" => arg[p] \in Reversing
           /\ Op(p) = "settle" => arg[p] \in ByHandOf
           /\ Op(p) = "link" => arg[p] \in Linking
           /\ Settler(p) => HaulerOf(p) \in Haulers
           /\ Settler(p) => ~Buyer(p)
           /\ Op(p) \notin {"none", "contract"} => arg[p].op = Op(p)
<1>1. p \in Contracts => p \notin Requests
    BY KeysAssumption DEF Procs
<1>2. CASE p \in Contracts
    BY <1>1, <1>2, RowsAssumption DEF Op, Settler, Buyer, HaulerOf
<1>3. CASE p \notin Contracts /\ pc[p] = "idle"
    BY <1>3 DEF Op, Settler, Buyer, Procs
<1>4. CASE p \notin Contracts /\ pc[p] # "idle"
    <2>1. p \in Requests /\ arg[p] \in Args /\ Op(p) = arg[p].op
        BY <1>4 DEF Op, Procs, Shape
    <2>2. /\ \A a \in Recording : a.op = "record"
          /\ \A a \in OnItem : a.op \in {"deliver", "add"}
          /\ \A a \in Reversing : a.op = "reverse"
          /\ \A a \in ByHandOf : a.op = "settle" /\ a.hauler \in Haulers
          /\ \A a \in Linking : a.op = "link" /\ a.hauler \in Haulers
        BY DEF Recording, OnItem, Reversing, ByHandOf, Linking
    <2> QED
        BY <1>4, <2>1, <2>2 DEF Args, Settler, Buyer, HaulerOf
<1> QED
    BY <1>2, <1>3, <1>4

\* The kind of a transaction, told from the statement it is at.
LEMMA KindAt ==
    ASSUME NEW p \in Procs, Shape(p)
    PROVE  /\ pc[p] \in {"record", "recorded"} => Op(p) = "record"
           /\ pc[p] \in {"reverse", "reread", "rewrite", "rewritten"} => Op(p) = "reverse"
           /\ pc[p] = "upsert" => Buyer(p)
           /\ pc[p] = "deliver" => Op(p) = "deliver"
           /\ pc[p] = "add" => Op(p) = "add"
           /\ pc[p] = "settle" => Op(p) = "settle"
           /\ pc[p] \in {"bills", "bill"} => Op(p) \in {"link", "contract"}
           /\ pc[p] \in {"settled", "flip", "close"} => Settler(p)
           /\ pc[p] = "first" => Op(p) \notin {"none", "contract"}
           /\ pc[p] \in {"found", "contract", "done"} => Op(p) = "contract"
           /\ pc[p] = "commit" => Op(p) # "none"
BY ArgOf DEF Shape, AtStatement, Settling, Settler, Buyer

\* The tables have no row in common.
LEMMA Keys ==
    /\ List \in Rows /\ Items \subseteq Rows /\ Haulers \subseteq Rows
    /\ Fulfillments \subseteq Rows /\ Contracts \subseteq Rows
    /\ List \notin Items /\ List \notin Haulers /\ List \notin Fulfillments /\ List \notin Contracts
    /\ \A i \in Items : i \notin Haulers /\ i \notin Fulfillments /\ i \notin Contracts
    /\ \A h \in Haulers : h \notin Fulfillments /\ h \notin Contracts /\ h \notin Items
    /\ \A f \in Fulfillments : f \notin Contracts /\ f \notin Haulers /\ f \notin Items
    /\ None \notin Procs /\ None \notin Rows
    /\ \A p \in Requests : p \notin Contracts
BY KeysAssumption DEF Rows

\* What a transaction sees.
LEMMA ViewOf ==
    ASSUME NEW p \in Procs
    PROVE  \A r \in Rows : View(p)[r] = IF r \in DOMAIN mine[p] THEN mine[p][r] ELSE db[r]
BY DEF View

\* Only a transaction that buys or reverses sees other purchases than the committed ones.
LEMMA SeesCommitted ==
    ASSUME NEW p \in Procs, Mine(p), ~(Buyer(p) /\ Serial(p))
    PROVE  \A f \in Fulfillments : f \notin DOMAIN mine[p] /\ View(p)[f] = db[f]
BY ViewOf, Keys DEF Mine, PurchaseMine

\* The row lock that keeps a written row to its transaction.
Guard(r) == IF r \in Fulfillments \/ (r \in Items /\ db[r] = None) THEN List ELSE r

\* Whoever has written a row holds the lock that guards it.
LEMMA WritersGuard ==
    ASSUME NEW p \in Procs, Proc(p), NEW r \in DOMAIN mine[p]
    PROVE  lock[Guard(r)] = p
<1>1. r \in {List} \cup Items \cup Haulers \cup Fulfillments
    BY DEF Proc, Mine, Rows
<1>2. CASE r = List
    BY <1>2, Keys DEF Proc, Mine, Guard
<1>3. CASE r \in Haulers
    BY <1>3, Keys DEF Proc, Mine, Guard, BillMine
<1>4. CASE r \in Fulfillments
    BY <1>4, Keys DEF Proc, Mine, Guard, PurchaseMine, Holds
<1>5. CASE r \in Items /\ db[r] # None
    BY <1>5, Keys DEF Proc, Mine, Guard, ItemMine
<1>6. CASE r \in Items /\ db[r] = None
    <2>1. Op(p) = "add" /\ pc[p] # "first"
        BY <1>6 DEF Proc, Mine, ItemMine, Fresh
    <2> QED
        BY <1>6, <2>1 DEF Proc, Holds, Serial, Guard
<1> QED
    BY <1>1, <1>2, <1>3, <1>4, <1>5, <1>6

\* No row is being written by two transactions.
LEMMA OneWriter ==
    ASSUME ProcInv, NEW p \in Procs, NEW q \in Procs, p # q
    PROVE  DOMAIN mine[p] \cap DOMAIN mine[q] = {}
BY WritersGuard DEF ProcInv

-----------------------------------------------------------------------------
(* Steps of others.                                                        *)

\* A step of p leaves the memory and the locks of the others alone.
Local(p) ==
    /\ \A q \in Procs \ {p} : /\ pc'[q] = pc[q] /\ arg'[q] = arg[q] /\ mine'[q] = mine[q]
                              /\ seen'[q] = seen[q] /\ todo'[q] = todo[q]
                              /\ \A r \in Rows : lock'[r] = q <=> lock[r] = q
    /\ raced \subseteq raced'

\* Only rows of contracts change.
Quiet == \A r \in Rows \ Contracts : db'[r] = db[r]

\* What is not changed by a step of another transaction.
LEMMA Unmoved ==
    ASSUME NEW p \in Procs, NEW q \in Procs, p # q, Local(p)
    PROVE  /\ Op(q)' = Op(q) /\ Settler(q)' = Settler(q) /\ Buyer(q)' = Buyer(q)
           /\ Serial(q)' = Serial(q) /\ HaulerOf(q)' = HaulerOf(q) /\ Left(q)' = Left(q)
           /\ AtStatement(q)' = AtStatement(q) /\ Holds(q)' = Holds(q)
<1>1. /\ pc'[q] = pc[q] /\ arg'[q] = arg[q] /\ todo'[q] = todo[q]
      /\ \A r \in Rows : lock'[r] = q <=> lock[r] = q
    BY DEF Local
<1>2. Op(q)' = Op(q)
    BY <1>1 DEF Op
<1>3. Serial(q)' = Serial(q)
    BY <1>1, <1>2 DEF Serial
<1> QED
    BY <1>1, <1>2, <1>3, Keys DEF Settler, Buyer, HaulerOf, Left, AtStatement, Holds

\* A reversal that raced stays one.
LEMMA TaintStays ==
    ASSUME NEW i, raced \subseteq Fulfillments, raced \subseteq raced', Tainted(i),
           \A f \in Fulfillments : db[f] # None /\ ~db[f].live => db'[f] = db[f]
    PROVE  Tainted(i)'
BY DEF Tainted

\* A step of another transaction that commits nothing of the list does not concern q.
LEMMA OthersStay ==
    ASSUME NEW p \in Procs, NEW q \in Procs, p # q, Local(p), Quiet,
           RowsHold, Proc(q), raced \subseteq Fulfillments
    PROVE  Proc(q)'
<1>1. /\ pc'[q] = pc[q] /\ arg'[q] = arg[q] /\ todo'[q] = todo[q] /\ seen'[q] = seen[q]
      /\ mine'[q] = mine[q] /\ \A r \in Rows : lock'[r] = q <=> lock[r] = q
    BY DEF Local
<1>2. /\ db'[List] = db[List] /\ \A i \in Items : db'[i] = db[i]
      /\ \A h \in Haulers : db'[h] = db[h]
      /\ \A f \in Fulfillments : db'[f] = db[f]
    BY Keys DEF Quiet
<1>3. \A r \in Rows \ Contracts : View(q)'[r] = View(q)[r]
    BY <1>1 DEF View, Quiet
<1>4. /\ \A h : Bought(View(q), h)' = Bought(View(q), h)
      /\ \A i : Units(View(q), i)' = Units(View(q), i)
    BY <1>3, SamePurchases, Keys
<1>5. \A h : Pending(db, h) /\ h \in Haulers => Pending(db', h)
    BY <1>2 DEF Pending
<1>6. Buyer(q) => /\ Payee(q)' = Payee(q) /\ ItemOf(q)' = ItemOf(q)
                  /\ Payee(q) \in Haulers /\ ItemOf(q) \in Items
    <2> HAVE Buyer(q)
    <2>1. CASE Op(q) = "record"
        <3>1. arg[q] \in Recording
            BY <2>1, ArgOf DEF Proc
        <3> QED
            BY <2>1, <3>1, <1>1, Unmoved DEF Payee, ItemOf, Recording
    <2>2. CASE Op(q) = "reverse"
        <3>1. arg[q].ful \in Fulfillments /\ db[arg[q].ful] # None
            BY <2>2, ArgOf DEF Proc, Shape, Reversing
        <3>2. db[arg[q].ful] \in Purchase
            BY <3>1 DEF RowsHold
        <3> QED
            BY <2>2, <3>1, <3>2, <1>1, <1>2, Unmoved DEF Payee, ItemOf, Purchase
    <2> QED
        BY <2>1, <2>2 DEF Buyer
<1>7. \A i \in Items : MayFlip(q, i) => MayFlip(q, i)'
    <2> TAKE i \in Items
    <2> HAVE MayFlip(q, i)
    <2>1. Tainted(i) => Tainted(i)'
        BY <1>2, TaintStays DEF Local
    <2>2. \A g \in Haulers : Pending(db, g)' = Pending(db, g)
        BY <1>2 DEF Pending
    <2>3. \A g : Covers(db, g, i)' <=> Covers(db, g, i)
        BY <1>2, SamePurchases
    <2>4. HaulerOf(q)' = HaulerOf(q)
        BY Unmoved
    <2> QED
        BY <1>2, <2>1, <2>2, <2>3, <2>4 DEF MayFlip
<1>8. \A i, row : Sound(View(q), i, row) => Sound(View(q), i, row)'
    BY <1>4 DEF Sound
<1>9. Shape(q)'
    <2>1. /\ Op(q) \in {"record", "deliver"} => arg[q].item \in Items
          /\ Op(q) = "reverse" => arg[q].ful \in Fulfillments
          /\ Op(q) \in {"settle", "link"} => arg[q].hauler \in Haulers
        BY ArgOf DEF Proc, Recording, OnItem, Reversing, ByHandOf, Linking
    <2> QED
        BY <1>1, <1>2, <2>1, Unmoved DEF Proc, Shape
<1>10. Holds(q)'
    BY Unmoved DEF Proc
<1>11. Waits(q)'
    <2>1. pc[q] = "upsert" => todo[q] = <<Payee(q)>>' /\ seen[q] = Bought(View(q), Payee(q))'
        BY <1>4, <1>6, KindAt DEF Proc, Waits
    <2>2. pc[q] = "rewrite" => /\ todo[q] = <<ItemOf(q)>>' /\ seen[q].status # "settled"
                               /\ Sound(View(q), ItemOf(q), seen[q])'
        <3> HAVE pc[q] = "rewrite"
        <3>1. Buyer(q)
            BY KindAt DEF Proc, Buyer
        <3> QED
            BY <1>1, <1>6, <1>8, <3>1 DEF Proc, Waits
    <2>3. pc[q] = "flip" => \A i \in Left(q) : i \in Items /\ MayFlip(q, i)'
        BY <1>7 DEF Proc, Waits
    <2>4. pc[q] = "first" /\ Op(q) = "link" =>
             lock'[arg[q].hauler] = q \/ arg[q].hauler \in Left(q)
        <3>1. Op(q) = "link" => arg[q].hauler \in Rows
            BY ArgOf, Keys DEF Proc, Linking
        <3> QED
            BY <1>1, <3>1 DEF Proc, Waits
    <2> QED
        BY <1>1, <2>1, <2>2, <2>3, <2>4, Unmoved DEF Proc, Waits
<1>12. Mine(q)'
    <2>1. \A f \in DOMAIN mine[q] \cap Fulfillments : PurchaseMine(q, f)'
        <3> TAKE f \in DOMAIN mine[q] \cap Fulfillments
        <3>1. PurchaseMine(q, f)
            BY DEF Proc, Mine
        <3> QED
            BY <1>1, <1>2, <1>6, <3>1, Unmoved DEF PurchaseMine
    <2>2. \A i \in DOMAIN mine[q] \cap Items : ItemMine(q, i)'
        <3> TAKE i \in DOMAIN mine[q] \cap Items
        <3>1. ItemMine(q, i)
            BY DEF Proc, Mine
        <3>2. MayFlip(q, i) => MayFlip(q, i)'
            BY <1>7
        <3>3. Sound(View(q), i, mine[q][i])'
            BY <1>1, <1>8, <3>1 DEF ItemMine
        <3>4. lock'[i] = q <=> lock[i] = q
            BY <1>1, Keys
        <3> QED
            BY <1>1, <1>2, <1>6, <3>1, <3>2, <3>3, <3>4, Unmoved DEF ItemMine
    <2>3. \A h \in DOMAIN mine[q] \cap Haulers : BillMine(q, h)'
        <3> TAKE h \in DOMAIN mine[q] \cap Haulers
        <3>1. BillMine(q, h)
            BY DEF Proc, Mine
        <3>2. lock'[h] = q <=> lock[h] = q
            BY <1>1, Keys
        <3>3. Bought(View(q), h)' = Bought(View(q), h) /\ Pending(db, h)' = Pending(db, h)
            BY <1>2, <1>4 DEF Pending
        <3> QED
            BY <1>1, <1>2, <1>6, <3>1, <3>2, <3>3, Unmoved DEF BillMine
    <2>4. lock'[List] = q <=> lock[List] = q
        BY <1>1, Keys
    <2> QED
        BY <1>1, <2>1, <2>2, <2>3, <2>4, Unmoved DEF Proc, Mine
<1> QED
    BY <1>9, <1>10, <1>11, <1>12 DEF Proc

-----------------------------------------------------------------------------
(* COMMIT.                                                                 *)

\* What upsert_reimbursement makes of a row.
LEMMA UpsertedRow ==
    ASSUME NEW row \in Bill \cup {None}, NEW total \in SUBSET Fulfillments
    PROVE  /\ Upserted(row, total) \in Bill /\ Upserted(row, total) # None
           /\ row # None /\ row.status = "settled" => Upserted(row, total) = row
           /\ row = None \/ row.status = "pending" =>
                 Upserted(row, total).status = "pending" /\ Upserted(row, total).total = total
           /\ Upserted(Upserted(row, total), total) = Upserted(row, total)
<1>1. None \notin Bill
    BY NullAssumption
<1>2. CASE row = None
    BY <1>1, <1>2 DEF Upserted, Bill
<1>3. CASE row \in Bill /\ row.status = "pending"
    BY <1>1, <1>3 DEF Upserted, Bill
<1>4. CASE row \in Bill /\ row.status = "settled"
    BY <1>1, <1>4 DEF Upserted, Bill
<1> QED
    BY <1>2, <1>3, <1>4 DEF Bill

\* The purchases of a hauler are purchases.
LEMMA BoughtType ==
    ASSUME NEW v, NEW h
    PROVE  Bought(v, h) \in SUBSET Fulfillments
BY DEF Bought

\* The payee and the item of a purchase that is being recorded or reversed.
LEMMA PurchaseOf ==
    ASSUME NEW p \in Procs, Shape(p), RowsHold, Buyer(p)
    PROVE  /\ Payee(p) \in Haulers /\ ItemOf(p) \in Items /\ db[ItemOf(p)] # None
           /\ Op(p) = "reverse" => db[arg[p].ful] \in Purchase /\ db[Payee(p)] # None
<1>1. CASE Op(p) = "record"
    BY <1>1, ArgOf DEF Payee, ItemOf, Recording, Shape
<1>2. CASE Op(p) = "reverse"
    <2>1. arg[p].ful \in Fulfillments /\ db[arg[p].ful] # None
        BY <1>2, ArgOf DEF Shape, Reversing
    <2> QED
        BY <1>2, <2>1 DEF RowsHold, Payee, ItemOf, Purchase
<1> QED
    BY <1>1, <1>2 DEF Buyer

\* The rows a transaction writes have the types of their tables.
LEMMA WrittenRows ==
    ASSUME NEW p \in Procs, Proc(p), RowsHold
    PROVE  /\ \A i \in DOMAIN mine[p] \cap Items : mine[p][i] \in ItemRow /\ mine[p][i] # None
           /\ \A h \in DOMAIN mine[p] \cap Haulers : mine[p][h] \in Bill /\ mine[p][h] # None
           /\ \A f \in DOMAIN mine[p] \cap Fulfillments :
                 /\ mine[p][f] \in Purchase /\ mine[p][f] # None
                 /\ db[f] # None => /\ Op(p) = "reverse" /\ f = arg[p].ful /\ db[f].live
                                    /\ mine[p][f].item = db[f].item
                                    /\ mine[p][f].hauler = db[f].hauler
<1>1. None \notin ItemRow /\ None \notin Bill /\ None \notin Purchase
    BY NullAssumption
<1>2. \A i \in DOMAIN mine[p] \cap Items : mine[p][i] \in ItemRow
    BY DEF Proc, Mine, ItemMine, Sound
<1>3. \A h \in DOMAIN mine[p] \cap Haulers : mine[p][h] \in Bill
    BY UpsertedRow, BoughtType DEF Proc, Mine, BillMine, RowsHold
<1>4. \A f \in DOMAIN mine[p] \cap Fulfillments : mine[p][f] \in Purchase
    BY DEF Proc, Mine, PurchaseMine
<1>5. \A f \in DOMAIN mine[p] \cap Fulfillments : db[f] # None =>
             /\ Op(p) = "reverse" /\ f = arg[p].ful /\ db[f].live
             /\ mine[p][f].item = db[f].item /\ mine[p][f].hauler = db[f].hauler
    BY DEF Proc, Mine, PurchaseMine, Buyer, Payee, ItemOf
<1> QED
    BY <1>1, <1>2, <1>3, <1>4, <1>5

\* What a commit does.
LEMMA CommitDoes ==
    ASSUME Tables, NEW p \in Procs, Commit(p)
    PROVE  /\ Local(p) /\ raced' = raced /\ mine' = [mine EXCEPT ![p] = Nothing]
           /\ DOMAIN mine'[p] = {}
           /\ \A r \in Rows : db'[r] = IF r \in DOMAIN mine[p] THEN mine[p][r] ELSE db[r]
           /\ \A r : db'[r] = View(p)[r]
           /\ \A h : Bought(db, h)' = Bought(View(p), h)
           /\ \A i : Units(db, i)' = Units(View(p), i)
<1>1. db' = View(p) /\ Finish(p) /\ raced' = raced
    BY DEF Commit
<1>2. Local(p)
    BY <1>1, Keys DEF Finish, Local, Tables
<1>3. DOMAIN mine'[p] = {}
    BY <1>1 DEF Finish, Tables, Nothing
<1> QED
    BY <1>1, <1>2, <1>3, ViewOf DEF Finish

\* Rows are never taken away, and a reversed purchase stays as it is.
LEMMA CommitKeepsRows ==
    ASSUME RowsInv, NEW p \in Procs, Commit(p)
    PROVE  /\ \A r \in Items \cup Haulers \cup Fulfillments : db[r] # None => db'[r] # None
           /\ \A f \in Fulfillments : db[f] # None =>
                 /\ db'[f].item = db[f].item /\ db'[f].hauler = db[f].hauler
                 /\ ~db[f].live => db'[f] = db[f]
           /\ \A h \in Haulers : db[h] # None /\ db[h].status = "settled" => db'[h] = db[h]
<1>1. Tables /\ Proc(p) /\ RowsHold
    BY DEF RowsInv, ProcInv
<1>2. \A r \in Rows : db'[r] = IF r \in DOMAIN mine[p] THEN mine[p][r] ELSE db[r]
    BY <1>1, CommitDoes
<1>3. \A h \in Haulers : db[h] # None /\ db[h].status = "settled" => db'[h] = db[h]
    <2> TAKE h \in Haulers
    <2> HAVE db[h] # None /\ db[h].status = "settled"
    <2>1. CASE h \notin DOMAIN mine[p]
        BY <1>2, <2>1, Keys
    <2>2. CASE h \in DOMAIN mine[p]
        <3>1. BillMine(p, h)
            BY <1>1, <2>2 DEF Proc, Mine
        <3>2. Buyer(p)
            BY <3>1 DEF BillMine, Pending
        <3>3. mine[p][h] = Upserted(db[h], Bought(View(p), h))
            BY <3>1, <3>2 DEF BillMine
        <3>4. db[h] \in Bill \cup {None}
            BY <1>1 DEF RowsHold
        <3> QED
            BY <1>2, <2>2, <3>3, <3>4, UpsertedRow, BoughtType, Keys
    <2> QED
        BY <2>1, <2>2
<1> QED
    BY <1>1, <1>2, <1>3, WrittenRows, Keys

\* A purchase that a commit reverses has raced if its bill is settled by then.
LEMMA ReversalTaints ==
    ASSUME RowsInv, NEW p \in Procs, Commit(p), Op(p) = "reverse", NEW i, i = ItemOf(p),
           NEW f \in DOMAIN mine[p] \cap Fulfillments, NEW q \in Procs,
           \/ db[Payee(p)] # None /\ db[Payee(p)].status = "settled"
           \/ /\ p # q /\ Payee(p) \in DOMAIN mine[q]
              /\ mine[q][Payee(p)].status = "settled"
    PROVE  Tainted(i)'
<1>1. Tables /\ Proc(p) /\ RowsHold /\ RaceSeen
    BY DEF RowsInv, ProcInv
<1>2. f \in raced
    BY <1>1 DEF RaceSeen
<1>3. PurchaseMine(p, f)
    BY <1>1 DEF Proc, Mine
<1>4. mine[p][f] # None /\ mine[p][f].item = i /\ ~mine[p][f].live
    BY <1>1, <1>3, WrittenRows DEF PurchaseMine
<1>5. db'[f] = mine[p][f] /\ raced' = raced
    BY <1>1, CommitDoes, Keys
<1> QED
    BY <1>2, <1>4, <1>5 DEF Tainted

\* The purchases that a commit adds, and those that it may take away.
LEMMA CommitBuys ==
    ASSUME RowsInv, NEW p \in Procs, Commit(p), NEW f \in Fulfillments, Live(db', f)
    PROVE  \/ f \notin DOMAIN mine[p] /\ db'[f] = db[f] /\ Live(db, f)
           \/ /\ f \in DOMAIN mine[p] /\ Op(p) = "record" /\ db'[f].hauler = Payee(p)
              /\ db'[f].item = ItemOf(p) /\ ItemOf(p) \in DOMAIN mine[p]
<1>1. Tables /\ Proc(p)
    BY DEF RowsInv, ProcInv
<1>2. db'[f] = IF f \in DOMAIN mine[p] THEN mine[p][f] ELSE db[f]
    BY <1>1, CommitDoes, Keys
<1>3. CASE f \in DOMAIN mine[p]
    <2>1. PurchaseMine(p, f)
        BY <1>1, <1>3 DEF Proc, Mine
    <2> QED
        BY <1>2, <1>3, <2>1 DEF PurchaseMine, Live, Buyer
<1> QED
    BY <1>2, <1>3 DEF Live

\* A commit leaves no bill pending that was not, unless it is the first of its hauler.
LEMMA CommitBills ==
    ASSUME RowsInv, NEW p \in Procs, Commit(p), NEW h \in Haulers, Pending(db', h)
    PROVE  /\ db[h] # None => Pending(db, h)
           /\ ~Buyer(p) => Pending(db, h)
<1>1. Tables /\ Proc(p) /\ RowsHold
    BY DEF RowsInv, ProcInv
<1>2. db'[h] = IF h \in DOMAIN mine[p] THEN mine[p][h] ELSE db[h]
    BY <1>1, CommitDoes, Keys
<1>3. CASE h \notin DOMAIN mine[p]
    BY <1>2, <1>3 DEF Pending
<1>4. CASE h \in DOMAIN mine[p]
    <2>1. BillMine(p, h) /\ db[h] \in Bill \cup {None}
        BY <1>1, <1>4 DEF Proc, Mine, RowsHold
    <2>2. db[h] # None => db[h].status \in {"pending", "settled"}
        BY <2>1 DEF Bill
    <2>3. CASE Buyer(p)
        BY <1>2, <1>4, <2>1, <2>2, <2>3, UpsertedRow, BoughtType DEF BillMine, Pending
    <2> QED
        BY <2>1, <2>3 DEF BillMine
<1> QED
    BY <1>3, <1>4

\* An item of a snapshot stays flippable while others commit: a reversal that would
\* reopen it is one that raced, and nothing can be bought of a full item.
LEMMA FlipStays ==
    ASSUME RowsInv, NEW p \in Procs, NEW q \in Procs, p # q, Commit(p),
           Settler(q), HaulerOf(q) \in DOMAIN mine[q], mine[q][HaulerOf(q)].status = "settled",
           NEW i \in Items, MayFlip(q, i)
    PROVE  MayFlip(q, i)'
<1>1. Tables /\ Proc(p) /\ Proc(q) /\ RowsHold /\ raced \subseteq Fulfillments
    BY DEF RowsInv, ProcInv, Tables
<1>2. \A r \in Rows : db'[r] = IF r \in DOMAIN mine[p] THEN mine[p][r] ELSE db[r]
    BY <1>1, CommitDoes
<1>3. db[i] # None /\ db'[i] # None
    BY CommitKeepsRows DEF MayFlip
<1>4. Tainted(i) => Tainted(i)'
    BY <1>1, CommitKeepsRows, CommitDoes, TaintStays
<1>5. HaulerOf(q)' = HaulerOf(q)
    BY <1>1, CommitDoes, Unmoved
<1>6. HaulerOf(q) \in Haulers
    BY <1>1, ArgOf DEF Proc
<1>7. CASE Op(p) = "reverse" /\ ItemOf(p) = i /\ DOMAIN mine[p] \cap Fulfillments # {}
    <2>1. PICK f \in DOMAIN mine[p] \cap Fulfillments : TRUE
        BY <1>7
    <2>2. PurchaseMine(p, f) /\ Buyer(p)
        BY <1>1 DEF Proc, Mine, PurchaseMine
    <2>3. /\ f = arg[p].ful /\ db[f].live /\ db[f].hauler = Payee(p) /\ db[f].item = i
          /\ Payee(p) \in Haulers /\ db[Payee(p)] # None /\ db[f] # None
        BY <1>1, <1>7, <2>2, PurchaseOf DEF PurchaseMine, Payee, ItemOf, Proc, Shape
    <2>4. Covers(db, Payee(p), i)
        BY <2>3 DEF Covers, Bought, Live
    <2>5. CASE Tainted(i)
        BY <1>3, <1>4, <2>5 DEF MayFlip
    <2>6. CASE Payee(p) = HaulerOf(q)
        BY <1>3, <1>7, <2>6, ReversalTaints DEF MayFlip
    <2>7. CASE ~Tainted(i) /\ Payee(p) # HaulerOf(q)
        <3>1. ~Pending(db, Payee(p))
            BY <2>3, <2>4, <2>7 DEF MayFlip
        <3>2. db[Payee(p)].status = "settled"
            BY <1>1, <2>3, <3>1 DEF RowsHold, Pending, Bill
        <3> QED
            BY <1>3, <1>7, <2>3, <3>2, ReversalTaints DEF MayFlip
    <2> QED
        BY <2>5, <2>6, <2>7
<1>8. CASE ~(Op(p) = "reverse" /\ ItemOf(p) = i /\ DOMAIN mine[p] \cap Fulfillments # {}) /\ ~Tainted(i)
    <2>1. /\ db[i].filled = Qty[i]
          /\ \A g \in Haulers \ {HaulerOf(q)} : ~(Pending(db, g) /\ Covers(db, g, i))
        BY <1>8 DEF MayFlip
    <2>2. i \in DOMAIN mine[p] => ~(Op(p) = "record") /\ ItemMine(p, i)
        <3> HAVE i \in DOMAIN mine[p]
        <3>1. ItemMine(p, i) /\ Qty[i] \in Nat
            BY <1>1, RowsAssumption DEF Proc, Mine
        <3> QED
            BY <2>1, <3>1 DEF ItemMine
    <2>3. db'[i].filled = Qty[i]
        <3>1. CASE i \notin DOMAIN mine[p]
            BY <1>2, <2>1, <3>1, Keys
        <3>2. CASE i \in DOMAIN mine[p]
            <4>1. Op(p) # "reverse"
                <5> SUFFICES ASSUME Op(p) = "reverse" PROVE FALSE
                    OBVIOUS
                <5>1. ItemOf(p) = i /\ arg[p].ful \in DOMAIN mine[p] /\ arg[p].ful \in Fulfillments
                    BY <1>1, <2>2, <3>2, ArgOf DEF ItemMine, Buyer, Proc, Mine, Reversing
                <5> QED
                    BY <1>8, <5>1
            <4>2. ~Buyer(p)
                BY <2>2, <3>2, <4>1 DEF Buyer
            <4> QED
                BY <1>2, <1>3, <2>1, <2>2, <3>2, <4>2, Keys DEF ItemMine
        <3> QED
            BY <3>1, <3>2
    <2>4. ASSUME NEW g \in Haulers \ {HaulerOf(q)}, Pending(db', g), Covers(db', g, i)
          PROVE  FALSE
        <3>1. PICK f \in Fulfillments : Live(db', f) /\ db'[f].hauler = g /\ db'[f].item = i
            BY <2>4 DEF Covers, Bought
        <3>2. CASE f \notin DOMAIN mine[p] /\ db'[f] = db[f] /\ Live(db, f)
            <4>1. Covers(db, g, i)
                BY <3>1, <3>2 DEF Covers, Bought
            <4>2. db[g] # None
                BY <1>1, <3>1, <3>2 DEF RowsHold, Live
            <4> QED
                BY <2>1, <2>4, <4>1, <4>2, CommitBills
        <3>3. CASE Op(p) = "record" /\ db'[f].item = ItemOf(p) /\ ItemOf(p) \in DOMAIN mine[p]
            BY <2>2, <3>1, <3>3
        <3> QED
            BY <3>1, <3>2, <3>3, CommitBuys
    <2> QED
        BY <1>3, <1>5, <2>3, <2>4 DEF MayFlip
<1> QED
    BY <1>3, <1>4, <1>7, <1>8 DEF MayFlip

\* A commit leaves the others as the invariant has them.
LEMMA OthersAfterCommit ==
    ASSUME RowsInv, NEW p \in Procs, NEW q \in Procs, p # q, Commit(p)
    PROVE  Proc(q)'
<1>1. Tables /\ Proc(p) /\ Proc(q) /\ RowsHold /\ Local(p)
    BY CommitDoes DEF RowsInv, ProcInv
<1>2. /\ pc'[q] = pc[q] /\ arg'[q] = arg[q] /\ todo'[q] = todo[q] /\ seen'[q] = seen[q]
      /\ mine'[q] = mine[q] /\ \A r \in Rows : lock'[r] = q <=> lock[r] = q
    BY <1>1 DEF Local
<1>3. \A r \in Rows : db'[r] = IF r \in DOMAIN mine[p] THEN mine[p][r] ELSE db[r]
    BY <1>1, CommitDoes
<1>4. \A r \in DOMAIN mine[q] : r \in Rows /\ db'[r] = db[r]
    BY <1>1, <1>3, OneWriter DEF RowsInv, Proc, Mine
<1>5. Serial(q) => \A f \in Fulfillments : db'[f] = db[f]
    <2> HAVE Serial(q)
    <2>1. lock[List] = q
        BY <1>1 DEF Proc, Holds
    <2>2. ~(Buyer(p) /\ Serial(p))
        BY <1>1, <2>1 DEF Proc, Holds
    <2> QED
        BY <1>1, <1>3, <2>2, SeesCommitted, Keys DEF Proc
<1>6. Serial(q) => /\ \A h : Bought(View(q), h)' = Bought(View(q), h)
                   /\ \A i : Units(View(q), i)' = Units(View(q), i)
    <2> HAVE Serial(q)
    <2>1. \A f \in Fulfillments : View(q)'[f] = View(q)[f]
        BY <1>2, <1>5, Keys DEF View
    <2> QED
        BY <2>1, SamePurchases
<1>7. Buyer(q) => /\ Payee(q)' = Payee(q) /\ ItemOf(q)' = ItemOf(q)
                  /\ Payee(q) \in Haulers /\ ItemOf(q) \in Items
    <2> HAVE Buyer(q)
    <2>1. Payee(q) \in Haulers /\ ItemOf(q) \in Items
        BY <1>1, PurchaseOf DEF Proc
    <2>2. CASE Op(q) = "record"
        BY <1>1, <1>2, <2>1, <2>2, Unmoved DEF Payee, ItemOf
    <2>3. CASE Op(q) = "reverse"
        <3>1. arg[q].ful \in Fulfillments /\ db[arg[q].ful] # None
            BY <1>1, <2>3, ArgOf DEF Proc, Shape, Reversing
        <3>2. db'[arg[q].ful].item = db[arg[q].ful].item /\ db'[arg[q].ful].hauler = db[arg[q].ful].hauler
            BY <3>1, CommitKeepsRows
        <3> QED
            BY <1>1, <1>2, <2>1, <2>3, <3>2, Unmoved DEF Payee, ItemOf
    <2> QED
        BY <2>2, <2>3 DEF Buyer
<1>8. Shape(q)'
    <2>1. /\ Op(q) \in {"record", "deliver"} => arg[q].item \in Items
          /\ Op(q) = "reverse" => arg[q].ful \in Fulfillments
          /\ Op(q) \in {"settle", "link"} => arg[q].hauler \in Haulers
        BY <1>1, ArgOf DEF Proc, Recording, OnItem, Reversing, ByHandOf, Linking
    <2> QED
        BY <1>1, <1>2, <2>1, CommitKeepsRows, Unmoved DEF Proc, Shape
<1>9. Holds(q)'
    BY <1>1, Unmoved DEF Proc
<1>10. Waits(q)'
    <2>1. pc[q] = "upsert" => todo[q] = <<Payee(q)>>' /\ seen[q] = Bought(View(q), Payee(q))'
        <3> HAVE pc[q] = "upsert"
        <3>1. Buyer(q) /\ Serial(q)
            BY <1>1, KindAt DEF Proc, Serial, Buyer
        <3> QED
            BY <1>1, <1>6, <1>7, <3>1 DEF Proc, Waits
    <2>2. pc[q] = "rewrite" => /\ todo[q] = <<ItemOf(q)>>' /\ seen[q].status # "settled"
                               /\ Sound(View(q), ItemOf(q), seen[q])'
        <3> HAVE pc[q] = "rewrite"
        <3>1. Buyer(q) /\ Serial(q)
            BY <1>1, KindAt DEF Proc, Serial, Buyer
        <3>2. Sound(View(q), ItemOf(q), seen[q])
            BY <1>1 DEF Proc, Waits
        <3>3. Sound(View(q), ItemOf(q), seen[q])'
            BY <1>2, <1>6, <1>7, <3>1, <3>2 DEF Sound
        <3> QED
            BY <1>1, <1>7, <3>1, <3>3 DEF Proc, Waits
    <2>3. pc[q] = "flip" => \A i \in Left(q) : i \in Items /\ MayFlip(q, i)'
        <3> HAVE pc[q] = "flip"
        <3>1. /\ Settler(q) /\ HaulerOf(q) \in DOMAIN mine[q]
              /\ mine[q][HaulerOf(q)].status = "settled"
            BY <1>1, KindAt DEF Proc, Mine
        <3> QED
            BY <1>1, <3>1, FlipStays DEF Proc, Waits
    <2>4. pc[q] = "first" /\ Op(q) = "link" =>
             lock'[arg[q].hauler] = q \/ arg[q].hauler \in Left(q)
        <3>1. Op(q) = "link" => arg[q].hauler \in Rows
            BY <1>1, ArgOf, Keys DEF Proc, Linking
        <3> QED
            BY <1>1, <1>2, <3>1 DEF Proc, Waits
    <2> QED
        BY <1>1, <1>2, <2>1, <2>2, <2>3, <2>4, Unmoved DEF Proc, Waits
<1>11. Mine(q)'
    <2>1. \A f \in DOMAIN mine[q] \cap Fulfillments : PurchaseMine(q, f)'
        <3> TAKE f \in DOMAIN mine[q] \cap Fulfillments
        <3>1. PurchaseMine(q, f)
            BY <1>1 DEF Proc, Mine
        <3> QED
            BY <1>1, <1>2, <1>4, <1>7, <3>1, Unmoved DEF PurchaseMine
    <2>2. \A i \in DOMAIN mine[q] \cap Items : ItemMine(q, i)'
        <3> TAKE i \in DOMAIN mine[q] \cap Items
        <3>1. ItemMine(q, i) /\ db'[i] = db[i]
            BY <1>1, <1>4 DEF Proc, Mine
        <3>2. Settler(q) => MayFlip(q, i)'
            BY <1>1, <3>1, FlipStays DEF ItemMine
        <3>3. Sound(View(q), i, mine[q][i])'
            <4>1. Units(View(q), i)' <= Units(View(q), i)
                <5>1. CASE Serial(q)
                    BY <1>6, <5>1, UnitsType
                <5>2. CASE ~Serial(q)
                    <6>1. ~(Buyer(q) /\ Serial(q)) /\ Mine(q)
                        BY <1>1, <5>2 DEF Proc
                    <6>2. \A f \in Fulfillments : f \notin DOMAIN mine[q]
                                                  /\ View(q)[f] = db[f] /\ View(q)'[f] = db'[f]
                        BY <1>2, <6>1, SeesCommitted, Keys DEF View
                    <6>3. ItemOf(p) # i \/ Op(p) # "record" \/ ItemOf(p) \notin DOMAIN mine[p]
                        BY <1>1, OneWriter DEF RowsInv
                    <6>4. \A f \in Fulfillments :
                             Live(View(q)', f) /\ View(q)'[f].item = i =>
                             Live(View(q), f) /\ View(q)[f].item = i
                        <7> TAKE f \in Fulfillments
                        <7> HAVE Live(View(q)', f) /\ View(q)'[f].item = i
                        <7>1. Live(db', f) /\ db'[f].item = i
                            BY <6>2 DEF Live
                        <7>2. Live(db, f) /\ db[f].item = i
                            BY <6>3, <7>1, CommitBuys
                        <7> QED
                            BY <6>2, <7>2 DEF Live
                    <6> QED
                        BY <6>4, FewerUnits
                <5> QED
                    BY <5>1, <5>2
            <4>2. /\ Units(View(q), i)' \in Nat /\ Units(View(q), i) \in Nat
                  /\ mine[q][i].filled \in Int
                BY <3>1, UnitsType DEF ItemMine, Sound, ItemRow
            <4> QED
                BY <1>2, <3>1, <4>1, <4>2 DEF ItemMine, Sound
        <3>4. lock'[i] = q <=> lock[i] = q
            BY <1>2, Keys
        <3> QED
            BY <1>1, <1>2, <1>7, <3>1, <3>2, <3>3, <3>4, Unmoved DEF ItemMine
    <2>3. \A h \in DOMAIN mine[q] \cap Haulers : BillMine(q, h)'
        <3> TAKE h \in DOMAIN mine[q] \cap Haulers
        <3>1. BillMine(q, h) /\ db'[h] = db[h]
            BY <1>1, <1>4 DEF Proc, Mine
        <3>2. lock'[h] = q <=> lock[h] = q
            BY <1>2, Keys
        <3>3. Pending(db, h)' = Pending(db, h)
            BY <3>1 DEF Pending
        <3>4. Buyer(q) => Bought(View(q), h)' = Bought(View(q), h)
            <4>1. pc[q] \notin Fresh
                BY <1>1 DEF Proc, Mine
            <4> QED
                BY <1>6, <4>1 DEF Serial, Buyer, Fresh
        <3> QED
            BY <1>1, <1>2, <1>7, <3>1, <3>2, <3>3, <3>4, Unmoved DEF BillMine
    <2>4. lock'[List] = q <=> lock[List] = q
        BY <1>2, Keys
    <2> QED
        BY <1>1, <1>2, <2>1, <2>2, <2>3, <2>4, Unmoved DEF Proc, Mine
<1> QED
    BY <1>8, <1>9, <1>10, <1>11 DEF Proc

\* A transaction that ended holds and remembers nothing.
LEMMA Ended ==
    ASSUME Tables, NEW p \in Procs, Finish(p)
    PROVE  Proc(p)'
<1>1. /\ arg'[p] = None /\ DOMAIN mine'[p] = {} /\ todo'[p] = <<>>
      /\ pc'[p] = IF p \in Contracts THEN "done" ELSE "idle"
      /\ \A r \in Rows : lock'[r] # p
    BY Keys DEF Finish, Tables, Nothing
<1>2. Op(p)' = IF p \in Contracts THEN "contract" ELSE "none"
    BY <1>1 DEF Op
<1>3. Shape(p)'
    BY <1>1, <1>2, Keys DEF Shape, AtStatement
<1>4. Holds(p)'
    BY <1>1, <1>2 DEF Holds, Serial
<1>5. Waits(p)'
    BY <1>1, <1>2 DEF Waits
<1>6. Mine(p)'
    BY <1>1, <1>2 DEF Mine, Fresh
<1> QED
    BY <1>3, <1>4, <1>5, <1>6 DEF Proc

\* The rows that a commit leaves.
LEMMA CommitRows ==
    ASSUME RowsInv, NEW p \in Procs, Commit(p)
    PROVE  RowsHold'
<1>1. Tables /\ Proc(p) /\ RowsHold /\ pc[p] = "commit"
    BY DEF RowsInv, ProcInv, Commit
<1>2. \A r \in Rows : db'[r] = IF r \in DOMAIN mine[p] THEN mine[p][r] ELSE db[r]
    BY <1>1, CommitDoes
<1>3. db'[List] \in {"open", "closed"}
    BY <1>1, <1>2, Keys DEF Proc, Mine, RowsHold
<1>4. \A h \in Haulers : db'[h] \in Bill \cup {None}
    BY <1>1, <1>2, WrittenRows, Keys DEF RowsHold
<1>5. ASSUME NEW f \in Fulfillments, db'[f] # None
      PROVE  db'[f] \in Purchase /\ db'[db'[f].item] # None /\ db'[db'[f].hauler] # None
    <2>1. CASE f \notin DOMAIN mine[p]
        <3>1. db'[f] = db[f] /\ db[f] \in Purchase
            BY <1>1, <1>2, <1>5, <2>1, Keys DEF RowsHold
        <3>2. db[f].item \in Items /\ db[f].hauler \in Haulers
            BY <3>1 DEF Purchase
        <3> QED
            BY <1>1, <1>5, <3>1, <3>2, CommitKeepsRows DEF RowsHold
    <2>2. CASE f \in DOMAIN mine[p]
        <3>1. PurchaseMine(p, f) /\ db'[f] = mine[p][f] /\ Buyer(p)
            BY <1>1, <1>2, <2>2, Keys DEF Proc, Mine, PurchaseMine
        <3>2. Payee(p) \in DOMAIN mine[p] /\ Payee(p) \in Haulers /\ ItemOf(p) \in Items
              /\ db[ItemOf(p)] # None
            BY <1>1, <3>1, PurchaseOf DEF Proc, PurchaseMine
        <3>3. db'[Payee(p)] # None
            BY <1>1, <1>2, <3>2, WrittenRows, Keys
        <3>4. db'[ItemOf(p)] # None
            BY <3>2, CommitKeepsRows
        <3> QED
            BY <3>1, <3>3, <3>4 DEF PurchaseMine
    <2> QED
        BY <2>1, <2>2
<1>6. ASSUME NEW i \in Items, db'[i] # None
      PROVE  Sound(db, i, db[i])'
    <2>1. CASE i \in DOMAIN mine[p]
        <3>1. ItemMine(p, i) /\ db'[i] = mine[p][i]
            BY <1>1, <1>2, <2>1, Keys DEF Proc, Mine
        <3>2. Units(db, i)' = Units(View(p), i)
            BY <1>1, CommitDoes
        <3> QED
            BY <3>1, <3>2 DEF ItemMine, Sound
    <2>2. CASE i \notin DOMAIN mine[p]
        <3>1. db'[i] = db[i] /\ Sound(db, i, db[i])
            BY <1>1, <1>2, <1>6, <2>2, Keys DEF RowsHold
        <3>2. \A f \in Fulfillments : Live(db', f) /\ db'[f].item = i => Live(db, f) /\ db[f].item = i
            BY <2>2, CommitBuys
        <3>3. Units(db', i) <= Units(db, i)
            BY <3>2, FewerUnits
        <3>4. Units(db', i) \in Nat /\ Units(db, i) \in Nat /\ db[i].filled \in Int
            BY <3>1, UnitsType DEF Sound, ItemRow
        <3> QED
            BY <3>1, <3>3, <3>4 DEF Sound
    <2> QED
        BY <2>1, <2>2
<1> QED
    BY <1>3, <1>4, <1>5, <1>6 DEF RowsHold

\* The purchases of a hauler that a commit does not concern.
LEMMA BoughtStays ==
    ASSUME RowsInv, NEW p \in Procs, Commit(p), NEW h, ~Buyer(p) \/ h # Payee(p)
    PROVE  Bought(db', h) = Bought(db, h)
<1>1. Tables /\ Proc(p) /\ RowsHold
    BY DEF RowsInv, ProcInv
<1>2. \A f \in Fulfillments : db'[f] = IF f \in DOMAIN mine[p] THEN mine[p][f] ELSE db[f]
    BY <1>1, CommitDoes, Keys
<1>3. \A f \in Fulfillments : f \in DOMAIN mine[p] =>
         mine[p][f].hauler # h /\ (db[f] # None => db[f].hauler # h)
    BY <1>1, WrittenRows DEF Proc, Mine, PurchaseMine
<1> QED
    BY <1>2, <1>3 DEF Bought, Live

\* After a commit the sums are exact, and what was missed has raced.
LEMMA CommitSums ==
    ASSUME RowsInv, NEW p \in Procs, Commit(p)
    PROVE  PendingIsExact' /\ MissedOnlyInRace'
<1>1. Tables /\ Proc(p) /\ RowsHold /\ RaceSeen /\ PendingIsExact /\ MissedOnlyInRace
      /\ pc[p] = "commit" /\ raced' = raced
    BY CommitDoes DEF RowsInv, ProcInv, Commit
<1>2. \A r \in Rows : db'[r] = IF r \in DOMAIN mine[p] THEN mine[p][r] ELSE db[r]
    BY <1>1, CommitDoes
<1>3. ASSUME NEW h \in Haulers, h \in DOMAIN mine[p], Buyer(p)
      PROVE  /\ db'[h] = Upserted(db[h], Bought(db', h)) /\ h = Payee(p)
             /\ db[h] \in Bill \cup {None} /\ Bought(db', h) \in SUBSET Fulfillments
    <2>1. BillMine(p, h) /\ db'[h] = mine[p][h] /\ Bought(db', h) = Bought(View(p), h)
        BY <1>1, <1>2, <1>3, CommitDoes, Keys DEF Proc, Mine
    <2> QED
        BY <1>1, <1>3, <2>1, BoughtType DEF BillMine, RowsHold
<1>4. ASSUME NEW h \in Haulers, h \in DOMAIN mine[p], ~Buyer(p)
      PROVE  /\ Pending(db, h) /\ db'[h].total = db[h].total
             /\ Bought(db', h) = Bought(db, h)
    <2>1. BillMine(p, h) /\ db'[h] = mine[p][h]
        BY <1>1, <1>2, <1>4, Keys DEF Proc, Mine
    <2> QED
        BY <1>4, <2>1, BoughtStays DEF BillMine
<1>5. ASSUME NEW h \in Haulers, h \notin DOMAIN mine[p]
      PROVE  db'[h] = db[h] /\ Bought(db', h) = Bought(db, h)
    <2>1. db'[h] = db[h]
        BY <1>2, <1>5, Keys
    <2>2. CASE DOMAIN mine[p] \cap Fulfillments = {}
        <3>1. \A f \in Fulfillments : db'[f] = db[f]
            BY <1>2, <2>2, Keys
        <3> QED
            BY <2>1, <3>1, SamePurchases
    <2>3. CASE DOMAIN mine[p] \cap Fulfillments # {}
        <3>1. Payee(p) \in DOMAIN mine[p]
            BY <1>1, <2>3 DEF Proc, Mine, PurchaseMine
        <3> QED
            BY <1>5, <2>1, <3>1, BoughtStays
    <2> QED
        BY <2>1, <2>2, <2>3
<1>6. ASSUME NEW h \in Haulers, Pending(db', h)
      PROVE  db'[h].total = Bought(db', h)
    <2>1. CASE h \notin DOMAIN mine[p]
        BY <1>1, <1>5, <1>6, <2>1 DEF PendingIsExact, Pending
    <2>2. CASE h \in DOMAIN mine[p] /\ ~Buyer(p)
        BY <1>1, <1>4, <2>2 DEF PendingIsExact
    <2>3. CASE h \in DOMAIN mine[p] /\ Buyer(p)
        <3>1. db[h] = None \/ db[h].status = "pending"
            BY <1>3, <1>6, <2>3, CommitBills DEF Pending
        <3> QED
            BY <1>3, <2>3, <3>1, UpsertedRow
    <2> QED
        BY <2>1, <2>2, <2>3
<1>7. ASSUME NEW h \in Haulers, db'[h] # None, db'[h].status = "settled",
             NEW f \in (db'[h].total \ Bought(db', h)) \cup (Bought(db', h) \ db'[h].total)
      PROVE  f \in raced
    <2>1. CASE h \notin DOMAIN mine[p]
        BY <1>1, <1>5, <1>7, <2>1 DEF MissedOnlyInRace
    <2>2. CASE h \in DOMAIN mine[p] /\ ~Buyer(p)
        BY <1>1, <1>4, <1>7, <2>2 DEF PendingIsExact
    <2>3. CASE h \in DOMAIN mine[p] /\ Buyer(p)
        <3>1. db[h] # None /\ db[h].status = "settled" /\ db'[h] = db[h] /\ h = Payee(p)
            <4>1. ~(db[h] = None \/ db[h].status = "pending")
                BY <1>3, <1>7, <2>3, UpsertedRow
            <4>2. db[h] \in Bill
                BY <1>3, <2>3, <4>1
            <4> QED
                BY <1>3, <2>3, <4>1, <4>2, UpsertedRow DEF Bill
        <3>2. CASE f \in (db[h].total \ Bought(db, h)) \cup (Bought(db, h) \ db[h].total)
            BY <1>1, <3>1, <3>2 DEF MissedOnlyInRace
        <3>3. CASE f \notin (db[h].total \ Bought(db, h)) \cup (Bought(db, h) \ db[h].total)
            <4>1. (f \in Bought(db', h)) # (f \in Bought(db, h)) /\ f \in Fulfillments
                <5>1. (f \in Bought(db', h)) # (f \in Bought(db, h))
                    BY <1>7, <3>1, <3>3
                <5> QED
                    BY <5>1 DEF Bought
            <4>2. f \in DOMAIN mine[p]
                <5> SUFFICES ASSUME f \notin DOMAIN mine[p] PROVE FALSE
                    OBVIOUS
                <5>1. db'[f] = db[f]
                    BY <1>2, <4>1, Keys
                <5> QED
                    BY <4>1, <5>1 DEF Bought, Live
            <4> QED
                BY <1>1, <3>1, <4>1, <4>2 DEF RaceSeen
        <3> QED
            BY <3>2, <3>3
    <2> QED
        BY <2>1, <2>2, <2>3
<1> QED
    BY <1>1, <1>6, <1>7 DEF PendingIsExact, MissedOnlyInRace

\* After a commit a settled item is unpaid only if a reversal raced.
LEMMA CommitSettles ==
    ASSUME RowsInv, NEW p \in Procs, Commit(p)
    PROVE  SettledUnpaidInRace'
<1>1. Tables /\ Proc(p) /\ RowsHold /\ SettledUnpaidInRace /\ raced' = raced
      /\ raced \subseteq Fulfillments
    BY CommitDoes DEF RowsInv, ProcInv, Tables
<1>2. \A r \in Rows : db'[r] = IF r \in DOMAIN mine[p] THEN mine[p][r] ELSE db[r]
    BY <1>1, CommitDoes
<1>3. \A i : Tainted(i) => Tainted(i)'
    BY <1>1, CommitKeepsRows, TaintStays
<1> SUFFICES ASSUME NEW i \in Items, NEW h \in Haulers, db'[i] # None, db'[i].status = "settled",
                    Covers(db', h, i), Pending(db', h)
             PROVE  Tainted(i)'
    BY DEF SettledUnpaidInRace, Tainted
<1>4. PICK f \in Fulfillments : Live(db', f) /\ db'[f].hauler = h /\ db'[f].item = i
    BY DEF Covers, Bought
<1>5. CASE i \in DOMAIN mine[p]
    <2>1. ItemMine(p, i) /\ mine[p][i].status = "settled"
        BY <1>1, <1>2, <1>5, Keys DEF Proc, Mine
    <2>2. /\ Settler(p) /\ ~Buyer(p) /\ MayFlip(p, i) /\ HaulerOf(p) \in DOMAIN mine[p]
          /\ HaulerOf(p) \in Haulers /\ mine[p][HaulerOf(p)].status = "settled"
        BY <1>1, <2>1, ArgOf DEF ItemMine, Proc
    <2>3. h # HaulerOf(p)
        BY <1>2, <2>2, Keys DEF Pending
    <2>4. Pending(db, h)
        BY <2>2, CommitBills
    <2>5. Live(db, f) /\ db[f].hauler = h /\ db[f].item = i
        BY <1>4, <2>2, CommitBuys DEF Buyer
    <2>6. Covers(db, h, i)
        BY <2>5 DEF Covers, Bought
    <2> QED
        BY <1>3, <2>2, <2>3, <2>4, <2>6 DEF MayFlip
<1>6. CASE i \notin DOMAIN mine[p]
    <2>1. db'[i] = db[i] /\ Live(db, f) /\ db[f].hauler = h /\ db[f].item = i
        BY <1>2, <1>4, <1>6, CommitBuys, Keys
    <2>2. Covers(db, h, i) /\ db[h] # None
        BY <1>1, <2>1 DEF Covers, Bought, RowsHold, Live
    <2>3. Pending(db, h)
        BY <2>2, CommitBills
    <2>4. Tainted(i)
        BY <1>1, <2>1, <2>2, <2>3 DEF SettledUnpaidInRace, Tainted
    <2> QED
        BY <1>3, <2>4
<1> QED
    BY <1>5, <1>6

\* After a commit, who has raced is still known.
LEMMA CommitRaces ==
    ASSUME RowsInv, NEW p \in Procs, Commit(p)
    PROVE  RaceSeen'
<1>1. Tables /\ Proc(p) /\ RowsHold /\ RaceSeen /\ ProcInv /\ raced' = raced /\ Local(p)
      /\ DOMAIN mine'[p] = {}
    BY CommitDoes DEF RowsInv, ProcInv
<1>2. \A r \in Rows : db'[r] = IF r \in DOMAIN mine[p] THEN mine[p][r] ELSE db[r]
    BY <1>1, CommitDoes
<1> SUFFICES ASSUME NEW q \in Procs, NEW s \in Procs, NEW f \in DOMAIN mine'[q] \cap Fulfillments,
                    \/ db'[Payee(q)'] # None /\ db'[Payee(q)'].status = "settled"
                    \/ /\ q # s /\ Payee(q)' \in DOMAIN mine'[s]
                       /\ mine'[s][Payee(q)'].status = "settled"
             PROVE  f \in raced
    BY <1>1 DEF RaceSeen
<1>3. q # p /\ mine'[q] = mine[q]
    BY <1>1 DEF Local
<1>4. PurchaseMine(q, f) /\ Buyer(q) /\ Proc(q)
    BY <1>1, <1>3 DEF ProcInv, Proc, Mine, PurchaseMine
<1>5. Payee(q) \in Haulers /\ Payee(q)' = Payee(q)
    <2>1. Payee(q) \in Haulers
        BY <1>1, <1>4, PurchaseOf DEF Proc
    <2>2. arg'[q] = arg[q] /\ Op(q)' = Op(q)
        BY <1>1, <1>3, Unmoved DEF Local
    <2>3. CASE Op(q) = "record"
        BY <2>1, <2>2, <2>3 DEF Payee
    <2>4. CASE Op(q) = "reverse"
        <3>1. arg[q].ful \in Fulfillments /\ db[arg[q].ful] # None
            BY <1>4, <2>4, ArgOf DEF Proc, Shape, Reversing
        <3> QED
            BY <2>1, <2>2, <2>4, <3>1, CommitKeepsRows DEF Payee
    <2> QED
        BY <1>4, <2>3, <2>4 DEF Buyer
<1>6. CASE db'[Payee(q)] # None /\ db'[Payee(q)].status = "settled"
    <2>1. CASE Payee(q) \in DOMAIN mine[p]
        BY <1>1, <1>2, <1>3, <1>5, <1>6, <2>1, Keys DEF RaceSeen
    <2>2. CASE Payee(q) \notin DOMAIN mine[p]
        BY <1>1, <1>2, <1>3, <1>5, <1>6, <2>2, Keys DEF RaceSeen
    <2> QED
        BY <2>1, <2>2
<1>7. CASE q # s /\ Payee(q) \in DOMAIN mine'[s] /\ mine'[s][Payee(q)].status = "settled"
    <2>1. s # p /\ mine'[s] = mine[s]
        BY <1>1, <1>7 DEF Local
    <2>2. Payee(q) \in DOMAIN mine[s] /\ mine[s][Payee(q)].status = "settled" /\ q # s
        BY <1>7, <2>1
    <2> QED
        BY <1>1, <1>3, <2>2 DEF RaceSeen
<1> QED
    BY <1>5, <1>6, <1>7

-----------------------------------------------------------------------------
(* Steps that commit nothing.                                              *)

\* A statement that starts.
LEMMA StartDoes ==
    ASSUME Tables, NEW p \in Procs, NEW label, NEW S \in SUBSET Rows, IsFiniteSet(S),
           Start(p, label, S)
    PROVE  /\ DOMAIN pc' = Procs /\ pc'[p] = label
           /\ DOMAIN todo' = Procs /\ todo'[p] \in SetToSeqs(S) /\ todo'[p] \in Seq(Rows)
           /\ Left(p)' \subseteq S
           /\ \A q \in Procs \ {p} : pc'[q] = pc[q] /\ todo'[q] = todo[q]
<1>1. PICK order \in SetToSeqs(S) : todo' = [todo EXCEPT ![p] = order]
    BY DEF Start
<1>2. order \in Seq(S) /\ \A n \in 1 .. Len(order) : order[n] \in S
    BY <1>1, OrderOfRows
<1>3. order \in Seq(Rows)
    BY <1>2, SeqMonotonic
<1>4. todo'[p] = order
    BY <1>1 DEF Tables
<1>5. Left(p)' \subseteq S
    BY <1>2, <1>4 DEF Left
<1> QED
    BY <1>1, <1>3, <1>4, <1>5 DEF Tables, Start

\* A statement that has one row to lock.
LEMMA StartOne ==
    ASSUME Tables, NEW p \in Procs, NEW label, NEW x \in Rows, Start(p, label, {x})
    PROVE  /\ DOMAIN pc' = Procs /\ pc'[p] = label
           /\ DOMAIN todo' = Procs /\ todo'[p] = <<x>> /\ todo'[p] \in Seq(Rows)
           /\ \A q \in Procs \ {p} : pc'[q] = pc[q] /\ todo'[q] = todo[q]
<1>1. {x} \in SUBSET Rows /\ IsFiniteSet({x})
    BY FS_Singleton
<1>2. todo'[p] \in SetToSeqs({x})
    BY <1>1, StartDoes
<1> QED
    BY <1>1, <1>2, StartDoes, FewRows

\* A statement that has no row to lock.
LEMMA StartNone ==
    ASSUME Tables, NEW p \in Procs, NEW label, Start(p, label, {})
    PROVE  /\ DOMAIN pc' = Procs /\ pc'[p] = label
           /\ DOMAIN todo' = Procs /\ todo'[p] = <<>> /\ todo'[p] \in Seq(Rows)
           /\ \A q \in Procs \ {p} : pc'[q] = pc[q] /\ todo'[q] = todo[q]
<1>1. {} \in SUBSET Rows /\ IsFiniteSet({})
    BY FS_EmptySet
<1>2. todo'[p] \in SetToSeqs({})
    BY <1>1, StartDoes
<1> QED
    BY <1>1, <1>2, StartDoes, FewRows

\* A row lock that is granted.
LEMMA GrantDoes ==
    ASSUME Tables, NEW p \in Procs, todo[p] \in Seq(Rows), NEW r, Grant(p, r)
    PROVE  /\ r \in Rows /\ r \in Left(p) /\ lock[r] \in {None, p} /\ lock'[r] = p
           /\ lock' \in [Rows -> Procs \cup {None}]
           /\ \A x \in Rows : lock[x] = p => lock'[x] = p
           /\ \A q \in Procs \ {p} : \A x \in Rows : lock'[x] = q <=> lock[x] = q
           /\ DOMAIN todo' = Procs /\ todo'[p] = Tail(todo[p]) /\ todo'[p] \in Seq(Rows)
           /\ Left(p)' \subseteq Left(p) /\ \A x \in Left(p) : x = r \/ x \in Left(p)'
           /\ \A q \in Procs \ {p} : todo'[q] = todo[q]
<1>1. /\ todo[p] # <<>> /\ r = Head(todo[p]) /\ lock[r] \in {None, p}
      /\ lock' = [lock EXCEPT ![r] = p] /\ todo' = [todo EXCEPT ![p] = Tail(todo[p])]
    BY DEF Grant
<1>2. r \in Rows /\ Tail(todo[p]) \in Seq(Rows) /\ r \in Left(p)
    BY <1>1, RestOfRows DEF Left
<1>3. DOMAIN todo' = Procs /\ todo'[p] = Tail(todo[p])
      /\ \A q \in Procs \ {p} : todo'[q] = todo[q]
    BY <1>1 DEF Tables
<1>4. Left(p)' \subseteq Left(p) /\ \A x \in Left(p) : x = r \/ x \in Left(p)'
    BY <1>1, <1>3, RestOfRows DEF Left
<1>5. /\ lock'[r] = p /\ lock' \in [Rows -> Procs \cup {None}]
      /\ \A x \in Rows : lock[x] = p => lock'[x] = p
      /\ \A q \in Procs \ {p} : \A x \in Rows : lock'[x] = q <=> lock[x] = q
    BY <1>1, <1>2, Keys DEF Tables
<1> QED
    BY <1>1, <1>2, <1>3, <1>4, <1>5

\* A row that is written.
LEMMA PutDoes ==
    ASSUME NEW p \in Procs, NEW r, NEW v, mine' = Put(p, r, v)
    PROVE  /\ DOMAIN mine' = Procs /\ \A q \in Procs \ {p} : mine'[q] = mine[q]
           /\ DOMAIN mine'[p] = DOMAIN mine[p] \cup {r} /\ mine'[p][r] = v
           /\ \A x \in DOMAIN mine[p] \ {r} : mine'[p][x] = mine[p][x]
BY DEF Put

\* A transaction goes on with the same request.
LEMMA SameRequest ==
    ASSUME NEW p \in Procs, arg'[p] = arg[p],
           p \in Contracts \/ (pc[p] # "idle" /\ pc'[p] # "idle")
    PROVE  /\ Op(p)' = Op(p) /\ Settler(p)' = Settler(p) /\ Buyer(p)' = Buyer(p)
           /\ HaulerOf(p)' = HaulerOf(p)
<1>1. Op(p)' = Op(p)
    BY DEF Op
<1> QED
    BY <1>1 DEF Settler, Buyer, HaulerOf

\* A purchase or reversal in progress keeps its payee and its item.
LEMMA SamePurchase ==
    ASSUME NEW p \in Procs, Shape(p), RowsHold, Quiet, Buyer(p), arg'[p] = arg[p], Op(p)' = Op(p)
    PROVE  Payee(p)' = Payee(p) /\ ItemOf(p)' = ItemOf(p)
<1>1. CASE Op(p) = "record"
    BY <1>1 DEF Payee, ItemOf
<1>2. CASE Op(p) = "reverse"
    <2>1. arg[p].ful \in Fulfillments
        BY <1>2, ArgOf DEF Reversing
    <2> QED
        BY <1>2, <2>1, Keys DEF Payee, ItemOf, Quiet
<1> QED
    BY <1>1, <1>2 DEF Buyer

\* What it may flip does not depend on its own step.
LEMMA FlipKept ==
    ASSUME NEW p \in Procs, Quiet, raced \subseteq raced', raced \subseteq Fulfillments,
           NEW h, HaulerOf(p) = h, HaulerOf(p)' = h, NEW i \in Items, MayFlip(p, i)
    PROVE  MayFlip(p, i)'
<1>1. db'[i] = db[i] /\ \A f \in Fulfillments : db'[f] = db[f]
    BY Keys DEF Quiet
<1>2. Tainted(i) => Tainted(i)'
    BY <1>1, TaintStays
<1>3. \A g \in Haulers : Pending(db, g)' = Pending(db, g)
    BY Keys DEF Pending, Quiet
<1>4. \A g : Covers(db, g, i)' <=> Covers(db, g, i)
    BY <1>1, SamePurchases
<1> QED
    BY <1>1, <1>2, <1>3, <1>4 DEF MayFlip

\* A step of p keeps the invariant if it keeps what concerns p.
LEMMA QuietStep ==
    ASSUME RowsInv, NEW p \in Procs, Local(p), Quiet, Tables', Proc(p)', RaceSeen'
    PROVE  RowsInv'
<1>1. /\ db'[List] = db[List] /\ \A i \in Items : db'[i] = db[i]
      /\ \A h \in Haulers : db'[h] = db[h]
      /\ \A f \in Fulfillments : db'[f] = db[f]
    BY Keys DEF Quiet
<1>2. /\ \A h : Bought(db, h)' = Bought(db, h)
      /\ \A i : Units(db, i)' = Units(db, i)
      /\ \A h, i : Covers(db, h, i)' <=> Covers(db, h, i)
    BY <1>1, SamePurchases
<1>3. \A h \in Haulers : Pending(db, h)' = Pending(db, h)
    BY <1>1 DEF Pending
<1>4. raced \subseteq raced' /\ raced \subseteq Fulfillments
    BY DEF Local, RowsInv, Tables
<1>5. ProcInv'
    <2> SUFFICES ASSUME NEW q \in Procs PROVE Proc(q)'
        BY DEF ProcInv
    <2> QED
        BY <1>4, OthersStay DEF RowsInv, ProcInv
<1>6. RowsHold'
    <2>1. \A f \in Fulfillments : db[f] # None =>
             db[f] \in Purchase /\ db[f].item \in Items /\ db[f].hauler \in Haulers
        BY DEF RowsInv, RowsHold, Purchase
    <2>2. \A i \in Items : db'[i] # None => Sound(db, i, db[i])'
        BY <1>1, <1>2 DEF RowsInv, RowsHold, Sound
    <2> QED
        BY <1>1, <2>1, <2>2 DEF RowsInv, RowsHold
<1>7. PendingIsExact'
    BY <1>1, <1>2, <1>3 DEF RowsInv, PendingIsExact
<1>8. MissedOnlyInRace'
    BY <1>1, <1>2, <1>4 DEF RowsInv, MissedOnlyInRace
<1>9. SettledUnpaidInRace'
    <2> SUFFICES ASSUME NEW i \in Items, NEW h \in Haulers, db'[i] # None,
                        db'[i].status = "settled", Covers(db', h, i), Pending(db', h)
                 PROVE  Tainted(i)'
        BY DEF SettledUnpaidInRace, Tainted
    <2>1. Tainted(i)
        BY <1>1, <1>2, <1>3 DEF RowsInv, SettledUnpaidInRace, Tainted
    <2> QED
        BY <1>1, <1>4, <2>1, TaintStays
<1> QED
    BY <1>5, <1>6, <1>7, <1>8, <1>9 DEF RowsInv

\* What was written stays good while p goes on and writes the rows W of items, of
\* reimbursements or of the list.
LEMMA MineKept ==
    ASSUME RowsInv, NEW p \in Procs, Quiet, raced \subseteq raced',
           p \in Contracts \/ (pc[p] # "idle" /\ pc'[p] # "idle"),
           arg'[p] = arg[p], Serial(p) => pc'[p] # "first",
           \A x \in Rows : lock[x] = p => lock'[x] = p,
           NEW W \in SUBSET (Items \cup Haulers \cup {List}),
           DOMAIN mine'[p] = DOMAIN mine[p] \cup W,
           \A x \in DOMAIN mine[p] \ W : mine'[p][x] = mine[p][x],
           pc'[p] \in Fresh => DOMAIN mine[p] = {} /\ W = {},
           Op(p) = "reverse" /\ pc'[p] \notin Fresh => arg[p].ful \in DOMAIN mine[p],
           pc'[p] \in {"settled", "flip", "close"} =>
              HaulerOf(p) \in DOMAIN mine'[p] /\ mine'[p][HaulerOf(p)].status = "settled",
           HaulerOf(p) \in W => \/ DOMAIN mine[p] = {} \/ ~Settler(p)
                                \/ mine'[p][HaulerOf(p)].status = "settled",
           Buyer(p) /\ pc'[p] = "commit" => Payee(p) \in DOMAIN mine'[p],
           List \in W => mine'[p][List] = "closed" /\ lock'[List] = p,
           \A i \in W \cap Items : ItemMine(p, i)',
           \A h \in W \cap Haulers : BillMine(p, h)'
    PROVE  Mine(p)'
<1>1. Proc(p) /\ Mine(p) /\ Shape(p) /\ RowsHold /\ raced \subseteq Fulfillments
    BY DEF RowsInv, ProcInv, Proc, Tables
<1>2. /\ Op(p)' = Op(p) /\ Settler(p)' = Settler(p) /\ Buyer(p)' = Buyer(p)
      /\ HaulerOf(p)' = HaulerOf(p)
    BY SameRequest
<1>3. Serial(p) => Serial(p)'
    BY <1>2 DEF Serial
<1>4. Buyer(p) => Payee(p)' = Payee(p) /\ ItemOf(p)' = ItemOf(p)
    BY <1>1, <1>2, SamePurchase
<1>5. \A f \in Fulfillments : /\ db'[f] = db[f] /\ (f \in DOMAIN mine'[p] <=> f \in DOMAIN mine[p])
                              /\ f \in DOMAIN mine[p] => mine'[p][f] = mine[p][f]
    BY Keys DEF Quiet
<1>6. \A f \in Fulfillments : View(p)'[f] = View(p)[f]
    BY <1>5, Keys DEF View
<1>7. /\ \A h : Bought(View(p), h)' = Bought(View(p), h)
      /\ \A i : Units(View(p), i)' = Units(View(p), i)
    BY <1>6, SamePurchases
<1>8. DOMAIN mine'[p] \subseteq Rows \ Contracts
    BY <1>1, Keys DEF Mine
<1>9. \A f \in DOMAIN mine'[p] \cap Fulfillments : PurchaseMine(p, f)'
    <2> TAKE f \in DOMAIN mine'[p] \cap Fulfillments
    <2>1. PurchaseMine(p, f) /\ mine'[p][f] = mine[p][f] /\ db'[f] = db[f]
        BY <1>1, <1>5 DEF Mine
    <2>2. \A g \in DOMAIN mine'[p] \cap Fulfillments : g = f
        BY <1>5, <2>1 DEF PurchaseMine
    <2> QED
        BY <1>2, <1>3, <1>4, <2>1, <2>2 DEF PurchaseMine
<1>10. \A i \in DOMAIN mine'[p] \cap Items : ItemMine(p, i)'
    <2> TAKE i \in DOMAIN mine'[p] \cap Items
    <2>1. CASE i \in W
        BY <2>1
    <2>2. CASE i \notin W
        <3>1. ItemMine(p, i) /\ mine'[p][i] = mine[p][i] /\ db'[i] = db[i] /\ i \in DOMAIN mine[p]
            BY <1>1, <2>2, Keys DEF Mine, Quiet
        <3>2. Settler(p) => MayFlip(p, i)'
            BY <1>1, <1>2, <3>1, FlipKept DEF ItemMine
        <3>3. Sound(View(p), i, mine[p][i])'
            BY <1>7, <3>1 DEF ItemMine, Sound
        <3>4. Settler(p) => /\ HaulerOf(p) \in DOMAIN mine'[p]
                            /\ mine'[p][HaulerOf(p)].status = "settled"
            BY <3>1 DEF ItemMine
        <3>5. lock[i] = p => lock'[i] = p
            BY Keys
        <3> QED
            BY <1>2, <1>4, <3>1, <3>2, <3>3, <3>4, <3>5 DEF ItemMine
    <2> QED
        BY <2>1, <2>2
<1>11. \A h \in DOMAIN mine'[p] \cap Haulers : BillMine(p, h)'
    <2> TAKE h \in DOMAIN mine'[p] \cap Haulers
    <2>1. CASE h \in W
        BY <2>1
    <2>2. CASE h \notin W
        <3>1. BillMine(p, h) /\ mine'[p][h] = mine[p][h] /\ db'[h] = db[h]
            BY <1>1, <2>2, Keys DEF Mine, Quiet
        <3>2. Pending(db, h)' = Pending(db, h) /\ (lock[h] = p => lock'[h] = p)
            BY <3>1, Keys DEF Pending
        <3> QED
            BY <1>2, <1>4, <1>7, <3>1, <3>2 DEF BillMine
    <2> QED
        BY <2>1, <2>2
<1>12. List \in DOMAIN mine'[p] => mine'[p][List] = "closed" /\ lock'[List] = p
    BY <1>1, Keys DEF Mine
<1> QED
    BY <1>2, <1>8, <1>9, <1>10, <1>11, <1>12 DEF Mine

\* What concerns races, in a step that adds no purchase.
LEMMA RaceKept ==
    ASSUME RowsInv, NEW p \in Procs, Local(p), Quiet,
           \A f \in DOMAIN mine'[p] \cap Fulfillments :
              f \in DOMAIN mine[p] /\ Payee(p)' = Payee(p),
           \A h \in Haulers : h \in DOMAIN mine'[p] /\ mine'[p][h].status = "settled" =>
              \/ h \in DOMAIN mine[p] /\ mine[p][h].status = "settled"
              \/ \A q \in Procs \ {p} : \A f \in DOMAIN mine[q] \cap Fulfillments :
                    Payee(q) = h => f \in raced'
    PROVE  RaceSeen'
<1>1. RaceSeen /\ ProcInv /\ RowsHold
    BY DEF RowsInv
<1> SUFFICES ASSUME NEW q \in Procs, NEW s \in Procs, NEW f \in DOMAIN mine'[q] \cap Fulfillments,
                    \/ db'[Payee(q)'] # None /\ db'[Payee(q)'].status = "settled"
                    \/ /\ q # s /\ Payee(q)' \in DOMAIN mine'[s]
                       /\ mine'[s][Payee(q)'].status = "settled"
             PROVE  f \in raced'
    BY DEF RaceSeen
<1>2. f \in DOMAIN mine[q] /\ (q # p => mine'[q] = mine[q]) /\ raced \subseteq raced'
    BY DEF Local
<1>3. PurchaseMine(q, f) /\ Shape(q) /\ Buyer(q)
    BY <1>1, <1>2 DEF ProcInv, Proc, Mine, PurchaseMine
<1>4. Payee(q)' = Payee(q) /\ Payee(q) \in Haulers
    <2>1. CASE q # p
        <3>1. Op(q)' = Op(q) /\ arg'[q] = arg[q]
            BY <2>1, Unmoved DEF Local
        <3> QED
            BY <1>1, <1>3, <3>1, SamePurchase, PurchaseOf
    <2> QED
        BY <1>1, <1>3, <2>1, PurchaseOf
<1>5. CASE db'[Payee(q)] # None /\ db'[Payee(q)].status = "settled"
    <2>1. db'[Payee(q)] = db[Payee(q)]
        BY <1>4, Keys DEF Quiet
    <2> QED
        BY <1>1, <1>2, <1>5, <2>1 DEF RaceSeen
<1>6. CASE q # s /\ Payee(q) \in DOMAIN mine'[s] /\ mine'[s][Payee(q)].status = "settled"
    <2>1. CASE Payee(q) \in DOMAIN mine[s] /\ mine[s][Payee(q)].status = "settled"
        BY <1>1, <1>2, <1>6, <2>1 DEF RaceSeen
    <2>2. CASE s # p
        <3>1. mine'[s] = mine[s]
            BY <2>2 DEF Local
        <3> QED
            BY <1>6, <2>1, <3>1
    <2>3. CASE s = p /\ ~(Payee(q) \in DOMAIN mine[s] /\ mine[s][Payee(q)].status = "settled")
        BY <1>2, <1>4, <1>6, <2>3
    <2> QED
        BY <2>1, <2>2, <2>3
<1> QED
    BY <1>4, <1>5, <1>6

\* The same for the step that records or reverses a purchase.
LEMMA RaceOfPurchase ==
    ASSUME RowsInv, NEW p \in Procs, Local(p), Quiet, DOMAIN mine[p] = {},
           DOMAIN mine'[p] \cap Haulers = {},
           NEW g \in Fulfillments, DOMAIN mine'[p] \cap Fulfillments = {g},
           NEW h \in Haulers, Payee(p)' = h,
           db[h] # None => db[h].status = "pending", lock[h] # None => g \in raced'
    PROVE  RaceSeen'
<1>1. RaceSeen /\ ProcInv /\ RowsHold /\ Tables
    BY DEF RowsInv
<1> SUFFICES ASSUME NEW q \in Procs, NEW s \in Procs, NEW f \in DOMAIN mine'[q] \cap Fulfillments,
                    \/ db'[Payee(q)'] # None /\ db'[Payee(q)'].status = "settled"
                    \/ /\ q # s /\ Payee(q)' \in DOMAIN mine'[s]
                       /\ mine'[s][Payee(q)'].status = "settled"
             PROVE  f \in raced'
    BY DEF RaceSeen
<1>2. CASE q = p
    <2>1. f = g /\ db'[h] = db[h]
        BY <1>2, Keys DEF Quiet
    <2>2. s # p /\ h \in DOMAIN mine[s]
        BY <1>2, <2>1 DEF Local
    <2>3. lock[h] = s
        BY <1>1, <2>2 DEF ProcInv, Proc, Mine, BillMine
    <2> QED
        BY <2>1, <2>3, Keys
<1>3. CASE q # p
    <2>1. mine'[q] = mine[q] /\ arg'[q] = arg[q] /\ Op(q)' = Op(q) /\ raced \subseteq raced'
        BY <1>3, Unmoved DEF Local
    <2>2. PurchaseMine(q, f) /\ Shape(q) /\ Buyer(q)
        BY <1>1, <2>1 DEF ProcInv, Proc, Mine, PurchaseMine
    <2>3. Payee(q)' = Payee(q) /\ Payee(q) \in Haulers
        BY <1>1, <2>1, <2>2, SamePurchase, PurchaseOf
    <2>4. db'[Payee(q)] = db[Payee(q)]
        BY <2>3, Keys DEF Quiet
    <2>5. s # p => mine'[s] = mine[s]
        BY DEF Local
    <2>6. CASE db[Payee(q)] # None /\ db[Payee(q)].status = "settled"
        BY <1>1, <2>1, <2>6 DEF RaceSeen
    <2>7. CASE q # s /\ Payee(q) \in DOMAIN mine[s] /\ mine[s][Payee(q)].status = "settled"
        BY <1>1, <2>1, <2>7 DEF RaceSeen
    <2> QED
        BY <2>3, <2>4, <2>5, <2>6, <2>7
<1> QED
    BY <1>2, <1>3

\* p goes on with its request.
GoesOn(p) ==
    /\ Local(p) /\ Quiet /\ arg' = arg
    /\ p \in Contracts \/ (pc[p] # "idle" /\ pc'[p] # "idle")
    /\ Serial(p) => pc'[p] # "first"
    /\ \A x \in Rows : lock[x] = p => lock'[x] = p

\* The request that goes on is the one that began.
LEMMA ShapeKept ==
    ASSUME NEW p \in Procs, Shape(p), GoesOn(p), AtStatement(p)'
    PROVE  Shape(p)'
<1>1. Op(p)' = Op(p) /\ arg'[p] = arg[p]
    BY SameRequest DEF GoesOn
<1>2. /\ Op(p) \in {"record", "deliver"} => arg[p].item \in Items
      /\ Op(p) = "reverse" => arg[p].ful \in Fulfillments
      /\ Op(p) \in {"settle", "link"} => arg[p].hauler \in Haulers
    BY ArgOf DEF Recording, OnItem, Reversing, ByHandOf, Linking
<1>3. \A r \in Items \cup Fulfillments \cup Haulers : db'[r] = db[r]
    BY Keys DEF GoesOn, Quiet
<1>4. p \in Requests => p \notin Contracts
    BY Keys
<1> QED
    BY <1>1, <1>2, <1>3, <1>4 DEF Shape, GoesOn

\* A step that writes no row.
LEMMA ReadStep ==
    ASSUME RowsInv, NEW p \in Procs, GoesOn(p), mine' = mine, Tables',
           pc'[p] \in Fresh => DOMAIN mine[p] = {},
           Op(p) = "reverse" /\ pc'[p] \notin Fresh => pc[p] \notin Fresh,
           pc'[p] \in {"settled", "flip", "close"} => pc[p] \in {"settled", "flip", "close"},
           Buyer(p) => pc'[p] # "commit",
           AtStatement(p)', Holds(p)', Waits(p)'
    PROVE  RowsInv'
<1>1. Proc(p) /\ RowsHold /\ raced \subseteq raced'
    BY DEF RowsInv, ProcInv, GoesOn, Local
<1>2. Shape(p)'
    BY <1>1, ShapeKept DEF Proc
<1>3. Mine(p)'
    <2>1. {} \in SUBSET (Items \cup Haulers \cup {List})
        OBVIOUS
    <2>2. /\ DOMAIN mine'[p] = DOMAIN mine[p] \cup {}
          /\ \A x \in DOMAIN mine[p] \ {} : mine'[p][x] = mine[p][x]
        OBVIOUS
    <2>3. pc'[p] \in {"settled", "flip", "close"} =>
              HaulerOf(p) \in DOMAIN mine'[p] /\ mine'[p][HaulerOf(p)].status = "settled"
        BY <1>1 DEF Proc, Mine
    <2>4. Op(p) = "reverse" /\ pc'[p] \notin Fresh => arg[p].ful \in DOMAIN mine[p]
        BY <1>1 DEF Proc, Mine
    <2>5. arg'[p] = arg[p] /\ Quiet
        BY DEF GoesOn
    <2> QED
        BY <1>1, <2>1, <2>2, <2>3, <2>4, <2>5, MineKept DEF GoesOn
<1>4. RaceSeen'
    <2>1. \A f \in DOMAIN mine'[p] \cap Fulfillments : f \in DOMAIN mine[p] /\ Payee(p)' = Payee(p)
        <3> TAKE f \in DOMAIN mine'[p] \cap Fulfillments
        <3>1. Buyer(p)
            BY <1>1 DEF Proc, Mine, PurchaseMine
        <3>2. Op(p)' = Op(p) /\ arg'[p] = arg[p] /\ Quiet
            BY SameRequest DEF GoesOn
        <3> QED
            BY <1>1, <3>1, <3>2, SamePurchase DEF Proc
    <2> QED
        BY <2>1, RaceKept DEF GoesOn
<1> QED
    BY <1>2, <1>3, <1>4, QuietStep DEF GoesOn, Proc

\* A step that writes a row of an item, of a reimbursement or of the list.
Puts(p, r, v) ==
    /\ GoesOn(p) /\ Tables' /\ AtStatement(p)' /\ Holds(p)' /\ Waits(p)'
    /\ r \in Items \cup Haulers \cup {List} /\ mine' = Put(p, r, v)
    /\ pc'[p] \notin Fresh /\ (Op(p) = "reverse" => pc[p] \notin Fresh)
    /\ pc'[p] \in {"settled", "flip", "close"} =>
          \/ pc[p] \in {"settled", "flip", "close"} /\ r \notin Haulers
          \/ r = HaulerOf(p) /\ v.status = "settled"
    /\ r = HaulerOf(p) => DOMAIN mine[p] = {} \/ ~Settler(p) \/ v.status = "settled"
    /\ Buyer(p) /\ pc'[p] = "commit" => r = Payee(p)
    /\ r = List => v = "closed" /\ lock'[List] = p
    /\ r \in Items => ItemMine(p, r)'
    /\ r \in Haulers => BillMine(p, r)'
    /\ r \in Haulers /\ v.status = "settled" =>
          \A q \in Procs \ {p} : \A f \in DOMAIN mine[q] \cap Fulfillments :
             Payee(q) = r => f \in raced'

\* Such a step keeps the invariant.
LEMMA PutStep ==
    ASSUME RowsInv, NEW p \in Procs, NEW r, NEW v, Puts(p, r, v)
    PROVE  RowsInv'
<1> USE DEF Puts
<1>1. Proc(p) /\ RowsHold /\ raced \subseteq raced'
    BY DEF RowsInv, ProcInv, GoesOn, Local
<1>2. Shape(p)'
    BY <1>1, ShapeKept DEF Proc
<1>3. /\ DOMAIN mine'[p] = DOMAIN mine[p] \cup {r} /\ mine'[p][r] = v
      /\ \A x \in DOMAIN mine[p] \ {r} : mine'[p][x] = mine[p][x]
    BY PutDoes
<1>4. Mine(p)'
    <2>1. {r} \in SUBSET (Items \cup Haulers \cup {List})
        OBVIOUS
    <2>2. pc'[p] \in {"settled", "flip", "close"} =>
              HaulerOf(p) \in DOMAIN mine'[p] /\ mine'[p][HaulerOf(p)].status = "settled"
        <3>1. pc[p] \in {"settled", "flip", "close"} => HaulerOf(p) \in Haulers
            BY <1>1, KindAt, ArgOf DEF Proc
        <3> QED
            BY <1>1, <1>3, <3>1 DEF Proc, Mine
    <2>3. Op(p) = "reverse" /\ pc'[p] \notin Fresh => arg[p].ful \in DOMAIN mine[p]
        BY <1>1 DEF Proc, Mine
    <2>4. arg'[p] = arg[p] /\ Quiet
        BY DEF GoesOn
    <2>5. HaulerOf(p) \in {r} => \/ DOMAIN mine[p] = {} \/ ~Settler(p)
                                 \/ mine'[p][HaulerOf(p)].status = "settled"
        BY <1>3
    <2>6. Buyer(p) /\ pc'[p] = "commit" => Payee(p) \in DOMAIN mine'[p]
        BY <1>3
    <2>7. List \in {r} => mine'[p][List] = "closed" /\ lock'[List] = p
        BY <1>3
    <2>8. /\ \A i \in {r} \cap Items : ItemMine(p, i)'
          /\ \A h \in {r} \cap Haulers : BillMine(p, h)'
        OBVIOUS
    <2> QED
        BY <1>1, <1>3, <2>1, <2>2, <2>3, <2>4, <2>5, <2>6, <2>7, <2>8, MineKept DEF GoesOn
<1>5. RaceSeen'
    <2>1. \A f \in DOMAIN mine'[p] \cap Fulfillments : f \in DOMAIN mine[p] /\ Payee(p)' = Payee(p)
        <3> TAKE f \in DOMAIN mine'[p] \cap Fulfillments
        <3>1. f \in DOMAIN mine[p]
            BY <1>3, Keys
        <3>2. Buyer(p)
            BY <1>1, <3>1 DEF Proc, Mine, PurchaseMine
        <3>3. Op(p)' = Op(p) /\ arg'[p] = arg[p] /\ Quiet
            BY SameRequest DEF GoesOn
        <3> QED
            BY <1>1, <3>1, <3>2, <3>3, SamePurchase DEF Proc
    <2>2. \A h \in Haulers : h \in DOMAIN mine'[p] /\ mine'[p][h].status = "settled" =>
             \/ h \in DOMAIN mine[p] /\ mine[p][h].status = "settled"
             \/ \A q \in Procs \ {p} : \A f \in DOMAIN mine[q] \cap Fulfillments :
                   Payee(q) = h => f \in raced'
        BY <1>3
    <2> QED
        BY <2>1, <2>2, RaceKept DEF GoesOn
<1> QED
    BY <1>2, <1>4, <1>5, QuietStep DEF GoesOn, Proc

-----------------------------------------------------------------------------
(* The statements one by one.                                              *)

\* A request arrives; it has no lock and has written nothing.
LEMMA RequestBegins ==
    ASSUME RowsInv, NEW p \in Requests, NEW a \in Args, NEW S \in SUBSET Rows, IsFiniteSet(S),
           Request(p, a, S),
           a.op \in {"record", "deliver"} => db[a.item] # None,
           a.op = "reverse" => db[a.ful] # None,
           a.op \in {"settle", "link"} => db[a.hauler] # None,
           a.op = "link" => \A s \in SetToSeqs(S) : \E n \in 1 .. Len(s) : s[n] = a.hauler
    PROVE  RowsInv'
<1>1. p \in Procs /\ p \notin Contracts
    BY Keys DEF Procs
<1>2. Tables /\ Proc(p) /\ RaceSeen
    BY <1>1 DEF RowsInv, ProcInv
<1>3. /\ pc[p] = "idle" /\ arg' = [arg EXCEPT ![p] = a] /\ Start(p, "first", S)
      /\ UNCHANGED <<db, lock, mine, raced, seen>>
    BY DEF Request
<1>4. /\ DOMAIN pc' = Procs /\ pc'[p] = "first" /\ DOMAIN todo' = Procs
      /\ todo'[p] \in SetToSeqs(S) /\ todo'[p] \in Seq(Rows)
      /\ \A q \in Procs \ {p} : pc'[q] = pc[q] /\ todo'[q] = todo[q]
    BY <1>1, <1>2, <1>3, StartDoes
<1>5. Local(p) /\ Quiet /\ Tables'
    BY <1>2, <1>3, <1>4 DEF Local, Quiet, Tables
<1>6. arg'[p] = a /\ Op(p)' = a.op /\ a.op \notin {"none", "contract"}
    <2>1. a.op \in {"record", "deliver", "add", "reverse", "settle", "link"}
        BY DEF Args, Recording, OnItem, Reversing, ByHandOf, Linking
    <2>2. arg'[p] = a
        BY <1>1, <1>2, <1>3 DEF Tables
    <2> QED
        BY <1>1, <1>4, <2>1, <2>2 DEF Op
<1>7. DOMAIN mine'[p] = {}
    BY <1>2, <1>3 DEF Proc, Mine, Fresh
<1>8. Shape(p)'
    BY <1>1, <1>3, <1>4, <1>6 DEF Shape, AtStatement
<1>9. Holds(p)'
    <2>1. \A r \in Rows : lock[r] # p
        BY <1>1, <1>2, <1>3 DEF Proc, Holds, Op
    <2> QED
        BY <1>3, <1>4, <2>1 DEF Holds, Serial
<1>10. Waits(p)'
    <2>1. a.op = "link" => a.hauler \in Left(p)'
        BY <1>4 DEF Left
    <2> QED
        BY <1>4, <1>6, <2>1 DEF Waits
<1>11. Mine(p)'
    BY <1>4, <1>6, <1>7 DEF Mine, Fresh
<1>12. RaceSeen'
    BY <1>1, <1>3, <1>5, <1>7, RaceKept
<1> QED
    BY <1>1, <1>5, <1>8, <1>9, <1>10, <1>11, <1>12, QuietStep DEF Proc

\* A request of any kind arrives.
LEMMA NewRequestKeeps ==
    ASSUME RowsInv, NEW p \in Requests, NewRequest(p)
    PROVE  RowsInv'
<1>1. {List} \in SUBSET Rows /\ IsFiniteSet({List})
    BY Keys, FS_Singleton
<1>2. ASSUME NEW i \in Items, NEW h \in Haulers, db[i] # None,
             Request(p, [op |-> "record", item |-> i, hauler |-> h], {List})
      PROVE  RowsInv'
    <2>1. [op |-> "record", item |-> i, hauler |-> h] \in Args
        BY DEF Args, Recording
    <2> QED
        BY <1>1, <1>2, <2>1, RequestBegins
<1>3. ASSUME NEW i \in Items, db[i] # None, Request(p, [op |-> "deliver", item |-> i], {List})
      PROVE  RowsInv'
    <2>1. [op |-> "deliver", item |-> i] \in Args
        BY DEF Args, OnItem
    <2> QED
        BY <1>1, <1>3, <2>1, RequestBegins
<1>4. ASSUME NEW i \in Items, Request(p, [op |-> "add", item |-> i], {List})
      PROVE  RowsInv'
    <2>1. [op |-> "add", item |-> i] \in Args
        BY DEF Args, OnItem
    <2> QED
        BY <1>1, <1>4, <2>1, RequestBegins
<1>5. ASSUME NEW f \in Fulfillments, db[f] # None, Request(p, [op |-> "reverse", ful |-> f], {List})
      PROVE  RowsInv'
    <2>1. [op |-> "reverse", ful |-> f] \in Args
        BY DEF Args, Reversing
    <2> QED
        BY <1>1, <1>5, <2>1, RequestBegins
<1>6. ASSUME NEW h \in Haulers, db[h] # None, Request(p, [op |-> "settle", hauler |-> h], {List})
      PROVE  RowsInv'
    <2>1. [op |-> "settle", hauler |-> h] \in Args
        BY DEF Args, ByHandOf
    <2> QED
        BY <1>1, <1>6, <2>1, RequestBegins
<1>7. ASSUME NEW c \in Contracts, db[Issuer[c]] # None,
             Request(p, [op |-> "link", contract |-> c, hauler |-> Issuer[c]], {c, Issuer[c]})
      PROVE  RowsInv'
    <2>1. Issuer[c] \in Haulers /\ c # Issuer[c]
        BY RowsAssumption, Keys
    <2>2. [op |-> "link", contract |-> c, hauler |-> Issuer[c]] \in Args
        BY <2>1 DEF Args, Linking
    <2>3. {c, Issuer[c]} \in SUBSET Rows /\ IsFiniteSet({c, Issuer[c]})
        <3>1. {c, Issuer[c]} = {c} \cup {Issuer[c]}
            OBVIOUS
        <3>2. IsFiniteSet({c} \cup {Issuer[c]})
            BY FS_Singleton, FS_AddElement
        <3> QED
            BY <2>1, <3>1, <3>2, Keys
    <2>4. \A s \in SetToSeqs({c, Issuer[c]}) : \E n \in 1 .. Len(s) : s[n] = Issuer[c]
        BY <2>1, TwoRows
    <2> QED
        BY <1>7, <2>2, <2>3, <2>4, RequestBegins
<1> QED
    BY <1>2, <1>3, <1>4, <1>5, <1>6, <1>7 DEF NewRequest

\* lock_list.
LEMMA LockListKeeps ==
    ASSUME RowsInv, NEW p \in Requests, LockList(p)
    PROVE  RowsInv'
<1>1. p \in Procs /\ p \notin Contracts /\ p # None
    BY Keys DEF Procs
<1>2. Tables /\ Proc(p) /\ Shape(p)
    BY <1>1 DEF RowsInv, ProcInv, Proc
<1>3. /\ pc[p] = "first" /\ arg[p].op # "link" /\ lock[List] = None
      /\ lock' = [lock EXCEPT ![List] = p] /\ Start(p, arg[p].op, FirstRows(arg[p]))
      /\ UNCHANGED <<db, arg, mine, raced, seen>>
    BY DEF LockList
<1>4. /\ Op(p) = arg[p].op /\ Op(p) \in {"record", "deliver", "add", "reverse", "settle"}
      /\ Op(p) \in {"record", "deliver"} => arg[p].item \in Items
      /\ Op(p) = "settle" => arg[p].hauler \in Haulers
    BY <1>1, <1>2, <1>3, ArgOf, KindAt DEF Recording, OnItem, ByHandOf
<1>5. /\ DOMAIN pc' = Procs /\ pc'[p] = Op(p) /\ DOMAIN todo' = Procs /\ todo'[p] \in Seq(Rows)
      /\ \A q \in Procs \ {p} : pc'[q] = pc[q] /\ todo'[q] = todo[q]
      /\ Op(p) \in {"record", "deliver"} => todo'[p] = <<arg[p].item>>
      /\ Op(p) = "settle" => todo'[p] = <<arg[p].hauler>>
    <2>1. CASE Op(p) \in {"record", "deliver"}
        <3>1. FirstRows(arg[p]) = {arg[p].item} /\ arg[p].item \in Rows
            BY <1>4, <2>1, Keys DEF FirstRows
        <3> QED
            BY <1>1, <1>2, <1>3, <1>4, <2>1, <3>1, StartOne
    <2>2. CASE Op(p) = "settle"
        <3>1. FirstRows(arg[p]) = {arg[p].hauler} /\ arg[p].hauler \in Rows
            BY <1>4, <2>2, Keys DEF FirstRows
        <3> QED
            BY <1>1, <1>2, <1>3, <1>4, <2>2, <3>1, StartOne
    <2>3. CASE Op(p) \in {"add", "reverse"}
        <3>1. FirstRows(arg[p]) = {}
            BY <1>4, <2>3 DEF FirstRows
        <3> QED
            BY <1>1, <1>2, <1>3, <1>4, <2>3, <3>1, StartNone
    <2> QED
        BY <1>4, <2>1, <2>2, <2>3
<1>6. lock'[List] = p /\ lock' \in [Rows -> Procs \cup {None}]
      /\ \A q \in Procs \ {p} : \A x \in Rows : lock'[x] = q <=> lock[x] = q
    BY <1>1, <1>2, <1>3, Keys DEF Tables
<1>7. GoesOn(p) /\ Tables'
    <2>1. Local(p) /\ Quiet /\ Tables'
        BY <1>2, <1>3, <1>5, <1>6 DEF Local, Quiet, Tables
    <2>2. \A x \in Rows : lock[x] = p => lock'[x] = p
        BY <1>2, <1>3 DEF Tables
    <2> QED
        BY <1>3, <1>4, <1>5, <2>1, <2>2 DEF GoesOn, Serial
<1>8. Op(p)' = Op(p) /\ HaulerOf(p)' = HaulerOf(p)
    BY <1>1, <1>7, SameRequest DEF GoesOn
<1>9. AtStatement(p)' /\ Holds(p)'
    BY <1>4, <1>5, <1>6, <1>8 DEF AtStatement, Holds
<1>10. Waits(p)'
    BY <1>1, <1>3, <1>4, <1>5, <1>8 DEF Waits, HaulerOf
<1>11. DOMAIN mine[p] = {} /\ pc'[p] \in Fresh
    BY <1>2, <1>3, <1>4, <1>5 DEF Proc, Mine, Fresh
<1> QED
    BY <1>1, <1>3, <1>4, <1>5, <1>7, <1>9, <1>10, <1>11, ReadStep

\* record_fulfillment: the purchase has raced if the bill is locked by a settlement.
LEMMA RecordKeeps ==
    ASSUME RowsInv, NEW p \in Requests, RecordFulfillment(p)
    PROVE  RowsInv'
<1>1. p \in Procs /\ p \notin Contracts /\ p # None
    BY Keys DEF Procs
<1>2. Tables /\ Proc(p) /\ Shape(p) /\ RowsHold /\ todo[p] \in Seq(Rows)
    BY <1>1 DEF RowsInv, ProcInv, Proc, Waits
<1> DEFINE a == arg[p]
           i == arg[p].item
           h == arg[p].hauler
           v == View(p)
<1>3. /\ pc[p] = "record" /\ MayRecord(v, a) /\ Grant(p, i)
      /\ pc' = [pc EXCEPT ![p] = "recorded"] /\ UNCHANGED <<db, arg, seen>>
    BY DEF RecordFulfillment
<1>4. PICK f \in Fulfillments :
         /\ v[f] = None
         /\ mine' = [mine EXCEPT ![p] =
                       [x \in {f, i} |->
                          IF x = f THEN [v EXCEPT ![f] = [item |-> i, hauler |-> h, live |-> TRUE]][f]
                          ELSE Recomputed([v EXCEPT ![f] = [item |-> i, hauler |-> h, live |-> TRUE]],
                                          i, FALSE)]]
         /\ raced' = IF lock[h] = None THEN raced ELSE raced \cup {f}
    BY DEF RecordFulfillment
<1> DEFINE pur == [item |-> i, hauler |-> h, live |-> TRUE]
           new == [v EXCEPT ![f] = pur]
           row == Recomputed(new, i, FALSE)
<1>5. Op(p) = "record" /\ i \in Items /\ h \in Haulers /\ db[i] # None /\ DOMAIN mine[p] = {}
    BY <1>1, <1>2, <1>3, KindAt, ArgOf DEF Recording, Shape, Proc, Mine, Fresh
<1>6. DOMAIN v = Rows /\ \A r \in Rows : v[r] = db[r]
    BY <1>5 DEF View
<1>7. /\ new[f] = pur /\ \A r \in Rows \ {f} : new[r] = db[r]
      /\ f \in Rows /\ f # i /\ db[f] = None
    BY <1>4, <1>5, <1>6, Keys
<1>8. /\ mine'[p] = [x \in {f, i} |-> IF x = f THEN pur ELSE row]
      /\ DOMAIN mine' = Procs /\ \A q \in Procs \ {p} : mine'[q] = mine[q]
    BY <1>1, <1>2, <1>4, <1>7 DEF Tables
<1> HIDE DEF row, new, v
<1>9. DOMAIN mine'[p] = {f, i} /\ mine'[p][f] = pur /\ mine'[p][i] = row
    BY <1>7, <1>8
<1>10. Sound(db, i, db[i]) /\ db[i].filled < Qty[i] /\ db[i].status = "open"
    <2>1. Sound(db, i, db[i])
        BY <1>2, <1>5 DEF RowsHold
    <2>2. db[i].filled < Qty[i]
        BY <1>3, <1>5, <1>6, Keys DEF MayRecord
    <2> QED
        BY <2>1, <2>2 DEF Sound
<1>11. Units(new, i) = Units(db, i) + 1
    <2>1. Live(new, f) /\ new[f].item = i
        <3>1. pur \in Purchase /\ pur.item = i /\ pur.live
            BY <1>5 DEF Purchase
        <3>2. pur # None
            BY <3>1, NullAssumption
        <3> HIDE DEF pur
        <3> QED
            BY <1>7, <3>1, <3>2 DEF Live
    <2>2. \A g \in Fulfillments \ {f} : db[g] = new[g]
        BY <1>7, Keys
    <2> QED
        BY <1>7, <2>1, <2>2, UnitMore
<1>12. Sound(new, i, row)
    <2>1. new[i] = db[i]
        BY <1>5, <1>7, Keys
    <2>2. row = [status |-> IF Units(new, i) < Qty[i] THEN "open" ELSE "bought",
                 filled |-> Units(new, i)]
        BY <1>10, <2>1 DEF row, Recomputed
    <2>3. Units(new, i) \in 0 .. Cardinality(Fulfillments)
        BY UnitsType
    <2>4. row \in ItemRow
        BY <2>2, <2>3 DEF ItemRow
    <2>5. Units(db, i) \in Nat /\ Units(new, i) \in Nat /\ db[i].filled \in Nat /\ Qty[i] \in Nat
          /\ Units(db, i) <= db[i].filled
        BY <1>5, <1>10, UnitsType, RowsAssumption DEF Sound, ItemRow
    <2>6. row.filled = Units(new, i) /\ (Units(new, i) < Qty[i] => row.status = "open")
        BY <2>2
    <2> QED
        BY <1>10, <1>11, <2>4, <2>5, <2>6 DEF Sound
<1>13. /\ lock'[i] = p /\ lock' \in [Rows -> Procs \cup {None}]
       /\ \A x \in Rows : lock[x] = p => lock'[x] = p
       /\ \A q \in Procs \ {p} : \A x \in Rows : lock'[x] = q <=> lock[x] = q
       /\ DOMAIN todo' = Procs /\ todo'[p] \in Seq(Rows)
       /\ \A q \in Procs \ {p} : todo'[q] = todo[q]
    BY <1>1, <1>2, <1>3, GrantDoes
<1>14. DOMAIN pc' = Procs /\ pc'[p] = "recorded" /\ \A q \in Procs \ {p} : pc'[q] = pc[q]
    BY <1>1, <1>2, <1>3 DEF Tables
<1>15. Local(p) /\ Quiet /\ Tables'
    BY <1>2, <1>3, <1>4, <1>8, <1>13, <1>14 DEF Local, Quiet, Tables
<1>16. /\ Op(p)' = Op(p) /\ Settler(p)' = Settler(p) /\ Buyer(p)' = Buyer(p)
       /\ arg'[p] = arg[p] /\ db' = db
    BY <1>1, <1>3, <1>14, SameRequest
<1>17. GoesOn(p)
    BY <1>3, <1>13, <1>14, <1>15 DEF GoesOn
<1>18. Shape(p)'
    <2>1. AtStatement(p)'
        BY <1>5, <1>14, <1>16 DEF AtStatement
    <2> QED
        BY <1>1, <1>2, <1>17, <2>1, ShapeKept
<1>19. Serial(p)' /\ Holds(p)'
    <2>1. lock[List] = p
        BY <1>2, <1>3, <1>5 DEF Proc, Holds, Serial
    <2> QED
        BY <1>5, <1>13, <1>14, <1>16, <2>1, Keys DEF Holds, Serial
<1>20. Waits(p)'
    BY <1>13, <1>14 DEF Waits
<1>21. Payee(p)' = h /\ ItemOf(p)' = i
    BY <1>5, <1>16 DEF Payee, ItemOf
<1>22. Mine(p)'
    <2>1. DOMAIN mine'[p] \subseteq Rows \ Contracts /\ List \notin DOMAIN mine'[p]
          /\ DOMAIN mine'[p] \cap Haulers = {} /\ DOMAIN mine'[p] \cap Fulfillments = {f}
          /\ DOMAIN mine'[p] \cap Items = {i}
        BY <1>5, <1>9, Keys
    <2>2. PurchaseMine(p, f)'
        <3>1. pur \in Purchase /\ pur.hauler = h /\ pur.item = i /\ pur.live
            BY <1>5 DEF Purchase
        <3> QED
            BY <1>5, <1>7, <1>9, <1>14, <1>16, <1>19, <1>21, <2>1, <3>1 DEF PurchaseMine, Buyer
    <2>3. ItemMine(p, i)'
        <3>1. \A g \in Fulfillments : View(p)'[g] = new[g]
            <4> HIDE DEF pur
            <4> QED
                BY <1>3, <1>5, <1>7, <1>9, Keys DEF View
        <3>2. Units(View(p)', i) = Units(new, i)
            BY <3>1, SamePurchases
        <3>3. Sound(View(p)', i, mine'[p][i])
            BY <1>9, <1>12, <3>2 DEF Sound
        <3>4. row.status # "settled"
            BY <1>10, <1>5, <1>7, Keys DEF row, Recomputed
        <3> QED
            BY <1>5, <1>9, <1>10, <1>13, <1>16, <1>21, <3>3, <3>4 DEF ItemMine, Settler, Buyer
    <2> QED
        BY <1>5, <1>14, <1>16, <2>1, <2>2, <2>3 DEF Mine, Fresh
<1>23. RaceSeen'
    <2>1. DOMAIN mine'[p] \cap Haulers = {} /\ DOMAIN mine'[p] \cap Fulfillments = {f}
        BY <1>5, <1>9, Keys
    <2>2. db[h] # None => db[h].status = "pending"
        BY <1>3, <1>5, <1>6, Keys DEF MayRecord
    <2>3. lock[h] # None => f \in raced'
        BY <1>4
    <2> HIDE DEF h
    <2> QED
        BY <1>1, <1>5, <1>15, <1>21, <2>1, <2>2, <2>3, RaceOfPurchase
<1> QED
    BY <1>1, <1>15, <1>18, <1>19, <1>20, <1>22, <1>23, QuietStep DEF Proc

\* reverse_fulfillment marks the purchase; it has raced if the bill is locked.
LEMMA ReverseKeeps ==
    ASSUME RowsInv, NEW p \in Requests, ReverseFulfillment(p)
    PROVE  RowsInv'
<1>1. p \in Procs /\ p \notin Contracts /\ p # None
    BY Keys DEF Procs
<1>2. Tables /\ Proc(p) /\ Shape(p) /\ RowsHold /\ todo[p] \in Seq(Rows)
    BY <1>1 DEF RowsInv, ProcInv, Proc, Waits
<1> DEFINE f == arg[p].ful
           pur == [db[f] EXCEPT !.live = FALSE]
           h == db[f].hauler
<1>3. /\ pc[p] = "reverse" /\ Live(View(p), f) /\ MayReverse(View(p), f)
      /\ mine' = Put(p, f, pur) /\ pc' = [pc EXCEPT ![p] = "reread"]
      /\ raced' = IF lock[h] = None THEN raced ELSE raced \cup {f}
      /\ UNCHANGED <<db, lock, arg, seen, todo>>
    BY DEF ReverseFulfillment
<1>4. Op(p) = "reverse" /\ f \in Fulfillments /\ db[f] # None /\ DOMAIN mine[p] = {} /\ Buyer(p)
    BY <1>1, <1>2, <1>3, KindAt, ArgOf DEF Reversing, Shape, Proc, Mine, Fresh, Buyer
<1>5. \A r \in Rows : View(p)[r] = db[r]
    BY <1>4 DEF View
<1>6. /\ db[f] \in Purchase /\ h \in Haulers /\ db[f].item \in Items /\ db[f].live
      /\ pur \in Purchase /\ pur.hauler = h /\ pur.item = db[f].item /\ ~pur.live
    <2>1. db[f] \in Purchase /\ db[f].live
        BY <1>2, <1>3, <1>4, <1>5, Keys DEF RowsHold, Live
    <2> QED
        BY <2>1 DEF Purchase
<1>7. /\ DOMAIN mine' = Procs /\ \A q \in Procs \ {p} : mine'[q] = mine[q]
      /\ DOMAIN mine'[p] = {f} /\ mine'[p][f] = pur
    <2>1. mine' = Put(p, f, pur) /\ DOMAIN mine[p] = {}
        BY <1>3, <1>4
    <2> HIDE DEF pur, f
    <2>2. /\ DOMAIN mine' = Procs /\ \A q \in Procs \ {p} : mine'[q] = mine[q]
          /\ DOMAIN mine'[p] = DOMAIN mine[p] \cup {f} /\ mine'[p][f] = pur
        BY <1>1, <2>1, PutDoes
    <2> QED
        BY <2>1, <2>2
<1> HIDE DEF pur
<1>8. DOMAIN pc' = Procs /\ pc'[p] = "reread" /\ \A q \in Procs \ {p} : pc'[q] = pc[q]
    BY <1>1, <1>2, <1>3 DEF Tables
<1>9. Local(p) /\ Quiet /\ Tables'
    BY <1>2, <1>3, <1>4, <1>7, <1>8 DEF Local, Quiet, Tables
<1>10. /\ Op(p)' = Op(p) /\ Settler(p)' = Settler(p) /\ Buyer(p)' = Buyer(p)
       /\ arg'[p] = arg[p] /\ db' = db
    BY <1>1, <1>3, <1>8, SameRequest
<1>11. GoesOn(p)
    BY <1>3, <1>8, <1>9 DEF GoesOn
<1>12. Shape(p)'
    <2>1. AtStatement(p)'
        BY <1>4, <1>8, <1>10 DEF AtStatement
    <2> QED
        BY <1>1, <1>2, <1>11, <2>1, ShapeKept
<1>13. Serial(p)' /\ Holds(p)'
    <2>1. lock[List] = p
        BY <1>2, <1>3, <1>4 DEF Proc, Holds, Serial
    <2> QED
        BY <1>3, <1>4, <1>8, <1>10, <2>1 DEF Holds, Serial
<1>14. Waits(p)'
    BY <1>2, <1>3, <1>8 DEF Waits
<1>15. Payee(p)' = h /\ ItemOf(p)' = db[f].item
    BY <1>4, <1>10 DEF Payee, ItemOf
<1>16. /\ DOMAIN mine'[p] \subseteq Rows \ Contracts /\ List \notin DOMAIN mine'[p]
       /\ DOMAIN mine'[p] \cap Haulers = {} /\ DOMAIN mine'[p] \cap Fulfillments = {f}
       /\ DOMAIN mine'[p] \cap Items = {}
    BY <1>4, <1>7, Keys
<1>17. Mine(p)'
    <2>1. PurchaseMine(p, f)'
        BY <1>4, <1>6, <1>7, <1>8, <1>10, <1>13, <1>15, <1>16 DEF PurchaseMine
    <2> QED
        BY <1>8, <1>10, <1>16, <1>4, <2>1 DEF Mine, Fresh
<1>18. RaceSeen'
    <2>1. db[h] # None => db[h].status = "pending"
        BY <1>3, <1>4, <1>5, <1>6, Keys DEF MayReverse
    <2>2. lock[h] # None => f \in raced'
        BY <1>3
    <2> HIDE DEF h, f
    <2> QED
        BY <1>1, <1>4, <1>6, <1>9, <1>15, <1>16, <2>1, <2>2, RaceOfPurchase
<1> QED
    BY <1>1, <1>9, <1>12, <1>13, <1>14, <1>17, <1>18, QuietStep DEF Proc

\* An item as a transaction sees it fits the purchases that it sees.
LEMMA SeenItem ==
    ASSUME NEW p \in Procs, Proc(p), RowsHold, NEW i \in Items, View(p)[i] # None, Op(p) # "record"
    PROVE  /\ Sound(View(p), i, View(p)[i])
           /\ i \notin DOMAIN mine[p] => db[i] # None /\ View(p)[i] = db[i]
<1>1. View(p)[i] = IF i \in DOMAIN mine[p] THEN mine[p][i] ELSE db[i]
    BY ViewOf, Keys
<1>2. CASE i \in DOMAIN mine[p]
    BY <1>1, <1>2 DEF Proc, Mine, ItemMine
<1>3. CASE i \notin DOMAIN mine[p]
    <2>1. View(p)[i] = db[i] /\ Sound(db, i, db[i])
        BY <1>1, <1>3 DEF RowsHold
    <2>2. ASSUME NEW f \in Fulfillments, Live(View(p), f), View(p)[f].item = i
          PROVE  Live(db, f) /\ db[f].item = i
        <3>1. f \notin DOMAIN mine[p]
            <4> SUFFICES ASSUME f \in DOMAIN mine[p] PROVE FALSE
                OBVIOUS
            <4>1. PurchaseMine(p, f) /\ View(p)[f] = mine[p][f]
                BY ViewOf, Keys DEF Proc, Mine
            <4> QED
                BY <2>2, <4>1 DEF PurchaseMine, Buyer, Live
        <3> QED
            BY <2>2, <3>1, ViewOf, Keys DEF Live
    <2>3. Units(View(p), i) <= Units(db, i)
        BY <2>2, FewerUnits
    <2>4. Units(View(p), i) \in Nat /\ Units(db, i) \in Nat /\ db[i].filled \in Int
        BY <2>1, UnitsType DEF Sound, ItemRow
    <2> QED
        BY <1>3, <2>1, <2>3, <2>4 DEF Sound
<1> QED
    BY <1>2, <1>3

\* recompute_item_status reads the item, without a lock, for a reversal.
LEMMA RereadKeeps ==
    ASSUME RowsInv, NEW p \in Requests, RereadItem(p)
    PROVE  RowsInv'
<1>1. p \in Procs /\ p \notin Contracts
    BY Keys DEF Procs
<1>2. Tables /\ Proc(p) /\ Shape(p) /\ RowsHold
    BY <1>1 DEF RowsInv, ProcInv, Proc
<1> DEFINE i == View(p)[arg[p].ful].item
<1>3. /\ pc[p] = "reread" /\ UNCHANGED <<db, lock, arg, mine, raced>>
      /\ IF View(p)[i].status = "settled" THEN Start(p, "rewritten", {}) ELSE Start(p, "rewrite", {i})
      /\ seen' = [seen EXCEPT ![p] = Recomputed(View(p), i, TRUE)]
    BY DEF RereadItem
<1>4. Op(p) = "reverse" /\ Buyer(p) /\ pc[p] \notin Fresh
      /\ arg[p].ful \in Fulfillments /\ arg[p].ful \in DOMAIN mine[p]
    BY <1>1, <1>2, <1>3, KindAt, ArgOf DEF Reversing, Proc, Mine, Fresh, Buyer
<1>5. i = ItemOf(p) /\ i \in Items /\ View(p)[i] # None
    <2>1. PurchaseMine(p, arg[p].ful) /\ View(p)[arg[p].ful] = mine[p][arg[p].ful]
        BY <1>1, <1>2, <1>4, ViewOf, Keys DEF Proc, Mine
    <2>2. i = ItemOf(p) /\ i \in Items /\ db[i] # None
        BY <1>1, <1>2, <1>4, <2>1, PurchaseOf DEF PurchaseMine
    <2> HIDE DEF i
    <2> QED
        BY <1>1, <1>2, <2>2, ViewOf, WrittenRows, Keys
<1> HIDE DEF i
<1>6. Sound(View(p), i, View(p)[i])
    BY <1>1, <1>2, <1>4, <1>5, SeenItem
<1>7. /\ DOMAIN pc' = Procs /\ DOMAIN todo' = Procs /\ todo'[p] \in Seq(Rows)
      /\ pc'[p] \in {"rewritten", "rewrite"}
      /\ pc'[p] = "rewrite" => todo'[p] = <<i>> /\ View(p)[i].status # "settled"
      /\ \A q \in Procs \ {p} : pc'[q] = pc[q] /\ todo'[q] = todo[q]
    <2>1. CASE View(p)[i].status = "settled"
        BY <1>1, <1>2, <1>3, <2>1, StartNone
    <2>2. CASE View(p)[i].status # "settled"
        BY <1>1, <1>2, <1>3, <1>5, <2>2, StartOne, Keys
    <2> QED
        BY <2>1, <2>2
<1>8. seen'[p] = Recomputed(View(p), i, TRUE) /\ DOMAIN seen' = Procs
      /\ \A q \in Procs \ {p} : seen'[q] = seen[q]
    BY <1>1, <1>2, <1>3 DEF Tables
<1>9. GoesOn(p) /\ Tables'
    BY <1>2, <1>3, <1>7, <1>8 DEF GoesOn, Local, Quiet, Tables
<1>10. Op(p)' = Op(p) /\ ItemOf(p)' = i
    <2>1. Op(p)' = Op(p)
        BY <1>1, <1>9, SameRequest DEF GoesOn
    <2> QED
        BY <1>3, <1>5, <2>1 DEF ItemOf
<1>11. AtStatement(p)' /\ Holds(p)'
    <2>1. lock[List] = p
        BY <1>2, <1>3, <1>4 DEF Proc, Holds, Serial
    <2> QED
        BY <1>3, <1>4, <1>7, <1>10, <2>1 DEF AtStatement, Holds, Serial
<1>12. Waits(p)'
    <2>1. ASSUME pc'[p] = "rewrite"
          PROVE  seen'[p].status # "settled" /\ Sound(View(p), i, seen'[p])
        <3> DEFINE row == Recomputed(View(p), i, TRUE)
        <3>1. /\ row.filled = Units(View(p), i) /\ row \in ItemRow /\ row.status # "settled"
              /\ Units(View(p), i) < Qty[i] => row.status = "open"
            <4>1. Units(View(p), i) \in 0 .. Cardinality(Fulfillments)
                BY UnitsType
            <4> DEFINE new == IF Units(View(p), i) < Qty[i] THEN "open"
                              ELSE IF View(p)[i].status = "delivered" THEN "delivered"
                              ELSE "bought"
            <4>2. row = [status |-> new, filled |-> Units(View(p), i)]
                <5>1. View(p)[i].status # "settled"
                    BY <1>7, <2>1
                <5>2. Units(View(p), i) \in Nat /\ Qty[i] \in Nat
                    BY <1>5, UnitsType, RowsAssumption
                <5> QED
                    BY <5>1, <5>2 DEF Recomputed
            <4>3. new \in {"open", "bought", "delivered"} /\ (Units(View(p), i) < Qty[i] => new = "open")
                OBVIOUS
            <4> HIDE DEF new, row
            <4> QED
                BY <4>1, <4>2, <4>3 DEF ItemRow
        <3>2. Units(View(p), i) \in Nat /\ View(p)[i].filled \in Int /\ Qty[i] \in Nat
            BY <1>5, <1>6, UnitsType, RowsAssumption DEF Sound, ItemRow
        <3> HIDE DEF row
        <3>3. Sound(View(p), i, row)
            BY <1>6, <3>1, <3>2 DEF Sound
        <3> QED
            BY <1>8, <3>1, <3>3 DEF row
    <2>2. View(p)' = View(p)
        BY <1>3 DEF View
    <2>3. pc'[p] = "rewrite" => Sound(View(p), ItemOf(p), seen[p])'
        BY <1>10, <2>1, <2>2
    <2> QED
        BY <1>7, <1>10, <2>1, <2>3 DEF Waits
<1>13. pc'[p] \notin Fresh
    BY <1>7 DEF Fresh
<1> QED
    BY <1>1, <1>3, <1>4, <1>7, <1>9, <1>11, <1>12, <1>13, ReadStep

\* p goes on: what its request is and the locks it holds stay.
Kept(p) ==
    /\ GoesOn(p) /\ Tables' /\ Holds(p)' /\ db' = db /\ arg' = arg
    /\ Op(p)' = Op(p) /\ Settler(p)' = Settler(p) /\ Buyer(p)' = Buyer(p)
    /\ HaulerOf(p)' = HaulerOf(p) /\ Payee(p)' = Payee(p) /\ ItemOf(p)' = ItemOf(p)

\* A statement of a transaction keeps its request and its locks.
LEMMA Advance ==
    ASSUME RowsInv, NEW p \in Procs, p \in Contracts \/ pc[p] # "idle",
           p \in Contracts \/ pc'[p] # "idle",
           pc[p] = "first" \/ pc'[p] = "first" => Op(p) = "link",
           db' = db, arg' = arg, Local(p), Tables',
           \A x \in Rows : lock[x] = p => lock'[x] = p
    PROVE  Kept(p)
<1>1. Tables /\ Proc(p) /\ Shape(p)
    BY DEF RowsInv, ProcInv, Proc
<1>2. Serial(p) => pc'[p] # "first"
    BY DEF Serial
<1>3. GoesOn(p)
    BY <1>2 DEF GoesOn, Quiet
<1>4. /\ Op(p)' = Op(p) /\ Settler(p)' = Settler(p) /\ Buyer(p)' = Buyer(p)
      /\ HaulerOf(p)' = HaulerOf(p)
    BY SameRequest
<1>5. Payee(p)' = Payee(p) /\ ItemOf(p)' = ItemOf(p)
    BY <1>4 DEF Payee, ItemOf
<1>6. Holds(p)'
    <2>1. Serial(p)' => Serial(p)
        BY <1>4 DEF Serial
    <2>2. ~(p \in Requests /\ pc'[p] \in {"idle", "first"} /\ Op(p) # "link")
        BY Keys
    <2> QED
        BY <1>1, <1>4, <2>1, <2>2, Keys DEF Proc, Holds
<1> QED
    BY <1>3, <1>4, <1>5, <1>6 DEF Kept

\* A statement that gets the next of its row locks.
LEMMA Granted ==
    ASSUME RowsInv, NEW p \in Procs, NEW r, Grant(p, r),
           p \in Contracts \/ pc[p] # "idle", pc'[p] # "idle",
           pc[p] = "first" \/ pc'[p] = "first" => Op(p) = "link",
           db' = db, arg' = arg, seen' = seen,
           raced \subseteq raced', raced' \subseteq Fulfillments,
           DOMAIN pc' = Procs, \A q \in Procs \ {p} : pc'[q] = pc[q],
           DOMAIN mine' = Procs, \A q \in Procs \ {p} : mine'[q] = mine[q]
    PROVE  /\ Kept(p) /\ lock'[r] = p /\ r \in Rows /\ r \in Left(p)
           /\ todo'[p] \in Seq(Rows) /\ Left(p)' \subseteq Left(p)
           /\ \A x \in Left(p) : x = r \/ x \in Left(p)'
           /\ \A x \in Rows : lock[x] = p => lock'[x] = p
<1>1. Tables /\ Proc(p) /\ todo[p] \in Seq(Rows)
    BY DEF RowsInv, ProcInv, Proc, Waits
<1>2. /\ r \in Rows /\ r \in Left(p) /\ lock'[r] = p
      /\ lock' \in [Rows -> Procs \cup {None}]
      /\ \A x \in Rows : lock[x] = p => lock'[x] = p
      /\ \A q \in Procs \ {p} : \A x \in Rows : lock'[x] = q <=> lock[x] = q
      /\ DOMAIN todo' = Procs /\ todo'[p] \in Seq(Rows)
      /\ Left(p)' \subseteq Left(p) /\ \A x \in Left(p) : x = r \/ x \in Left(p)'
      /\ \A q \in Procs \ {p} : todo'[q] = todo[q]
    BY <1>1, GrantDoes
<1>3. Local(p) /\ Tables'
    BY <1>1, <1>2 DEF Local, Tables
<1>4. Kept(p)
    BY <1>2, <1>3, Advance
<1> QED
    BY <1>2, <1>4

\* A statement that starts: it has no new lock and has written nothing.
LEMMA Begun ==
    ASSUME RowsInv, NEW p \in Procs, NEW label, NEW S \in SUBSET Rows, IsFiniteSet(S),
           Start(p, label, S), p \in Contracts \/ pc[p] # "idle", label # "idle",
           pc[p] # "first", label # "first",
           UNCHANGED <<db, lock, arg, mine, raced>>,
           DOMAIN seen' = Procs, \A q \in Procs \ {p} : seen'[q] = seen[q]
    PROVE  /\ Kept(p) /\ pc'[p] = label /\ Left(p)' \subseteq S
           /\ todo'[p] \in SetToSeqs(S) /\ todo'[p] \in Seq(Rows)
<1>1. Tables
    BY DEF RowsInv
<1>2. /\ DOMAIN pc' = Procs /\ pc'[p] = label
      /\ DOMAIN todo' = Procs /\ todo'[p] \in SetToSeqs(S) /\ todo'[p] \in Seq(Rows)
      /\ Left(p)' \subseteq S
      /\ \A q \in Procs \ {p} : pc'[q] = pc[q] /\ todo'[q] = todo[q]
    BY <1>1, StartDoes
<1>3. Local(p) /\ Tables'
    BY <1>1, <1>2 DEF Local, Tables
<1>4. Kept(p)
    BY <1>2, <1>3, Advance
<1> QED
    BY <1>2, <1>4

\* The UPDATE of the item that ends recompute_item_status of a reversal.
LEMMA RewriteKeeps ==
    ASSUME RowsInv, NEW p \in Requests, RewriteItem(p)
    PROVE  RowsInv'
<1>1. p \in Procs /\ p \notin Contracts
    BY Keys DEF Procs
<1>2. Tables /\ Proc(p) /\ Shape(p) /\ RowsHold /\ raced \subseteq Fulfillments
    BY <1>1 DEF RowsInv, ProcInv, Proc, Tables
<1>0. PICK i : i = Head(todo[p])
    OBVIOUS
<1>3. /\ pc[p] = "rewrite" /\ Grant(p, i) /\ mine' = Put(p, i, seen[p])
      /\ pc' = [pc EXCEPT ![p] = "rewritten"] /\ UNCHANGED <<db, arg, seen, raced>>
    BY <1>0 DEF RewriteItem
<1>4. Op(p) = "reverse" /\ Buyer(p) /\ ~Settler(p) /\ pc[p] \notin Fresh
    BY <1>1, <1>2, <1>3, KindAt, ArgOf DEF Fresh, Buyer, Settler
<1>5. i = ItemOf(p) /\ seen[p].status # "settled" /\ Sound(View(p), ItemOf(p), seen[p])
    BY <1>0, <1>2, <1>3 DEF Proc, Waits
<1>6. i \in Items /\ db[i] # None
    BY <1>1, <1>2, <1>4, <1>5, PurchaseOf
<1>7. /\ DOMAIN mine' = Procs /\ \A q \in Procs \ {p} : mine'[q] = mine[q]
      /\ DOMAIN mine'[p] = DOMAIN mine[p] \cup {i} /\ mine'[p][i] = seen[p]
      /\ \A x \in DOMAIN mine[p] \ {i} : mine'[p][x] = mine[p][x]
    BY <1>1, <1>3, PutDoes
<1>8. /\ Kept(p) /\ pc'[p] = "rewritten" /\ lock'[i] = p /\ todo'[p] \in Seq(Rows)
    <2>1. DOMAIN pc' = Procs /\ pc'[p] = "rewritten" /\ \A q \in Procs \ {p} : pc'[q] = pc[q]
        BY <1>1, <1>2, <1>3 DEF Tables
    <2> QED
        BY <1>1, <1>2, <1>3, <1>7, <2>1, Granted
<1>9. ItemMine(p, i)'
    <2>1. \A f \in Fulfillments : View(p)'[f] = View(p)[f]
        BY <1>3, <1>6, <1>7, Keys DEF View
    <2>2. Units(View(p)', i) = Units(View(p), i)
        BY <2>1, SamePurchases
    <2>3. Sound(View(p)', i, mine'[p][i])
        BY <1>5, <1>7, <2>2 DEF Sound
    <2> QED
        BY <1>3, <1>4, <1>5, <1>6, <1>7, <1>8, <2>3 DEF ItemMine, Kept
<1>10. AtStatement(p)' /\ Waits(p)'
    BY <1>4, <1>8 DEF AtStatement, Waits, Kept
<1>11. pc'[p] \notin Fresh /\ i \notin Haulers /\ i # List /\ i \in Items \cup Haulers \cup {List}
    BY <1>6, <1>8, Keys DEF Fresh
<1>12. ~(i = HaulerOf(p) /\ Settler(p))
    BY <1>4
<1>20. Puts(p, i, seen[p])
    BY <1>1, <1>3, <1>4, <1>8, <1>9, <1>10, <1>11, <1>12 DEF Puts, Kept
<1> QED
    BY <1>1, <1>20, PutStep

\* upsert_reimbursement starts: it adds up the purchases its transaction sees.
LEMMA UpsertStartKeeps ==
    ASSUME RowsInv, NEW p \in Requests, UpsertStart(p)
    PROVE  RowsInv'
<1>1. p \in Procs /\ p \notin Contracts
    BY Keys DEF Procs
<1>2. Tables /\ Proc(p) /\ Shape(p) /\ RowsHold
    BY <1>1 DEF RowsInv, ProcInv, Proc
<1> DEFINE h == IF pc[p] = "recorded" THEN arg[p].hauler ELSE View(p)[arg[p].ful].hauler
<1>3. /\ pc[p] \in {"recorded", "rewritten"} /\ Start(p, "upsert", {h})
      /\ seen' = [seen EXCEPT ![p] = Bought(View(p), h)]
      /\ UNCHANGED <<db, lock, arg, mine, raced>>
    BY DEF UpsertStart
<1>4. Buyer(p) /\ pc[p] \notin Fresh /\ Op(p) = IF pc[p] = "recorded" THEN "record" ELSE "reverse"
    BY <1>1, <1>2, <1>3, KindAt DEF Fresh, Buyer
<1>5. h = Payee(p)
    <2>1. CASE pc[p] = "recorded"
        BY <1>4, <2>1 DEF Payee
    <2>2. CASE pc[p] = "rewritten"
        <3>1. arg[p].ful \in Fulfillments /\ arg[p].ful \in DOMAIN mine[p]
            BY <1>1, <1>2, <1>4, <2>2, ArgOf DEF Reversing, Proc, Mine
        <3>2. PurchaseMine(p, arg[p].ful) /\ View(p)[arg[p].ful] = mine[p][arg[p].ful]
            BY <1>1, <1>2, <3>1, ViewOf, Keys DEF Proc, Mine
        <3> QED
            BY <2>2, <3>2 DEF PurchaseMine
    <2> QED
        BY <1>3, <2>1, <2>2
<1>6. h \in Haulers
    BY <1>1, <1>2, <1>4, <1>5, PurchaseOf
<1> HIDE DEF h
<1>7. {h} \in SUBSET Rows /\ IsFiniteSet({h})
    BY <1>6, Keys, FS_Singleton
<1>8. seen'[p] = Bought(View(p), h) /\ DOMAIN seen' = Procs /\ \A q \in Procs \ {p} : seen'[q] = seen[q]
    BY <1>1, <1>2, <1>3 DEF Tables
<1>9. Kept(p) /\ pc'[p] = "upsert" /\ todo'[p] \in SetToSeqs({h}) /\ todo'[p] \in Seq(Rows)
    BY <1>1, <1>3, <1>7, <1>8, Begun
<1>10. todo'[p] = <<h>>
    BY <1>9, FewRows
<1>11. View(p)' = View(p)
    BY <1>3 DEF View
<1>12. AtStatement(p)' /\ Waits(p)'
    <2>1. Payee(p)' = h
        BY <1>5, <1>9 DEF Kept
    <2>2. seen'[p] = Bought(View(p)', h)
        BY <1>8, <1>11
    <2> QED
        BY <1>4, <1>9, <1>10, <2>1, <2>2 DEF AtStatement, Waits, Kept, Buyer
<1>13. pc'[p] \notin Fresh
    BY <1>9 DEF Fresh
<1> QED
    BY <1>1, <1>3, <1>4, <1>9, <1>12, <1>13, ReadStep DEF Kept

\* upsert_reimbursement writes its sum, unless the bill was settled while it waited.
LEMMA UpsertKeeps ==
    ASSUME RowsInv, NEW p \in Requests, Upsert(p)
    PROVE  RowsInv'
<1>1. p \in Procs /\ p \notin Contracts
    BY Keys DEF Procs
<1>2. Tables /\ Proc(p) /\ Shape(p) /\ RowsHold /\ raced \subseteq Fulfillments /\ ProcInv
    BY <1>1 DEF RowsInv, ProcInv, Proc, Tables
<1>0. PICK h : h = Head(todo[p])
    OBVIOUS
<1> DEFINE row == Upserted(View(p)[h], seen[p])
<1>3. /\ pc[p] = "upsert" /\ Grant(p, h) /\ mine' = Put(p, h, row)
      /\ pc' = [pc EXCEPT ![p] = "commit"] /\ UNCHANGED <<db, arg, seen, raced>>
    BY <1>0 DEF Upsert
<1>4. Buyer(p) /\ ~Settler(p) /\ pc[p] \notin Fresh /\ Serial(p)
    BY <1>1, <1>2, <1>3, KindAt, ArgOf DEF Fresh, Buyer, Settler, Serial
<1>5. h = Payee(p) /\ seen[p] = Bought(View(p), h)
    BY <1>0, <1>2, <1>3 DEF Proc, Waits
<1>6. h \in Haulers /\ db[h] \in Bill \cup {None}
    BY <1>1, <1>2, <1>4, <1>5, PurchaseOf DEF RowsHold
<1>7. row = Upserted(db[h], Bought(View(p), h))
    <2>1. Bought(View(p), h) \in SUBSET Fulfillments
        BY BoughtType
    <2>2. View(p)[h] = IF h \in DOMAIN mine[p] THEN mine[p][h] ELSE db[h]
        BY <1>1, <1>6, ViewOf, Keys
    <2>3. CASE h \in DOMAIN mine[p]
        <3>1. mine[p][h] = Upserted(db[h], Bought(View(p), h))
            BY <1>2, <1>4, <1>6, <2>3 DEF Proc, Mine, BillMine
        <3> QED
            BY <1>5, <1>6, <2>1, <2>2, <2>3, <3>1, UpsertedRow
    <2> QED
        BY <1>5, <2>2, <2>3
<1> HIDE DEF row
<1>8. /\ DOMAIN mine' = Procs /\ \A q \in Procs \ {p} : mine'[q] = mine[q]
      /\ DOMAIN mine'[p] = DOMAIN mine[p] \cup {h} /\ mine'[p][h] = row
      /\ \A x \in DOMAIN mine[p] \ {h} : mine'[p][x] = mine[p][x]
    BY <1>1, <1>3, PutDoes
<1>9. /\ Kept(p) /\ pc'[p] = "commit" /\ lock'[h] = p /\ todo'[p] \in Seq(Rows)
    <2>1. DOMAIN pc' = Procs /\ pc'[p] = "commit" /\ \A q \in Procs \ {p} : pc'[q] = pc[q]
        BY <1>1, <1>2, <1>3 DEF Tables
    <2> QED
        BY <1>1, <1>2, <1>3, <1>8, <2>1, Granted
<1>10. BillMine(p, h)'
    <2>1. \A f \in Fulfillments : View(p)'[f] = View(p)[f]
        BY <1>3, <1>6, <1>8, Keys DEF View
    <2>2. Bought(View(p)', h) = Bought(View(p), h)
        BY <2>1, SamePurchases
    <2> QED
        BY <1>3, <1>4, <1>5, <1>7, <1>8, <1>9, <2>2 DEF BillMine, Kept
<1>11. \A q \in Procs \ {p} : \A f \in DOMAIN mine[q] \cap Fulfillments : FALSE
    BY <1>2, <1>4 DEF ProcInv, Proc, Holds, Mine, PurchaseMine
<1>12. AtStatement(p)' /\ Waits(p)'
    BY <1>4, <1>9 DEF AtStatement, Waits, Kept, Buyer
<1>13. pc'[p] \notin Fresh /\ h \notin Items /\ h # List /\ h \in Items \cup Haulers \cup {List}
    BY <1>6, <1>9, Keys DEF Fresh
<1>20. Puts(p, h, row)
    BY <1>1, <1>3, <1>4, <1>5, <1>9, <1>10, <1>11, <1>12, <1>13 DEF Puts, Kept
<1> QED
    BY <1>1, <1>20, PutStep

\* mark_delivered of a bought item.
LEMMA DeliverKeeps ==
    ASSUME RowsInv, NEW p \in Requests, MarkDelivered(p)
    PROVE  RowsInv'
<1>1. p \in Procs /\ p \notin Contracts
    BY Keys DEF Procs
<1>2. Tables /\ Proc(p) /\ Shape(p) /\ RowsHold /\ raced \subseteq Fulfillments
    BY <1>1 DEF RowsInv, ProcInv, Proc, Tables
<1>0. PICK i : i = arg[p].item
    OBVIOUS
<1> DEFINE row == [View(p)[i] EXCEPT !.status = "delivered"]
<1>3. /\ pc[p] = "deliver" /\ Grant(p, i) /\ View(p)[i].status = "bought"
      /\ mine' = Put(p, i, row)
      /\ pc' = [pc EXCEPT ![p] = "commit"] /\ UNCHANGED <<db, arg, seen, raced>>
    BY <1>0 DEF MarkDelivered
<1>4. Op(p) = "deliver" /\ ~Buyer(p) /\ ~Settler(p) /\ i \in Items /\ db[i] # None /\ DOMAIN mine[p] = {}
    BY <1>0, <1>1, <1>2, <1>3, KindAt, ArgOf DEF Fresh, Buyer, Settler, OnItem, Shape, Proc, Mine
<1>5. \A r \in Rows : View(p)[r] = db[r]
    BY <1>4 DEF View
<1>6. /\ Sound(db, i, db[i]) /\ db[i].status = "bought"
      /\ row = [db[i] EXCEPT !.status = "delivered"]
    BY <1>2, <1>3, <1>4, <1>5, Keys DEF RowsHold
<1>7. Sound(db, i, row) /\ row.status = "delivered" /\ row.filled = db[i].filled
    BY <1>4, <1>6, RowsAssumption DEF Sound, ItemRow
<1> HIDE DEF row
<1>8. /\ DOMAIN mine' = Procs /\ \A q \in Procs \ {p} : mine'[q] = mine[q]
      /\ DOMAIN mine'[p] = DOMAIN mine[p] \cup {i} /\ mine'[p][i] = row
    BY <1>1, <1>3, PutDoes
<1>9. /\ Kept(p) /\ pc'[p] = "commit" /\ lock'[i] = p /\ todo'[p] \in Seq(Rows)
    <2>1. DOMAIN pc' = Procs /\ pc'[p] = "commit" /\ \A q \in Procs \ {p} : pc'[q] = pc[q]
        BY <1>1, <1>2, <1>3 DEF Tables
    <2> QED
        BY <1>1, <1>2, <1>3, <1>8, <2>1, Granted
<1>10. ItemMine(p, i)'
    <2>1. \A f \in Fulfillments : View(p)'[f] = db[f]
        BY <1>3, <1>4, <1>8, Keys DEF View
    <2>2. Units(View(p)', i) = Units(db, i)
        BY <2>1, SamePurchases
    <2>3. Sound(View(p)', i, mine'[p][i])
        BY <1>7, <1>8, <2>2 DEF Sound
    <2> QED
        BY <1>3, <1>4, <1>7, <1>8, <1>9, <2>3 DEF ItemMine, Kept, Buyer
<1>11. AtStatement(p)' /\ Waits(p)'
    BY <1>4, <1>9 DEF AtStatement, Waits, Kept
<1>12. pc'[p] \notin Fresh /\ i \notin Haulers /\ i # List /\ i \in Items \cup Haulers \cup {List}
    BY <1>4, <1>9, Keys DEF Fresh
<1>20. Puts(p, i, row)
    BY <1>1, <1>3, <1>4, <1>9, <1>10, <1>11, <1>12 DEF Puts, Kept
<1> QED
    BY <1>1, <1>20, PutStep

\* add_items: nobody has bought of an item that is not there.
LEMMA AddKeeps ==
    ASSUME RowsInv, NEW p \in Requests, AddItem(p)
    PROVE  RowsInv'
<1>1. p \in Procs /\ p \notin Contracts
    BY Keys DEF Procs
<1>2. Tables /\ Proc(p) /\ Shape(p) /\ RowsHold /\ raced \subseteq Fulfillments
    BY <1>1 DEF RowsInv, ProcInv, Proc, Tables
<1>0. PICK i : i = arg[p].item
    OBVIOUS
<1> DEFINE row == [status |-> "open", filled |-> 0]
<1>3. /\ pc[p] = "add" /\ db[i] = None /\ mine' = Put(p, i, row)
      /\ pc' = [pc EXCEPT ![p] = "commit"] /\ UNCHANGED <<db, lock, arg, seen, todo, raced>>
    BY <1>0 DEF AddItem
<1>4. Op(p) = "add" /\ ~Buyer(p) /\ ~Settler(p) /\ i \in Items /\ DOMAIN mine[p] = {}
    BY <1>0, <1>1, <1>2, <1>3, KindAt, ArgOf DEF Fresh, Buyer, Settler, OnItem, Proc, Mine
<1>5. Sound(db, i, row)
    <2>1. \A f \in Fulfillments : ~(Live(db, f) /\ db[f].item = i)
        BY <1>2, <1>3 DEF RowsHold, Live
    <2>2. {f \in Fulfillments : Live(db, f) /\ db[f].item = i} = {}
        BY <2>1
    <2>3. Units(db, i) = 0
        BY <2>2, FS_EmptySet DEF Units
    <2>4. Cardinality(Fulfillments) \in Nat
        BY UnitsType
    <2>5. row \in ItemRow /\ row.filled = 0 /\ row.status = "open"
        BY <2>4 DEF ItemRow
    <2>6. Qty[i] \in Nat
        BY <1>4, RowsAssumption
    <2> QED
        BY <2>3, <2>5, <2>6 DEF Sound
<1>6. row.status = "open"
    OBVIOUS
<1> HIDE DEF row
<1>7. /\ DOMAIN mine' = Procs /\ \A q \in Procs \ {p} : mine'[q] = mine[q]
      /\ DOMAIN mine'[p] = DOMAIN mine[p] \cup {i} /\ mine'[p][i] = row
    BY <1>1, <1>3, PutDoes
<1>8. DOMAIN pc' = Procs /\ pc'[p] = "commit" /\ \A q \in Procs \ {p} : pc'[q] = pc[q]
    BY <1>1, <1>2, <1>3 DEF Tables
<1>9. Local(p) /\ Tables'
    BY <1>2, <1>3, <1>7, <1>8 DEF Local, Tables
<1>10. Kept(p)
    BY <1>1, <1>3, <1>8, <1>9, Advance
<1>11. ItemMine(p, i)'
    <2>1. \A f \in Fulfillments : View(p)'[f] = db[f]
        BY <1>3, <1>4, <1>7, Keys DEF View
    <2>2. Units(View(p)', i) = Units(db, i)
        BY <2>1, SamePurchases
    <2>3. Sound(View(p)', i, mine'[p][i])
        BY <1>5, <1>7, <2>2 DEF Sound
    <2> QED
        BY <1>3, <1>4, <1>6, <1>7, <1>10, <2>3 DEF ItemMine, Kept, Buyer
<1>12. AtStatement(p)' /\ Waits(p)'
    BY <1>2, <1>3, <1>4, <1>8, <1>10 DEF AtStatement, Waits, Kept, Proc
<1>13. pc'[p] \notin Fresh /\ i \notin Haulers /\ i # List /\ i \in Items \cup Haulers \cup {List}
    BY <1>4, <1>8, Keys DEF Fresh
<1>20. Puts(p, i, row)
    BY <1>1, <1>3, <1>4, <1>8, <1>10, <1>11, <1>12, <1>13 DEF Puts, Kept
<1> QED
    BY <1>1, <1>20, PutStep

\* do_confirm and do_manual_link get one of the two rows they lock.
LEMMA LockLinkKeeps ==
    ASSUME RowsInv, NEW p \in Requests, LockLinkRow(p)
    PROVE  RowsInv'
<1>1. p \in Procs /\ p \notin Contracts
    BY Keys DEF Procs
<1>2. Tables /\ Proc(p) /\ Shape(p) /\ raced \subseteq Fulfillments
    BY <1>1 DEF RowsInv, ProcInv, Proc, Tables
<1>3. /\ pc[p] = "first" /\ arg[p].op = "link" /\ UNCHANGED <<db, pc, arg, mine, seen, raced>>
    BY DEF LockLinkRow
<1>4. PICK r \in Rows : Grant(p, r)
    BY DEF LockLinkRow
<1>5. Op(p) = "link" /\ ~Buyer(p) /\ arg[p].hauler \in Rows /\ DOMAIN mine[p] = {}
    BY <1>1, <1>2, <1>3, KindAt, ArgOf, Keys DEF Linking, Buyer, Proc, Mine, Fresh
<1>6. /\ Kept(p) /\ lock'[r] = p /\ todo'[p] \in Seq(Rows)
      /\ \A x \in Left(p) : x = r \/ x \in Left(p)'
      /\ \A x \in Rows : lock[x] = p => lock'[x] = p
    <2>1. DOMAIN pc' = Procs /\ DOMAIN mine' = Procs
        BY <1>2, <1>3 DEF Tables
    <2> QED
        BY <1>1, <1>2, <1>3, <1>4, <1>5, <2>1, Granted
<1>7. lock[arg[p].hauler] = p \/ arg[p].hauler \in Left(p)
    BY <1>2, <1>3, <1>5 DEF Proc, Waits
<1>8. AtStatement(p)' /\ Waits(p)'
    <2>1. lock'[arg'[p].hauler] = p \/ arg'[p].hauler \in Left(p)'
        BY <1>3, <1>5, <1>6, <1>7
    <2> QED
        BY <1>3, <1>5, <1>6, <2>1 DEF AtStatement, Waits, Kept
<1> QED
    BY <1>1, <1>3, <1>5, <1>6, <1>8, ReadStep DEF Kept

\* The contract is bound to the reimbursement, whose row is locked by then.
LEMMA LinkKeeps ==
    ASSUME RowsInv, NEW p \in Requests, Link(p)
    PROVE  RowsInv'
<1>1. p \in Procs /\ p \notin Contracts
    BY Keys DEF Procs
<1>2. Tables /\ Proc(p) /\ Shape(p) /\ RowsHold /\ raced \subseteq Fulfillments
    BY <1>1 DEF RowsInv, ProcInv, Proc, Tables
<1>0. PICK h, c : h = arg[p].hauler /\ c = arg[p].contract
    OBVIOUS
<1> DEFINE row == [View(p)[h] EXCEPT !.contract = c]
<1>3. /\ pc[p] = "first" /\ arg[p].op = "link" /\ todo[p] = <<>> /\ MayLink(View(p), h)
      /\ mine' = Put(p, h, row)
      /\ pc' = [pc EXCEPT ![p] = IF db[c] = "finished" THEN "bills" ELSE "commit"]
      /\ UNCHANGED <<db, lock, arg, seen, todo, raced>>
    BY <1>0 DEF Link
<1>4. Op(p) = "link" /\ ~Buyer(p) /\ Settler(p) /\ h \in Haulers /\ c \in Contracts
      /\ h = HaulerOf(p) /\ DOMAIN mine[p] = {}
    BY <1>0, <1>1, <1>2, <1>3, KindAt, ArgOf
    DEF Linking, Buyer, Settler, Proc, Mine, Fresh, HaulerOf
<1>5. lock[h] = p
    <2>1. Left(p) = {}
        BY <1>3 DEF Left
    <2> QED
        BY <1>0, <1>2, <1>3, <1>4, <2>1 DEF Proc, Waits
<1>6. View(p)[h] = db[h]
    BY <1>4, Keys DEF View
<1>7. Pending(db, h) /\ db[h] \in Bill
    BY <1>2, <1>3, <1>4, <1>6 DEF MayLink, Pending, RowsHold
<1>8. row \in Bill /\ row.total = db[h].total /\ row.status = "pending"
    BY <1>4, <1>6, <1>7 DEF Bill, Pending
<1> HIDE DEF row
<1>9. /\ DOMAIN mine' = Procs /\ \A q \in Procs \ {p} : mine'[q] = mine[q]
      /\ DOMAIN mine'[p] = DOMAIN mine[p] \cup {h} /\ mine'[p][h] = row
    BY <1>1, <1>3, PutDoes
<1>10. DOMAIN pc' = Procs /\ pc'[p] \in {"bills", "commit"} /\ \A q \in Procs \ {p} : pc'[q] = pc[q]
    BY <1>1, <1>2, <1>3 DEF Tables
<1>11. Local(p) /\ Tables'
    BY <1>2, <1>3, <1>9, <1>10 DEF Local, Tables
<1>12. Kept(p)
    BY <1>1, <1>3, <1>4, <1>10, <1>11, Advance
<1>13. BillMine(p, h)'
    <2>1. ~Buyer(p)' /\ Settler(p)' /\ HaulerOf(p)' = h /\ lock' = lock /\ db' = db
        BY <1>3, <1>4, <1>12 DEF Kept
    <2>2. Pending(db, h)'
        BY <1>7, <2>1 DEF Pending
    <2> QED
        BY <1>5, <1>8, <1>9, <2>1, <2>2 DEF BillMine
<1>14. AtStatement(p)' /\ Waits(p)'
    BY <1>2, <1>3, <1>4, <1>10, <1>12 DEF AtStatement, Waits, Kept, Proc, Settling
<1>15. pc'[p] \notin Fresh /\ h \notin Items /\ h # List /\ h \in Items \cup Haulers \cup {List}
    BY <1>4, <1>10, Keys DEF Fresh
<1>16. Puts(p, h, row)
    BY <1>3, <1>4, <1>8, <1>10, <1>12, <1>13, <1>14, <1>15 DEF Puts, Kept
<1> QED
    BY <1>1, <1>16, PutStep

\* settle_via_contract looks for a pending reimbursement that is bound to the contract.
LEMMA BillsStartKeeps ==
    ASSUME RowsInv, NEW p \in Procs, BillsStart(p)
    PROVE  RowsInv'
<1>1. Tables /\ Proc(p) /\ Shape(p)
    BY DEF RowsInv, ProcInv, Proc
<1>2. PICK h : h = HaulerOf(p)
    OBVIOUS
<1>3. /\ pc[p] = "bills" /\ UNCHANGED <<db, lock, arg, mine, raced, seen>>
      /\ Start(p, "bill", {h}) \/ Start(p, "commit", {})
    BY <1>2 DEF BillsStart
<1>4. Op(p) \in {"link", "contract"} /\ ~Buyer(p) /\ h \in Haulers /\ pc[p] \notin Fresh
    BY <1>1, <1>2, <1>3, KindAt, ArgOf DEF Buyer, Settler, Fresh
<1>5. {h} \in SUBSET Rows /\ IsFiniteSet({h}) /\ {} \in SUBSET Rows /\ IsFiniteSet({})
    BY <1>4, Keys, FS_Singleton, FS_EmptySet
<1>6. DOMAIN seen' = Procs /\ \A q \in Procs \ {p} : seen'[q] = seen[q]
    BY <1>1, <1>3 DEF Tables
<1>7. /\ Kept(p) /\ todo'[p] \in Seq(Rows) /\ pc'[p] \in {"bill", "commit"}
      /\ pc'[p] = "bill" => todo'[p] = <<h>>
    <2>1. CASE Start(p, "bill", {h})
        <3>1. Kept(p) /\ pc'[p] = "bill" /\ todo'[p] \in SetToSeqs({h}) /\ todo'[p] \in Seq(Rows)
            BY <1>3, <1>5, <1>6, <2>1, Begun
        <3> QED
            BY <3>1, FewRows
    <2>2. CASE Start(p, "commit", {})
        <3>1. Kept(p) /\ pc'[p] = "commit" /\ todo'[p] \in Seq(Rows)
            BY <1>3, <1>5, <1>6, <2>2, Begun
        <3> QED
            BY <3>1
    <2> QED
        BY <1>3, <2>1, <2>2
<1>8. AtStatement(p)' /\ Waits(p)'
    BY <1>2, <1>4, <1>7 DEF AtStatement, Waits, Kept, Settling
<1>9. pc'[p] \notin Fresh
    BY <1>7 DEF Fresh
<1> QED
    BY <1>3, <1>4, <1>7, <1>8, <1>9, ReadStep DEF Kept

\* The bill a settlement of p may settle, as p sees it.
LEMMA SeenBill ==
    ASSUME RowsInv, NEW p \in Procs, Settler(p), NEW h \in Haulers, h = HaulerOf(p),
           Pending(View(p), h), NEW row, row = [View(p)[h] EXCEPT !.status = "settled"]
    PROVE  Pending(db, h) /\ row \in Bill /\ row.total = db[h].total /\ row.status = "settled"
<1>1. Proc(p) /\ Shape(p) /\ RowsHold /\ ~Buyer(p)
    BY ArgOf DEF RowsInv, ProcInv, Proc
<1>2. View(p)[h] = IF h \in DOMAIN mine[p] THEN mine[p][h] ELSE db[h]
    BY ViewOf, Keys
<1>3. Pending(db, h) /\ View(p)[h] \in Bill /\ View(p)[h].total = db[h].total
    <2>1. CASE h \in DOMAIN mine[p]
        BY <1>1, <1>2, <2>1 DEF Proc, Mine, BillMine
    <2>2. CASE h \notin DOMAIN mine[p]
        BY <1>1, <1>2, <2>2 DEF RowsHold, Pending
    <2> QED
        BY <2>1, <2>2
<1> QED
    BY <1>3 DEF Bill

\* settle_via_contract settles the bill; what others are recording or reversing has raced.
LEMMA SettleBillKeeps ==
    ASSUME RowsInv, NEW p \in Procs, SettleBill(p)
    PROVE  RowsInv'
<1>1. Tables /\ Proc(p) /\ Shape(p) /\ RowsHold /\ raced \subseteq Fulfillments /\ ProcInv
    BY DEF RowsInv, ProcInv, Proc, Tables
<1>2. PICK h : h = HaulerOf(p)
    OBVIOUS
<1>3. PICK row : row = [View(p)[h] EXCEPT !.status = "settled"]
    OBVIOUS
<1>4. /\ pc[p] = "bill" /\ Grant(p, h) /\ raced' = raced \cup InFlight(p, h)
      /\ UNCHANGED <<db, arg, seen>>
      /\ \/ /\ Bound(View(p), h, ContractOf(p)) /\ mine' = Put(p, h, row)
            /\ pc' = [pc EXCEPT ![p] = "settled"]
         \/ mine' = mine /\ pc' = [pc EXCEPT ![p] = "commit"]
    BY <1>2, <1>3 DEF SettleBill
<1>5. /\ Op(p) \in {"link", "contract"} /\ ~Buyer(p) /\ Settler(p) /\ h \in Haulers
      /\ pc[p] \notin Fresh
    BY <1>1, <1>2, <1>4, KindAt, ArgOf DEF Buyer, Settler, Fresh
<1>6. raced \subseteq raced' /\ raced' \subseteq Fulfillments
    BY <1>1, <1>4 DEF InFlight
<1>7. /\ DOMAIN mine' = Procs /\ \A q \in Procs \ {p} : mine'[q] = mine[q]
    BY <1>1, <1>4, PutDoes DEF Tables
<1>8. DOMAIN pc' = Procs /\ pc'[p] \in {"settled", "commit"} /\ \A q \in Procs \ {p} : pc'[q] = pc[q]
    BY <1>1, <1>4 DEF Tables
<1>9. Kept(p) /\ lock'[h] = p /\ todo'[p] \in Seq(Rows)
    BY <1>4, <1>5, <1>6, <1>7, <1>8, Granted
<1>10. AtStatement(p)' /\ Waits(p)'
    BY <1>5, <1>8, <1>9 DEF AtStatement, Waits, Kept, Settling
<1>11. pc'[p] \notin Fresh /\ h \notin Items /\ h # List /\ h \in Items \cup Haulers \cup {List}
    BY <1>5, <1>8, Keys DEF Fresh
<1>12. CASE Bound(View(p), h, ContractOf(p)) /\ mine' = Put(p, h, row)
            /\ pc' = [pc EXCEPT ![p] = "settled"]
    <2>1. Pending(db, h) /\ row \in Bill /\ row.total = db[h].total /\ row.status = "settled"
        BY <1>2, <1>3, <1>5, <1>12, SeenBill DEF Bound
    <2>2. mine'[p][h] = row
        BY <1>12, PutDoes
    <2>3. BillMine(p, h)'
        <3>1. ~Buyer(p)' /\ Settler(p)' /\ HaulerOf(p)' = h /\ db' = db
            BY <1>2, <1>5, <1>9 DEF Kept
        <3>2. Pending(db, h)'
            BY <2>1, <3>1 DEF Pending
        <3> QED
            BY <1>9, <2>1, <2>2, <3>1, <3>2 DEF BillMine
    <2>4. \A q \in Procs \ {p} : \A f \in DOMAIN mine[q] \cap Fulfillments :
             Payee(q) = h => f \in raced'
        BY <1>1, <1>4 DEF ProcInv, Proc, Mine, PurchaseMine, InFlight
    <2>5. Puts(p, h, row)
        BY <1>2, <1>5, <1>9, <1>10, <1>11, <1>12, <2>1, <2>3, <2>4 DEF Puts, Kept
    <2> QED
        BY <2>5, PutStep
<1>13. CASE mine' = mine /\ pc' = [pc EXCEPT ![p] = "commit"]
    <2>1. pc'[p] = "commit"
        BY <1>1, <1>13 DEF Tables
    <2> QED
        BY <1>5, <1>9, <1>10, <1>11, <1>13, <2>1, ReadStep DEF Kept
<1> QED
    BY <1>4, <1>12, <1>13

\* settle_reimbursement and settle_manual have the list: nobody else is buying or reversing.
LEMMA SettleByHandKeeps ==
    ASSUME RowsInv, NEW p \in Requests, SettleByHand(p)
    PROVE  RowsInv'
<1>1. p \in Procs /\ p \notin Contracts
    BY Keys DEF Procs
<1>2. Tables /\ Proc(p) /\ Shape(p) /\ RowsHold /\ raced \subseteq Fulfillments /\ ProcInv
    BY <1>1 DEF RowsInv, ProcInv, Proc, Tables
<1>3. PICK h : h = arg[p].hauler
    OBVIOUS
<1>4. PICK row : row = [View(p)[h] EXCEPT !.status = "settled"]
    OBVIOUS
<1>5. /\ pc[p] = "settle" /\ Grant(p, h) /\ Pending(View(p), h) /\ mine' = Put(p, h, row)
      /\ pc' = [pc EXCEPT ![p] = "settled"] /\ UNCHANGED <<db, arg, seen, raced>>
    BY <1>3, <1>4 DEF SettleByHand, MaySettle
<1>6. /\ Op(p) = "settle" /\ ~Buyer(p) /\ Settler(p) /\ h \in Haulers /\ h = HaulerOf(p)
      /\ Serial(p) /\ DOMAIN mine[p] = {}
    BY <1>1, <1>2, <1>3, <1>5, KindAt, ArgOf
    DEF Buyer, Settler, Fresh, ByHandOf, HaulerOf, Serial, Proc, Mine
<1>7. /\ DOMAIN mine' = Procs /\ \A q \in Procs \ {p} : mine'[q] = mine[q]
      /\ mine'[p][h] = row
    BY <1>1, <1>5, PutDoes
<1>8. DOMAIN pc' = Procs /\ pc'[p] = "settled" /\ \A q \in Procs \ {p} : pc'[q] = pc[q]
    BY <1>1, <1>2, <1>5 DEF Tables
<1>9. Kept(p) /\ lock'[h] = p /\ todo'[p] \in Seq(Rows)
    BY <1>1, <1>2, <1>5, <1>7, <1>8, Granted
<1>10. Pending(db, h) /\ row \in Bill /\ row.total = db[h].total /\ row.status = "settled"
    BY <1>1, <1>4, <1>5, <1>6, SeenBill
<1>11. BillMine(p, h)'
    <2>1. ~Buyer(p)' /\ Settler(p)' /\ HaulerOf(p)' = h /\ db' = db
        BY <1>6, <1>9 DEF Kept
    <2>2. Pending(db, h)'
        BY <1>10, <2>1 DEF Pending
    <2> QED
        BY <1>7, <1>9, <1>10, <2>1, <2>2 DEF BillMine
<1>12. \A q \in Procs \ {p} : \A f \in DOMAIN mine[q] \cap Fulfillments : FALSE
    BY <1>2, <1>6 DEF ProcInv, Proc, Holds, Mine, PurchaseMine
<1>13. AtStatement(p)' /\ Waits(p)'
    BY <1>6, <1>8, <1>9 DEF AtStatement, Waits, Kept
<1>14. pc'[p] \notin Fresh /\ h \notin Items /\ h # List /\ h \in Items \cup Haulers \cup {List}
    BY <1>6, <1>8, Keys DEF Fresh
<1>15. Puts(p, h, row)
    BY <1>5, <1>6, <1>8, <1>9, <1>10, <1>11, <1>12, <1>13, <1>14 DEF Puts, Kept
<1> QED
    BY <1>1, <1>15, PutStep

\* The UPDATE of list_items starts: for the items it is to settle the NOT EXISTS holds now.
LEMMA FlipStartKeeps ==
    ASSUME RowsInv, NEW p \in Procs, FlipStart(p)
    PROVE  RowsInv'
<1>1. Tables /\ Proc(p) /\ Shape(p) /\ RowsHold /\ raced \subseteq Fulfillments
    BY DEF RowsInv, ProcInv, Proc, Tables
<1>2. PICK h : h = HaulerOf(p)
    OBVIOUS
<1>3. PICK S : S = {i \in Items : /\ View(p)[i] # None
                                  /\ View(p)[i].status \in Flippable(p)
                                  /\ Covers(View(p), h, i)
                                  /\ \A g \in Haulers \ {h} :
                                        ~(Pending(View(p), g) /\ Covers(View(p), g, i))}
    OBVIOUS
<1>4. pc[p] = "settled" /\ Start(p, "flip", S) /\ UNCHANGED <<db, lock, arg, mine, raced, seen>>
    BY <1>2, <1>3 DEF FlipStart
<1>5. Settler(p) /\ ~Buyer(p) /\ Op(p) # "record" /\ Op(p) # "reverse" /\ h \in Haulers
      /\ pc[p] \notin Fresh
    BY <1>1, <1>2, <1>4, KindAt, ArgOf DEF Fresh, Buyer
<1>6. S \in SUBSET Rows /\ IsFiniteSet(S)
    <2>1. S \in SUBSET Items
        BY <1>3
    <2> QED
        BY <2>1, KeysAssumption, FS_Subset, Keys
<1>7. DOMAIN seen' = Procs /\ \A q \in Procs \ {p} : seen'[q] = seen[q]
    BY <1>1, <1>4 DEF Tables
<1>8. Kept(p) /\ pc'[p] = "flip" /\ Left(p)' \subseteq S /\ todo'[p] \in Seq(Rows)
    BY <1>4, <1>6, <1>7, Begun
<1>9. ASSUME NEW i \in S PROVE i \in Items /\ MayFlip(p, i)
    <2>1. /\ i \in Items /\ View(p)[i] # None /\ View(p)[i].status \in {"bought", "delivered"}
          /\ \A g \in Haulers \ {h} : ~(Pending(View(p), g) /\ Covers(View(p), g, i))
        BY <1>3 DEF Flippable
    <2>2. CASE i \in DOMAIN mine[p]
        BY <1>1, <1>5, <2>1, <2>2 DEF Proc, Mine, ItemMine
    <2>3. CASE i \notin DOMAIN mine[p]
        <3>1. Sound(View(p), i, View(p)[i]) /\ db[i] # None /\ View(p)[i] = db[i]
            BY <1>1, <1>5, <2>1, <2>3, SeenItem
        <3>2. db[i].filled = Qty[i]
            <4>1. db[i].filled \in Int /\ Qty[i] \in Int
                BY <2>1, <3>1, RowsAssumption DEF Sound, ItemRow
            <4> QED
                BY <2>1, <3>1, <4>1 DEF Sound
        <3>3. ASSUME NEW g \in Haulers \ {h} PROVE ~(Pending(db, g) /\ Covers(db, g, i))
            <4>1. g \notin DOMAIN mine[p]
                BY <1>1, <1>2, <1>5 DEF Proc, Mine, BillMine
            <4>2. View(p)[g] = db[g]
                BY <4>1, ViewOf, Keys
            <4>3. \A f \in Fulfillments : View(p)[f] = db[f]
                BY <1>1, <1>5, SeesCommitted DEF Proc
            <4>4. Covers(View(p), g, i) <=> Covers(db, g, i)
                BY <4>3, SamePurchases
            <4> QED
                BY <2>1, <4>2, <4>4 DEF Pending
        <3> QED
            BY <1>2, <2>1, <3>1, <3>2, <3>3 DEF MayFlip
    <2> QED
        BY <2>1, <2>2, <2>3
<1>10. \A i \in Left(p)' : i \in Items /\ MayFlip(p, i)'
    <2> TAKE i \in Left(p)'
    <2>1. i \in Items /\ MayFlip(p, i)
        BY <1>8, <1>9
    <2>2. HaulerOf(p)' = h /\ Quiet /\ raced \subseteq raced'
        BY <1>2, <1>4, <1>8 DEF Kept, GoesOn
    <2> QED
        BY <1>1, <1>2, <2>1, <2>2, FlipKept
<1>11. AtStatement(p)' /\ Waits(p)'
    BY <1>5, <1>8, <1>10 DEF AtStatement, Waits, Kept, Settling, Settler, Buyer
<1>12. pc'[p] \notin Fresh
    BY <1>8 DEF Fresh
<1> QED
    BY <1>4, <1>5, <1>8, <1>11, <1>12, ReadStep DEF Kept

\* The UPDATE settles an item: only the status of its row is tested again.
LEMMA FlipItemKeeps ==
    ASSUME RowsInv, NEW p \in Procs, FlipItem(p)
    PROVE  RowsInv'
<1>1. Tables /\ Proc(p) /\ Shape(p) /\ RowsHold /\ raced \subseteq Fulfillments
    BY DEF RowsInv, ProcInv, Proc, Tables
<1>2. PICK i : i = Head(todo[p])
    OBVIOUS
<1>3. PICK row : row = [View(p)[i] EXCEPT !.status = "settled"]
    OBVIOUS
<1>4. /\ pc[p] = "flip" /\ Grant(p, i) /\ UNCHANGED <<db, pc, arg, seen, raced>>
      /\ \/ View(p)[i].status \in Flippable(p) /\ mine' = Put(p, i, row)
         \/ mine' = mine
    BY <1>2, <1>3 DEF FlipItem
<1>5. Settler(p) /\ ~Buyer(p) /\ Op(p) # "record" /\ Op(p) # "reverse" /\ HaulerOf(p) \in Haulers
      /\ pc[p] \notin Fresh /\ HaulerOf(p) \in DOMAIN mine[p]
      /\ mine[p][HaulerOf(p)].status = "settled"
    BY <1>1, <1>4, KindAt, ArgOf DEF Fresh, Buyer, Proc, Mine
<1>6. DOMAIN mine' = Procs /\ \A q \in Procs \ {p} : mine'[q] = mine[q]
    BY <1>1, <1>4, PutDoes DEF Tables
<1>7. Kept(p) /\ lock'[i] = p /\ i \in Left(p) /\ todo'[p] \in Seq(Rows) /\ Left(p)' \subseteq Left(p)
    <2>1. DOMAIN pc' = Procs /\ pc'[p] = "flip" /\ \A q \in Procs \ {p} : pc'[q] = pc[q]
        BY <1>1, <1>4 DEF Tables
    <2> QED
        BY <1>1, <1>4, <1>6, <2>1, Granted
<1>8. ASSUME NEW x \in Left(p) PROVE x \in Items /\ MayFlip(p, x) /\ MayFlip(p, x)'
    <2>1. x \in Items /\ MayFlip(p, x)
        BY <1>1, <1>4 DEF Proc, Waits
    <2>2. HaulerOf(p)' = HaulerOf(p) /\ Quiet /\ raced \subseteq raced'
        BY <1>4, <1>7 DEF Kept, GoesOn
    <2> QED
        BY <1>1, <2>1, <2>2, FlipKept
<1>9. AtStatement(p)' /\ Waits(p)'
    BY <1>4, <1>5, <1>7, <1>8 DEF AtStatement, Waits, Kept, Settling, Settler, Buyer
<1>10. pc'[p] \notin Fresh /\ i \in Items /\ i \notin Haulers /\ i # List
       /\ i \in Items \cup Haulers \cup {List} /\ i # HaulerOf(p) /\ db[i] # None
    BY <1>4, <1>5, <1>7, <1>8, Keys DEF MayFlip
<1>11. CASE View(p)[i].status \in Flippable(p) /\ mine' = Put(p, i, row)
    <2>1. View(p)[i].status \in {"bought", "delivered"}
        BY <1>11 DEF Flippable
    <2>2. View(p)[i] # None
        BY <1>1, <1>10, ViewOf, WrittenRows, Keys
    <2>3. Sound(View(p), i, View(p)[i]) /\ (i \notin DOMAIN mine[p] => View(p)[i] = db[i])
        BY <1>1, <1>5, <1>10, <2>2, SeenItem
    <2>4. View(p)[i].filled = db[i].filled
        <3>1. CASE i \in DOMAIN mine[p]
            <4>1. ItemMine(p, i) /\ View(p)[i] = mine[p][i]
                BY <1>1, <1>10, <3>1, ViewOf, Keys DEF Proc, Mine
            <4> QED
                BY <1>5, <1>10, <4>1 DEF ItemMine
        <3> QED
            BY <2>3, <3>1
    <2>5. Sound(View(p), i, row) /\ row.status = "settled" /\ row.filled = db[i].filled
        BY <1>3, <1>10, <2>1, <2>3, <2>4, RowsAssumption DEF Sound, ItemRow
    <2>6. /\ DOMAIN mine'[p] = DOMAIN mine[p] \cup {i} /\ mine'[p][i] = row
          /\ \A x \in DOMAIN mine[p] \ {i} : mine'[p][x] = mine[p][x]
        BY <1>11, PutDoes
    <2>7. ItemMine(p, i)'
        <3>1. \A f \in Fulfillments : View(p)'[f] = View(p)[f]
            BY <1>4, <1>10, <2>6, Keys DEF View
        <3>2. Units(View(p)', i) = Units(View(p), i)
            BY <3>1, SamePurchases
        <3>3. Sound(View(p)', i, mine'[p][i])
            BY <2>5, <2>6, <3>2 DEF Sound
        <3>4. ~Buyer(p)' /\ Settler(p)' /\ HaulerOf(p)' = HaulerOf(p) /\ db' = db /\ Op(p)' # "record"
            BY <1>5, <1>7 DEF Kept
        <3>5. HaulerOf(p) \in DOMAIN mine'[p] /\ mine'[p][HaulerOf(p)].status = "settled"
            BY <1>5, <1>10, <2>6
        <3>6. MayFlip(p, i)'
            BY <1>7, <1>8
        <3> QED
            BY <1>7, <1>10, <2>5, <2>6, <3>3, <3>4, <3>5, <3>6 DEF ItemMine
    <2>8. Puts(p, i, row)
        BY <1>4, <1>5, <1>7, <1>9, <1>10, <1>11, <2>7 DEF Puts, Kept
    <2> QED
        BY <2>8, PutStep
<1>12. CASE mine' = mine
    BY <1>4, <1>5, <1>7, <1>9, <1>10, <1>12, ReadStep DEF Kept
<1> QED
    BY <1>4, <1>11, <1>12

\* auto_close_list_if_complete tests the items.
LEMMA CloseStartKeeps ==
    ASSUME RowsInv, NEW p \in Procs, CloseStart(p)
    PROVE  RowsInv'
<1>1. Tables /\ Proc(p) /\ Shape(p)
    BY DEF RowsInv, ProcInv, Proc
<1>2. /\ pc[p] = "flip" /\ UNCHANGED <<db, lock, arg, mine, raced, seen>>
      /\ Start(p, "close", {List}) \/ Start(p, "commit", {})
    BY DEF CloseStart
<1>3. Settler(p) /\ ~Buyer(p) /\ Op(p) # "reverse" /\ pc[p] \notin Fresh
    BY <1>1, <1>2, KindAt, ArgOf DEF Fresh, Buyer
<1>4. {List} \in SUBSET Rows /\ IsFiniteSet({List}) /\ {} \in SUBSET Rows /\ IsFiniteSet({})
    BY Keys, FS_Singleton, FS_EmptySet
<1>5. DOMAIN seen' = Procs /\ \A q \in Procs \ {p} : seen'[q] = seen[q]
    BY <1>1, <1>2 DEF Tables
<1>6. Kept(p) /\ todo'[p] \in Seq(Rows) /\ pc'[p] \in {"close", "commit"}
    <2>1. CASE Start(p, "close", {List})
        <3>1. Kept(p) /\ pc'[p] = "close" /\ todo'[p] \in Seq(Rows)
            BY <1>2, <1>4, <1>5, <2>1, Begun
        <3> QED
            BY <3>1
    <2>2. CASE Start(p, "commit", {})
        <3>1. Kept(p) /\ pc'[p] = "commit" /\ todo'[p] \in Seq(Rows)
            BY <1>2, <1>4, <1>5, <2>2, Begun
        <3> QED
            BY <3>1
    <2> QED
        BY <1>2, <2>1, <2>2
<1>7. AtStatement(p)' /\ Waits(p)'
    BY <1>3, <1>6 DEF AtStatement, Waits, Kept, Settling, Settler, Buyer
<1>8. pc'[p] \notin Fresh
    BY <1>6 DEF Fresh
<1> QED
    BY <1>2, <1>3, <1>6, <1>7, <1>8, ReadStep DEF Kept

\* auto_close_list_if_complete closes the list.
LEMMA CloseListKeeps ==
    ASSUME RowsInv, NEW p \in Procs, CloseList(p)
    PROVE  RowsInv'
<1>1. Tables /\ Proc(p) /\ Shape(p) /\ raced \subseteq Fulfillments
    BY DEF RowsInv, ProcInv, Proc, Tables
<1>2. /\ pc[p] = "close" /\ Grant(p, List) /\ mine' = Put(p, List, "closed")
      /\ pc' = [pc EXCEPT ![p] = "commit"] /\ UNCHANGED <<db, arg, seen, raced>>
    BY DEF CloseList
<1>3. Settler(p) /\ ~Buyer(p) /\ Op(p) # "reverse" /\ HaulerOf(p) # List
    BY <1>1, <1>2, KindAt, ArgOf, Keys DEF Buyer
<1>4. DOMAIN mine' = Procs /\ \A q \in Procs \ {p} : mine'[q] = mine[q]
    BY <1>2, PutDoes
<1>5. DOMAIN pc' = Procs /\ pc'[p] = "commit" /\ \A q \in Procs \ {p} : pc'[q] = pc[q]
    BY <1>1, <1>2 DEF Tables
<1>6. Kept(p) /\ lock'[List] = p /\ todo'[p] \in Seq(Rows)
    BY <1>1, <1>2, <1>4, <1>5, Granted
<1>7. AtStatement(p)' /\ Waits(p)'
    BY <1>3, <1>5, <1>6 DEF AtStatement, Waits, Kept, Settling, Settler, Buyer
<1>8. pc'[p] \notin Fresh /\ List \notin Items /\ List \notin Haulers
    BY <1>5, Keys DEF Fresh
<1>9. Puts(p, List, "closed")
    BY <1>2, <1>3, <1>5, <1>6, <1>7, <1>8 DEF Puts, Kept
<1> QED
    BY <1>9, PutStep

\* The poll finds that a contract is finished.
LEMMA FinishContractKeeps ==
    ASSUME RowsInv, NEW c \in Contracts, FinishContract(c)
    PROVE  RowsInv'
<1>1. c \in Procs
    BY DEF Procs
<1>2. Tables /\ Proc(c) /\ Shape(c)
    BY <1>1 DEF RowsInv, ProcInv, Proc
<1>3. /\ pc[c] = "idle" /\ db' = [db EXCEPT ![c] = "finished"] /\ pc' = [pc EXCEPT ![c] = "found"]
      /\ UNCHANGED <<lock, arg, mine, seen, todo, raced>>
    BY DEF FinishContract
<1>4. DOMAIN pc' = Procs /\ pc'[c] = "found" /\ \A q \in Procs \ {c} : pc'[q] = pc[q]
    BY <1>1, <1>2, <1>3 DEF Tables
<1>5. Local(c) /\ Quiet /\ Tables'
    BY <1>2, <1>3, <1>4 DEF Local, Quiet, Tables
<1>6. Op(c)' = "contract" /\ DOMAIN mine'[c] = {} /\ c \notin Requests
    BY <1>2, <1>3, Keys DEF Op, Proc, Mine, Fresh
<1>7. Shape(c)' /\ Holds(c)'
    BY <1>2, <1>3, <1>4, <1>6 DEF Shape, AtStatement, Holds, Serial
<1>8. Waits(c)'
    BY <1>2, <1>3, <1>4, <1>6 DEF Proc, Waits
<1>9. Mine(c)'
    BY <1>4, <1>6 DEF Mine
<1>10. RaceSeen'
    BY <1>1, <1>5, <1>6, RaceKept
<1> QED
    BY <1>1, <1>5, <1>7, <1>8, <1>9, <1>10, QuietStep DEF Proc

\* handle_contract_terminal starts.
LEMMA TerminalStartKeeps ==
    ASSUME RowsInv, NEW c \in Contracts, TerminalStart(c)
    PROVE  RowsInv'
<1>1. c \in Procs /\ c \notin Requests
    BY Keys DEF Procs
<1>2. Tables /\ Proc(c) /\ Shape(c)
    BY <1>1 DEF RowsInv, ProcInv, Proc
<1>3. pc[c] = "found" /\ Start(c, "contract", {c}) /\ UNCHANGED <<db, lock, arg, mine, raced, seen>>
    BY DEF TerminalStart
<1>4. Op(c) = "contract" /\ DOMAIN mine[c] = {} /\ ~Buyer(c)
    BY <1>2, <1>3 DEF Op, Proc, Mine, Fresh, Buyer
<1>5. {c} \in SUBSET Rows /\ IsFiniteSet({c})
    BY Keys, FS_Singleton
<1>6. DOMAIN seen' = Procs /\ \A q \in Procs \ {c} : seen'[q] = seen[q]
    BY <1>2, <1>3 DEF Tables
<1>7. Kept(c) /\ pc'[c] = "contract" /\ todo'[c] \in Seq(Rows)
    BY <1>1, <1>3, <1>5, <1>6, Begun
<1>8. AtStatement(c)' /\ Waits(c)'
    BY <1>4, <1>7 DEF AtStatement, Waits, Kept
<1> QED
    BY <1>1, <1>3, <1>4, <1>7, <1>8, ReadStep DEF Kept

\* handle_contract_terminal locks the row of the contract.
LEMMA LockContractKeeps ==
    ASSUME RowsInv, NEW c \in Contracts, LockContract(c)
    PROVE  RowsInv'
<1>1. c \in Procs /\ c \notin Requests
    BY Keys DEF Procs
<1>2. Tables /\ Proc(c) /\ Shape(c) /\ raced \subseteq Fulfillments
    BY <1>1 DEF RowsInv, ProcInv, Proc, Tables
<1>3. /\ pc[c] = "contract" /\ Grant(c, c) /\ pc' = [pc EXCEPT ![c] = "bills"]
      /\ UNCHANGED <<db, arg, mine, seen, raced>>
    BY DEF LockContract
<1>4. Op(c) = "contract" /\ ~Buyer(c)
    BY DEF Op, Buyer
<1>5. DOMAIN mine' = Procs /\ DOMAIN pc' = Procs /\ pc'[c] = "bills"
      /\ \A q \in Procs \ {c} : pc'[q] = pc[q]
    BY <1>1, <1>2, <1>3 DEF Tables
<1>6. Kept(c) /\ todo'[c] \in Seq(Rows)
    BY <1>1, <1>2, <1>3, <1>5, Granted
<1>7. AtStatement(c)' /\ Waits(c)' /\ pc'[c] \notin Fresh
    BY <1>4, <1>5, <1>6 DEF AtStatement, Waits, Kept, Settling, Fresh
<1> QED
    BY <1>1, <1>3, <1>4, <1>5, <1>6, <1>7, ReadStep DEF Kept

\* What the end of a transaction does to the others.
LEMMA FinishDoes ==
    ASSUME Tables, NEW p \in Procs, Finish(p), raced' = raced, DOMAIN db' = Rows
    PROVE  Local(p) /\ Tables' /\ DOMAIN mine'[p] = {}
<1>1. Local(p)
    BY Keys DEF Finish, Local, Tables
<1>2. DOMAIN mine'[p] = {}
    BY DEF Finish, Tables, Nothing
<1>3. lock' \in [Rows -> Procs \cup {None}]
    BY DEF Finish, Tables
<1> QED
    BY <1>1, <1>2, <1>3 DEF Finish, Tables

\* A rollback, by an error response or to end a deadlock.
LEMMA RejectKeeps ==
    ASSUME RowsInv, NEW p \in Procs, Reject(p)
    PROVE  RowsInv'
<1>1. Tables /\ Finish(p) /\ db' = db /\ raced' = raced
    BY DEF RowsInv, Reject
<1>2. Local(p) /\ Tables' /\ DOMAIN mine'[p] = {}
    <2>1. DOMAIN db' = Rows
        BY <1>1 DEF Tables
    <2> QED
        BY <1>1, <2>1, FinishDoes
<1>3. Quiet
    BY <1>1 DEF Quiet
<1>4. Proc(p)'
    BY <1>1, Ended
<1>5. RaceSeen'
    BY <1>2, <1>3, RaceKept
<1> QED
    BY <1>2, <1>3, <1>4, <1>5, QuietStep

\* COMMIT.
LEMMA CommitKeeps ==
    ASSUME RowsInv, NEW p \in Procs, Commit(p)
    PROVE  RowsInv'
<1>1. Tables /\ Finish(p) /\ db' = View(p) /\ raced' = raced
    BY DEF RowsInv, Commit
<1>2. Tables'
    <2>1. DOMAIN db' = Rows
        BY <1>1 DEF View
    <2> QED
        BY <1>1, <2>1, FinishDoes
<1>3. ProcInv'
    <2>1. Proc(p)'
        BY <1>1, Ended
    <2>2. \A q \in Procs \ {p} : Proc(q)'
        BY OthersAfterCommit
    <2> QED
        BY <2>1, <2>2 DEF ProcInv
<1> QED
    BY <1>2, <1>3, CommitRaces, CommitRows, CommitSums, CommitSettles DEF RowsInv

-----------------------------------------------------------------------------
(* The theorems.                                                           *)

\* The list starts with its first items open and nothing bought.
LEMMA RowsBegin ==
    ASSUME RowsInit
    PROVE  RowsInv
<1>1. /\ \A r \in Rows : lock[r] = None
      /\ \A p \in Procs : /\ pc[p] = "idle" /\ arg[p] = None /\ DOMAIN mine[p] = {}
                          /\ todo[p] = <<>>
      /\ raced = {}
    BY DEF RowsInit, Nothing
<1>2. Tables
    BY DEF RowsInit, Tables
<1>3. /\ db[List] = "open"
      /\ \A i \in Items : db[i] # None => db[i] = [status |-> "open", filled |-> 0]
      /\ \A h \in Haulers : db[h] = None
      /\ \A f \in Fulfillments : db[f] = None
    <2>1. Initial \subseteq Items
        BY RowsAssumption
    <2>2. \A r \in Rows : db[r] = CASE r = List -> "open"
                                 [] r \in Initial -> [status |-> "open", filled |-> 0]
                                 [] r \in Contracts -> "outstanding"
                                 [] OTHER -> None
        BY DEF RowsInit
    <2>3. db[List] = "open"
        BY <2>1, <2>2, Keys
    <2>4. ASSUME NEW i \in Items, db[i] # None PROVE db[i] = [status |-> "open", filled |-> 0]
        <3>1. i \in Rows /\ i # List /\ i \notin Contracts
            BY Keys
        <3> QED
            BY <2>2, <2>4, <3>1
    <2>5. \A r \in Haulers \cup Fulfillments :
             r \in Rows /\ r # List /\ r \notin Initial /\ r \notin Contracts
        BY <2>1, Keys
    <2>6. \A r \in Haulers \cup Fulfillments : db[r] = None
        BY <2>2, <2>5
    <2>7. \A i \in Items : db[i] # None => db[i] = [status |-> "open", filled |-> 0]
        BY <2>4
    <2> QED
        BY <2>3, <2>6, <2>7
<1>4. ProcInv
    <2> SUFFICES ASSUME NEW p \in Procs PROVE Proc(p)
        BY DEF ProcInv
    <2>1. Op(p) = IF p \in Contracts THEN "contract" ELSE "none"
        BY <1>1 DEF Op
    <2>2. p \in Contracts => p \notin Requests
        BY Keys
    <2>3. Shape(p)
        BY <1>1, <2>1, <2>2 DEF Shape, AtStatement
    <2>4. Holds(p)
        BY <1>1, <2>1, Keys DEF Holds, Serial
    <2>5. Waits(p)
        <3>1. pc[p] = "idle" /\ todo[p] = <<>>
            BY <1>1
        <3>2. <<>> \in Seq(Rows)
            OBVIOUS
        <3> QED
            BY <3>1, <3>2 DEF Waits
    <2>6. Mine(p)
        BY <1>1, <2>1 DEF Mine
    <2> QED
        BY <2>3, <2>4, <2>5, <2>6 DEF Proc
<1>5. RaceSeen
    BY <1>1 DEF RaceSeen
<1>6. RowsHold
    <2>1. ASSUME NEW i \in Items, db[i] # None PROVE Sound(db, i, db[i])
        <3>1. db[i] = [status |-> "open", filled |-> 0]
            BY <1>3, <2>1
        <3>2. {f \in Fulfillments : Live(db, f) /\ db[f].item = i} = {}
            BY <1>3 DEF Live
        <3>3. Units(db, i) = 0
            BY <3>2, FS_EmptySet DEF Units
        <3>4. Cardinality(Fulfillments) \in Nat /\ Qty[i] \in Nat
            BY UnitsType, RowsAssumption
        <3>5. db[i] \in ItemRow /\ db[i].filled = 0 /\ db[i].status = "open"
            BY <3>1, <3>4 DEF ItemRow
        <3> QED
            BY <3>3, <3>4, <3>5 DEF Sound
    <2> QED
        BY <1>3, <2>1 DEF RowsHold
<1>7. PendingIsExact /\ MissedOnlyInRace /\ SettledUnpaidInRace
    BY <1>3 DEF PendingIsExact, MissedOnlyInRace, SettledUnpaidInRace, Pending
<1> QED
    BY <1>2, <1>4, <1>5, <1>6, <1>7 DEF RowsInv

\* One statement of any transaction keeps the invariant.
LEMMA StatementKeeps ==
    ASSUME RowsInv, RowsNext
    PROVE  RowsInv'
<1>1. ASSUME NEW p \in Requests, RequestStep(p) PROVE RowsInv'
    <2>1. p \in Procs
        BY DEF Procs
    <2> QED
        BY <1>1, <2>1, NewRequestKeeps, LockListKeeps, RecordKeeps, ReverseKeeps, RereadKeeps,
           RewriteKeeps, UpsertStartKeeps, UpsertKeeps, DeliverKeeps, AddKeeps, LockLinkKeeps,
           LinkKeeps, SettleByHandKeeps, RejectKeeps DEF RequestStep, RejectRequest
<1>2. ASSUME NEW c \in Contracts, FinishContract(c) \/ TerminalStart(c) \/ LockContract(c)
      PROVE  RowsInv'
    BY <1>2, FinishContractKeeps, TerminalStartKeeps, LockContractKeeps
<1>3. ASSUME NEW p \in Procs, SettlementStep(p) \/ Commit(p) \/ DeadlockVictim(p)
      PROVE  RowsInv'
    BY <1>3, BillsStartKeeps, SettleBillKeeps, FlipStartKeeps, FlipItemKeeps, CloseStartKeeps,
       CloseListKeeps, CommitKeeps, RejectKeeps DEF SettlementStep, DeadlockVictim
<1> QED
    BY <1>1, <1>2, <1>3 DEF RowsNext

\* The invariant speaks of the variables only.
LEMMA NothingMoves ==
    ASSUME RowsInv, UNCHANGED vars
    PROVE  RowsInv'
<1>1. /\ db' = db /\ lock' = lock /\ pc' = pc /\ arg' = arg /\ mine' = mine
      /\ seen' = seen /\ todo' = todo /\ raced' = raced
    BY DEF vars
<1>2. Tables' /\ RowsHold'
    BY <1>1 DEF RowsInv, Tables, RowsHold, Sound, Units, Live
<1>3. PendingIsExact' /\ MissedOnlyInRace' /\ SettledUnpaidInRace'
    BY <1>1
    DEF RowsInv, PendingIsExact, MissedOnlyInRace, SettledUnpaidInRace, Pending, Bought, Covers,
        Live
<1>4. ASSUME NEW p \in Procs
      PROVE  /\ Op(p)' = Op(p) /\ HaulerOf(p)' = HaulerOf(p) /\ Left(p)' = Left(p)
             /\ Payee(p)' = Payee(p) /\ ItemOf(p)' = ItemOf(p) /\ View(p)' = View(p)
             /\ Buyer(p)' = Buyer(p) /\ Settler(p)' = Settler(p) /\ Serial(p)' = Serial(p)
             /\ \A i : MayFlip(p, i)' <=> MayFlip(p, i)
    BY <1>1
    DEF Op, HaulerOf, Left, Payee, ItemOf, View, Buyer, Settler, Serial, MayFlip, Tainted, Pending,
        Covers, Bought, Live
<1>5. RaceSeen'
    BY <1>1, <1>4 DEF RowsInv, RaceSeen
<1>6. ProcInv'
    <2> SUFFICES ASSUME NEW p \in Procs PROVE Proc(p)'
        BY DEF ProcInv
    <2>1. Shape(p) /\ Holds(p) /\ Waits(p) /\ Mine(p)
        BY DEF RowsInv, ProcInv, Proc
    <2>2. Shape(p)' /\ Holds(p)'
        BY <1>1, <1>4, <2>1 DEF Shape, AtStatement, Holds
    <2>3. Waits(p)'
        BY <1>1, <1>4, <2>1 DEF Waits, Sound, Bought, Units, Live
    <2>4. Mine(p)'
        <3>1. \A f \in DOMAIN mine'[p] \cap Fulfillments : PurchaseMine(p, f)'
            BY <1>1, <1>4, <2>1 DEF Mine, PurchaseMine
        <3>2. \A i \in DOMAIN mine'[p] \cap Items : ItemMine(p, i)'
            BY <1>1, <1>4, <2>1 DEF Mine, ItemMine, Sound, Units, Live
        <3>3. \A h \in DOMAIN mine'[p] \cap Haulers : BillMine(p, h)'
            BY <1>1, <1>4, <2>1 DEF Mine, BillMine, Pending, Bought, Live
        <3> QED
            BY <1>1, <1>4, <2>1, <3>1, <3>2, <3>3 DEF Mine
    <2> QED
        BY <2>2, <2>3, <2>4 DEF Proc
<1> QED
    BY <1>2, <1>3, <1>5, <1>6 DEF RowsInv

\* The inductive invariant holds of every interleaving of the statements of
\* record_fulfillment, reverse_fulfillment, settle_reimbursement, do_confirm,
\* do_manual_link and settle_via_contract.
THEOREM RowsInvariant == RowsSpec => []RowsInv
<1>1. RowsInit => RowsInv
    BY RowsBegin
<1>2. RowsInv /\ [RowsNext]_vars => RowsInv'
    <2> SUFFICES ASSUME RowsInv, [RowsNext]_vars PROVE RowsInv'
        OBVIOUS
    <2>1. CASE RowsNext
        BY <2>1, StatementKeeps
    <2>2. CASE UNCHANGED vars
        BY <2>2, NothingMoves
    <2> QED
        BY <2>1, <2>2
<1> QED
    BY <1>1, <1>2, PTL DEF RowsSpec

\* The tables hold what their columns allow, record_fulfillment never buys more of an item
\* than was requested, and no row is written by two transactions at a time.
THEOREM RowsTypeCorrect == RowsSpec => []RowsTypeOK
<1>1. RowsInv => RowsTypeOK
    <2> SUFFICES ASSUME RowsInv PROVE RowsTypeOK
        OBVIOUS
    <2>1. RowsHold /\ ProcInv
        BY DEF RowsInv
    <2>2. \A p, q \in Procs : p # q => DOMAIN mine[p] \cap DOMAIN mine[q] = {}
        BY <2>1, OneWriter
    <2>3. \A i \in Items : db[i] # None => db[i] \in ItemRow /\ db[i].filled <= Qty[i]
        BY <2>1 DEF RowsHold, Sound
    <2> QED
        BY <2>1, <2>2, <2>3 DEF RowsTypeOK, RowsHold
<1> QED
    BY <1>1, RowsInvariant, PTL

\* upsert_reimbursement never leaves a stale sum behind, however the purchases and reversals
\* of a hauler interleave with the settlement of his bill.
THEOREM PendingSumsAreExact == RowsSpec => []PendingIsExact
<1>1. RowsInv => PendingIsExact
    BY DEF RowsInv
<1> QED
    BY <1>1, RowsInvariant, PTL

\* A purchase is left out of a settled reimbursement, or reversed after it, only when its
\* request overlapped the settlement: the price of the tests that record_fulfillment and
\* reverse_fulfillment make without a lock.
THEOREM OnlyRacesAreMissed == RowsSpec => []MissedOnlyInRace
<1>1. RowsInv => MissedOnlyInRace
    BY DEF RowsInv
<1> QED
    BY <1>1, RowsInvariant, PTL

\* The UPDATE of list_items settles an item that somebody is still owed for only after a
\* purchase of the item was reversed while its bill was being settled.
THEOREM UnpaidOnlyAfterRace == RowsSpec => []SettledUnpaidInRace
<1>1. RowsInv => SettledUnpaidInRace
    BY DEF RowsInv
<1> QED
    BY <1>1, RowsInvariant, PTL

\* Requests take the lock of the list first, so a circle of waiting requests has one that
\* links a contract, which does not.
THEOREM DeadlocksNeedContracts == RowsSpec => []DeadlockNeedsContract
<1>1. RowsInv => DeadlockNeedsContract
    <2> SUFFICES ASSUME RowsInv, NEW S \in SUBSET Requests, Cycle(S),
                        \A p \in S : arg[p].op # "link"
                 PROVE  FALSE
        BY DEF DeadlockNeedsContract
    <2>1. ASSUME NEW p \in S, NEW q \in S, WaitsFor(p, q) PROVE lock[List] = q
        <3>1. p \in Procs /\ q \in Procs /\ q \notin Contracts
            BY Keys DEF Procs
        <3>2. Proc(p) /\ Proc(q) /\ Shape(q)
            BY <3>1 DEF RowsInv, ProcInv, Proc
        <3>3. todo[p] # <<>> /\ todo[p] \in Seq(Rows) /\ lock[Head(todo[p])] = q
            BY <2>1, <3>2 DEF WaitsFor, Proc, Waits
        <3>4. Head(todo[p]) \in Rows
            BY <3>3, RestOfRows
        <3>5. Op(q) # "link"
            BY <3>1 DEF Op
        <3>6. pc[q] \notin {"idle", "first"}
            BY <3>2, <3>3, <3>4, <3>5 DEF Proc, Holds
        <3>7. Serial(q)
            BY <3>1, <3>2, <3>5, <3>6, ArgOf DEF Serial
        <3> QED
            BY <3>2, <3>7 DEF Proc, Holds
    <2>2. PICK p \in S : TRUE
        BY DEF Cycle
    <2>3. PICK q \in S : WaitsFor(p, q)
        BY DEF Cycle
    <2>4. PICK r \in S : WaitsFor(q, r)
        BY DEF Cycle
    <2>5. q # r
        BY <2>4 DEF WaitsFor
    <2> QED
        BY <2>1, <2>3, <2>4, <2>5
<1> QED
    BY <1>1, RowsInvariant, PTL

\* Nothing but a COMMIT, and the poll of a contract's status, changes a committed row.
LEMMA OnlyCommits ==
    ASSUME Tables, RowsNext
    PROVE  Quiet \/ \E p \in Procs : Commit(p)
<1>1. ASSUME NEW p \in Requests, RequestStep(p) PROVE db' = db
    <2>1. NewRequest(p) => db' = db
        BY DEF NewRequest, Request
    <2>2. LockList(p) \/ RecordFulfillment(p) \/ ReverseFulfillment(p) => db' = db
        BY DEF LockList, RecordFulfillment, ReverseFulfillment
    <2>3. RereadItem(p) \/ RewriteItem(p) \/ UpsertStart(p) \/ Upsert(p) => db' = db
        BY DEF RereadItem, RewriteItem, UpsertStart, Upsert
    <2>4. MarkDelivered(p) \/ AddItem(p) \/ LockLinkRow(p) \/ Link(p) => db' = db
        BY DEF MarkDelivered, AddItem, LockLinkRow, Link
    <2>5. SettleByHand(p) \/ RejectRequest(p) => db' = db
        BY DEF SettleByHand, RejectRequest, Reject
    <2> QED
        BY <1>1, <2>1, <2>2, <2>3, <2>4, <2>5 DEF RequestStep
<1>2. ASSUME NEW c \in Contracts, FinishContract(c) \/ TerminalStart(c) \/ LockContract(c)
      PROVE  Quiet
    BY <1>2 DEF FinishContract, TerminalStart, LockContract, Quiet, Tables
<1>3. ASSUME NEW p \in Procs, SettlementStep(p) \/ DeadlockVictim(p) PROVE db' = db
    BY <1>3
    DEF SettlementStep, BillsStart, SettleBill, FlipStart, FlipItem, CloseStart, CloseList,
        DeadlockVictim, Reject
<1> QED
    <2>1. db' = db => Quiet
        BY DEF Quiet
    <2> QED
        BY <1>1, <1>2, <1>3, <2>1 DEF RowsNext

\* A settled reimbursement is final: no request that computed a sum before the settlement
\* writes it afterwards, because upsert_reimbursement tests the row that it waited for.
THEOREM SettledBillsAreFrozen == RowsSpec => BillFrozen
<1>1. RowsInv /\ [RowsNext]_vars =>
         [\A h \in Haulers : db[h] # None /\ db[h].status = "settled" => db'[h] = db[h]]_vars
    <2> SUFFICES ASSUME RowsInv, RowsNext, NEW h \in Haulers,
                        db[h] # None, db[h].status = "settled"
                 PROVE  db'[h] = db[h]
        OBVIOUS
    <2>1. CASE Quiet
        BY <2>1, Keys DEF Quiet
    <2>2. ASSUME NEW p \in Procs, Commit(p) PROVE db'[h] = db[h]
        BY <2>2, CommitKeepsRows
    <2> QED
        BY <2>1, <2>2, OnlyCommits DEF RowsInv
<1> QED
    BY <1>1, RowsInvariant, PTL DEF RowsSpec, BillFrozen

=============================================================================
