-------------------------- MODULE CorpWalletProofs --------------------------
(* Proofs about CorpWallet, for any corporations, ambassadors, contracts and *)
(* journals.                                                                 *)
EXTENDS CorpWallet, FiniteSetTheorems, SequenceTheorems, TLAPS

-----------------------------------------------------------------------------
(* The invariant, by parts.                                                  *)

ContractRow == [known : BOOLEAN, source : Corps \cup {None}, payout : Nat]
PollRow == [todo : Seq(Ambassadors), div : Nat, fresh : SUBSET Contracts]

(* The journal, the contracts and the reimbursements bound to them. *)
WalletTables ==
    /\ posted \subseteq Entries /\ journal \subseteq posted
    /\ contracts \in [Contracts -> ContractRow]
    /\ bound \in [Reimbursements -> Contracts \cup {None}]
    /\ verified \subseteq Reimbursements
    /\ MissedOnlyLate

(* Cursors and rotations are total orders, and a poll that is under way has  *)
(* ambassadors of its corporation left, the first of which it is using.      *)
Cursors ==
    /\ errored \subseteq Ambassadors /\ due \subseteq Corps /\ order \in Orders(Corps)
    /\ DOMAIN queue = Corps /\ queue = [k \in Corps |-> queue[k]]
    /\ \A k \in Corps : queue[k] \in Orders(AmbassadorsOf[k])
Polls ==
    /\ poll \in [Corps -> PollRow \cup {None}]
    /\ \A k \in Corps : poll[k] # None => poll[k].todo \in Seq(AmbassadorsOf[k]) \ {<<>>}
    /\ (\E k \in Corps : poll[k] # None) => running

WalletInductive == WalletTables /\ Cursors /\ Polls

-----------------------------------------------------------------------------
(* Orders and candidates.                                                    *)

\* Stamping some members of an ordered set with the current time leaves it totally
\* ordered.
LEMMA LaterOrders ==
    ASSUME NEW S, NEW xs \in SUBSET S, NEW R \in Orders(S)
    PROVE  Later(R, S, xs) \in Orders(S)
<1> DEFINE L == Later(R, S, xs)
<1>1. R \subseteq S \X S
    BY DEF Orders
<1>2. L \subseteq S \X S
    BY <1>1 DEF Later
<1>3. ASSUME NEW a \in S, NEW b \in S
      PROVE  <<a, b>> \in L <=> \/ a \notin xs /\ b \in xs
                                \/ <<a, b>> \in R /\ (a \in xs => b \in xs)
    BY DEF Later
<1> HIDE DEF L
<1>4. \A a, b \in S : <<a, b>> \in R \/ <<b, a>> \in R
    BY DEF Orders
<1>5. \A a, b \in S : <<a, b>> \in R /\ <<b, a>> \in R => a = b
    BY DEF Orders
<1>6. \A a, b, c \in S : <<a, b>> \in R /\ <<b, c>> \in R => <<a, c>> \in R
    BY DEF Orders
<1>7. \A a, b \in S : <<a, b>> \in L \/ <<b, a>> \in L
    BY <1>3, <1>4
<1>8. \A a, b \in S : <<a, b>> \in L /\ <<b, a>> \in L => a = b
    BY <1>3, <1>5
<1>9. ASSUME NEW a \in S, NEW b \in S, NEW c \in S, <<a, b>> \in L, <<b, c>> \in L
      PROVE  <<a, c>> \in L
    BY <1>3, <1>6, <1>9
<1>10. L \in Orders(S)
    BY <1>2, <1>7, <1>8, <1>9 DEF Orders
<1> QED
    BY <1>10 DEF L

\* The cursors of some corporations move on.
LEMMA AdvanceKeeps ==
    ASSUME Cursors, NEW ks \in SUBSET Corps, AdvanceCursors(ks)
    PROVE  order' \in Orders(Corps) /\ due' \subseteq Corps
BY LaterOrders DEF Cursors, AdvanceCursors

\* The ambassadors that a poll may use are ambassadors of its corporation.
LEMMA UsableType ==
    ASSUME NEW k \in Corps, NEW s \in Usable(k)
    PROVE  s \in Seq(AmbassadorsOf[k])
<1> DEFINE F == AmbassadorsOf[k] \ errored
           n == Cardinality(F)
           m == IF n < Tried THEN n ELSE Tried
<1>1. n \in Nat
    BY WalletAssumption, FS_Subset, FS_CardinalityType
<1>2. PICK t \in SetToSeqs(F) : s = First(t, Tried)
    BY DEF Usable, Ranked
<1>3. t \in [1 .. n -> F]
    BY DEF SetToSeqs
<1>4. F \subseteq AmbassadorsOf[k]
    OBVIOUS
<1> HIDE DEF F, n
<1>5. Len(t) = n
    BY <1>1, <1>3
<1>6. m \in Nat /\ m <= n
    BY <1>1, WalletAssumption
<1>7. s = SubSeq(t, 1, m)
    BY <1>2, <1>5 DEF First
<1>8. \A i \in 1 .. m : t[i] \in AmbassadorsOf[k]
    BY <1>1, <1>3, <1>4, <1>6
<1>9. SubSeq(t, 1, m) \in Seq(AmbassadorsOf[k])
    <2> HIDE DEF m
    <2>1. 1 \in Int /\ m \in Int
        BY <1>6
    <2> QED  BY <1>8, <2>1, SubSeqProperties, Zenon
<1> QED
    BY <1>7, <1>9

-----------------------------------------------------------------------------
(* Every action preserves the invariant.                                     *)

\* Empty tables and idle polls satisfy the invariant.
LEMMA InitHolds == WalletInit => WalletInductive
<1> SUFFICES ASSUME WalletInit PROVE WalletInductive
    OBVIOUS
<1>1. WalletTables
    <2>1. contracts \in [Contracts -> ContractRow]
        BY DEF WalletInit, ContractRow
    <2> QED  BY <2>1 DEF WalletInit, WalletTables, MissedOnlyLate
<1>2. Cursors
    BY DEF WalletInit, Cursors
<1>3. Polls
    BY DEF WalletInit, Polls
<1> QED
    BY <1>1, <1>2, <1>3 DEF WalletInductive

\* What a poll does not write stays as it is.
LEMMA TablesSame ==
    ASSUME WalletTables, UNCHANGED <<posted, journal, rowVars>>
    PROVE  WalletTables'
BY DEF WalletTables, MissedOnlyLate, rowVars
LEMMA CursorsSame ==
    ASSUME Cursors, UNCHANGED <<errored, due, order, queue>>
    PROVE  Cursors'
BY DEF Cursors
LEMMA PollsSame ==
    ASSUME Polls, UNCHANGED <<poll, running>>
    PROVE  Polls'
BY DEF Polls

\* Rows of the journal are rows that EVE has published.
LEMMA JournalGrows ==
    ASSUME WalletTables, NEW es, es \subseteq posted, journal' = journal \cup es,
           UNCHANGED <<posted, rowVars>>
    PROVE  WalletTables'
BY DEF WalletTables, MissedOnlyLate, rowVars

\* The steps of EVE and of the contract jobs and handlers: a reimbursement bound to
\* a contract that is verified already is late.
LEMMA OthersKeep ==
    ASSUME WalletInductive,
           \/ \E e \in Entries : Post(e)
           \/ \E a \in Ambassadors : LoseRole(a)
           \/ \E x \in Contracts : \/ \E k \in Corps \cup {None} : Upsert(x, k)
                                   \/ \E r \in Reimbursements : Bind(r, x)
           \/ \E r \in Reimbursements : Unbind(r)
    PROVE  WalletInductive'
<1> USE DEF WalletInductive
<1>1. UNCHANGED <<errored, due, order, queue>> /\ UNCHANGED <<poll, running>>
    BY DEF Post, LoseRole, Upsert, Bind, Unbind
<1>2. Cursors' /\ Polls'
    BY <1>1, CursorsSame, PollsSame
<1>3. ASSUME NEW e \in Entries, Post(e) PROVE WalletTables'
    BY <1>3 DEF Post, WalletTables, MissedOnlyLate, rowVars
<1>4. ASSUME NEW a \in Ambassadors, LoseRole(a) PROVE WalletTables'
    BY <1>4, TablesSame DEF LoseRole
<1>5. ASSUME NEW x \in Contracts, NEW k \in Corps \cup {None}, Upsert(x, k)
      PROVE  WalletTables'
    <2>1. contracts[x] \in ContractRow
        BY DEF WalletTables
    <2>2. PICK y : y = [contracts[x] EXCEPT !.known = TRUE,
                                            !.source = IF k = None THEN @ ELSE k]
        OBVIOUS
    <2>3. y \in ContractRow /\ y.payout = contracts[x].payout
        BY <2>1, <2>2 DEF ContractRow
    <2>4. contracts' = [contracts EXCEPT ![x] = y]
        BY <1>5, <2>2 DEF Upsert
    <2>5. contracts' \in [Contracts -> ContractRow]
        BY <2>3, <2>4 DEF WalletTables
    <2>6. \A z \in Contracts : contracts'[z].payout = contracts[z].payout
        BY <2>3, <2>4 DEF WalletTables
    <2> QED
        BY <1>5, <2>5, <2>6 DEF Upsert, WalletTables, MissedOnlyLate, esiVars
<1>6. ASSUME NEW x \in Contracts, NEW r \in Reimbursements, Bind(r, x)
      PROVE  WalletTables'
    <2>1. bound' = [bound EXCEPT ![r] = x]
        BY <1>6 DEF Bind
    <2>2. UNCHANGED <<posted, journal, contracts, verified>>
        BY <1>6 DEF Bind, esiVars
    <2>3. ASSUME NEW q \in Reimbursements, bound'[q] # None, contracts'[bound'[q]].payout > 0
          PROVE  q \in verified' \cup late'
        BY <1>6, <2>1, <2>2, <2>3 DEF Bind, WalletTables, MissedOnlyLate
    <2> QED
        BY <2>1, <2>2, <2>3 DEF WalletTables, MissedOnlyLate
<1>7. ASSUME NEW r \in Reimbursements, Unbind(r) PROVE WalletTables'
    BY <1>7 DEF Unbind, WalletTables, MissedOnlyLate, esiVars
<1> QED
    BY <1>2, <1>3, <1>4, <1>5, <1>6, <1>7

\* An hour or a poll interval passes.
LEMMA TimeKeeps ==
    ASSUME WalletInductive,
           (\E a \in Ambassadors : Cool(a)) \/ (\E k \in Corps : Elapse(k))
    PROVE  WalletInductive'
<1> USE DEF WalletInductive
<1>1. UNCHANGED <<posted, journal, rowVars>> /\ UNCHANGED <<poll, running>>
    BY DEF Cool, Elapse, esiVars
<1>2. Cursors'
    BY DEF Cool, Elapse, Cursors
<1> QED
    BY <1>1, <1>2, TablesSame, PollsSame

\* The ambassador in use is one of the corporation's.
LEMMA AmbType ==
    ASSUME WalletInductive, NEW k \in Corps, poll[k] # None
    PROVE  /\ poll[k] \in PollRow /\ poll[k].todo \in Seq(AmbassadorsOf[k]) \ {<<>>}
           /\ Amb(k) \in AmbassadorsOf[k] /\ Amb(k) \in Ambassadors /\ running
<1>1. poll[k] \in PollRow /\ poll[k].todo \in Seq(AmbassadorsOf[k]) \ {<<>>} /\ running
    BY DEF WalletInductive, Polls
<1>2. Amb(k) \in AmbassadorsOf[k]
    BY <1>1, HeadTailProperties DEF Amb
<1> QED
    BY <1>1, <1>2 DEF Ambassadors

\* The poll of k goes on as v says, which keeps ambassadors of k, or ends.
GoesOn(k, v) ==
    /\ poll[k] # None /\ poll' = [poll EXCEPT ![k] = v] /\ running' = running
    /\ v = None \/ (v \in PollRow /\ v.todo \in Seq(AmbassadorsOf[k]) \ {<<>>})

\* A poll that goes on or ends keeps what is said of the polls.
LEMMA PollGoesOn ==
    ASSUME WalletInductive, NEW k \in Corps, NEW v, GoesOn(k, v)
    PROVE  Polls'
<1>1. poll' \in [Corps -> PollRow \cup {None}]
    BY DEF GoesOn, WalletInductive, Polls
<1>2. ASSUME NEW j \in Corps, poll'[j] # None
      PROVE  poll'[j].todo \in Seq(AmbassadorsOf[j]) \ {<<>>}
    BY <1>2 DEF GoesOn, WalletInductive, Polls
<1>3. running'
    BY AmbType DEF GoesOn
<1> QED
    BY <1>1, <1>2, <1>3 DEF Polls

\* The next ambassador is used, or the last one failed and the cursor moves on.
LEMMA NextAmbassadorKeeps ==
    ASSUME WalletInductive, NEW k \in Corps, poll[k] # None, NextAmbassador(k),
           running' = running
    PROVE  Polls' /\ order' \in Orders(Corps) /\ due' \subseteq Corps
<1>1. poll[k] \in PollRow /\ poll[k].todo \in Seq(AmbassadorsOf[k]) \ {<<>>}
    BY AmbType
<1>2. CASE Len(poll[k].todo) > 1
    <2>1. PICK v : v = [poll[k] EXCEPT !.todo = Tail(@)]
        OBVIOUS
    <2>2. poll' = [poll EXCEPT ![k] = v] /\ UNCHANGED <<order, due>>
        BY <1>2, <2>1 DEF NextAmbassador
    <2>3. /\ Tail(poll[k].todo) \in Seq(AmbassadorsOf[k])
          /\ Len(Tail(poll[k].todo)) = Len(poll[k].todo) - 1
        BY <1>1, HeadTailProperties
    <2>4. Tail(poll[k].todo) # <<>>
        <3>1. Len(poll[k].todo) \in Nat
            BY <1>1, LenProperties
        <3>2. \A n \in Nat : n > 1 => n - 1 # 0
            OBVIOUS
        <3>3. Len(Tail(poll[k].todo)) # 0
            BY <1>2, <2>3, <3>1, <3>2, Zenon
        <3> QED  BY <3>3, EmptySeq
    <2>5. Tail(poll[k].todo) \in Seq(Ambassadors)
        BY <1>1, HeadTailProperties DEF PollRow
    <2>6. v \in PollRow /\ v.todo = Tail(poll[k].todo)
        BY <1>1, <2>1, <2>5 DEF PollRow
    <2>7. GoesOn(k, v)
        BY <2>2, <2>3, <2>4, <2>6 DEF GoesOn
    <2> QED
        BY <2>2, <2>7, PollGoesOn DEF WalletInductive, Cursors
<1>3. CASE ~(Len(poll[k].todo) > 1)
    <2>1. GoesOn(k, None) /\ AdvanceCursors({k})
        BY <1>3 DEF NextAmbassador, End, GoesOn
    <2> QED
        BY <2>1, PollGoesOn, AdvanceKeeps DEF WalletInductive
<1> QED
    BY <1>2, <1>3

\* No client, or no role: the next ambassador is tried.
LEMMA TryNextKeeps ==
    ASSUME WalletInductive, NEW k \in Corps, NoClient(k) \/ BalancesForbidden(k)
    PROVE  WalletInductive'
<1>1. /\ poll[k] # None /\ NextAmbassador(k) /\ running' = running
      /\ UNCHANGED <<posted, journal, rowVars>> /\ queue' = queue
    BY DEF NoClient, BalancesForbidden, AtBalances, esiVars
<1>2. Polls' /\ order' \in Orders(Corps) /\ due' \subseteq Corps
    BY <1>1, NextAmbassadorKeeps
<1>3. errored' \subseteq Ambassadors
    BY <1>1, AmbType DEF NoClient, BalancesForbidden, WalletInductive, Cursors
<1> QED
    BY <1>1, <1>2, <1>3, TablesSame DEF WalletInductive, Cursors

\* A poll fails, also between two journal rows, or its ambassador lost the role in
\* the middle: the rows that were inserted stay, and so does the cursor.
LEMMA PollFailsKeeps ==
    ASSUME WalletInductive, NEW k \in Corps,
           (\E es \in SUBSET Entries : PollError(k, es)) \/ JournalForbidden(k)
    PROVE  WalletInductive'
<1>1. GoesOn(k, None) /\ UNCHANGED <<due, order, queue>>
    BY DEF PollError, JournalForbidden, AtBalances, AtDivision, End, GoesOn
<1>2. errored' \subseteq Ambassadors
    BY <1>1, AmbType DEF PollError, JournalForbidden, WalletInductive, Cursors, GoesOn
<1>3. WalletTables'
    <2>1. CASE JournalForbidden(k)
        BY <2>1, TablesSame DEF JournalForbidden, WalletInductive, esiVars
    <2>2. ASSUME NEW es \in SUBSET Entries, PollError(k, es) PROVE WalletTables'
        <3>1. es \subseteq posted /\ journal' = journal \cup es /\ UNCHANGED <<posted, rowVars>>
            BY <2>2 DEF PollError, New, esiVars
        <3> QED  BY <3>1, JournalGrows DEF WalletInductive
    <2> QED  BY <2>1, <2>2
<1> QED
    BY <1>1, <1>2, <1>3, PollGoesOn DEF WalletInductive, Cursors

\* The balances or the journal of a division were read.
LEMMA ReadKeeps ==
    ASSUME WalletInductive, NEW k \in Corps,
           BalancesOk(k) \/ \E d \in 1 .. Divisions : JournalOk(k, d)
    PROVE  WalletInductive'
<1>1. poll[k] # None
    BY DEF BalancesOk, JournalOk, AtBalances, AtDivision
<1>2. poll[k] \in PollRow /\ poll[k].todo \in Seq(AmbassadorsOf[k]) \ {<<>>}
    BY <1>1, AmbType
<1>3. \E v : GoesOn(k, v)
    <2>1. CASE BalancesOk(k)
        <3>1. PICK v : v = [poll[k] EXCEPT !.div = 1]
            OBVIOUS
        <3>2. v \in PollRow /\ v.todo = poll[k].todo
            BY <1>2, <3>1 DEF PollRow
        <3>3. poll' = [poll EXCEPT ![k] = v] /\ running' = running
            BY <2>1, <3>1 DEF BalancesOk
        <3> QED  BY <1>1, <1>2, <3>2, <3>3 DEF GoesOn
    <2>2. ASSUME NEW d \in 1 .. Divisions, JournalOk(k, d) PROVE \E v : GoesOn(k, v)
        <3>1. PICK v : v = [poll[k] EXCEPT !.div = d + 1, !.fresh = @ \cup {e.ctx : e \in New(k)}]
            OBVIOUS
        <3>2. {e.ctx : e \in New(k)} \subseteq Contracts
            BY WalletAssumption DEF New, WalletInductive, WalletTables
        <3>3. d + 1 \in Nat
            BY WalletAssumption
        <3>4. v \in PollRow /\ v.todo = poll[k].todo
            BY <1>2, <3>1, <3>2, <3>3 DEF PollRow
        <3>5. poll' = [poll EXCEPT ![k] = v] /\ running' = running
            BY <2>2, <3>1 DEF JournalOk
        <3> QED  BY <1>1, <1>2, <3>4, <3>5 DEF GoesOn
    <2> QED  BY <2>1, <2>2
<1>4. WalletTables'
    <2>1. CASE BalancesOk(k)
        BY <2>1, TablesSame DEF BalancesOk, WalletInductive, esiVars
    <2>2. ASSUME NEW d \in 1 .. Divisions, JournalOk(k, d) PROVE WalletTables'
        <3>1. New(k) \subseteq posted /\ journal' = journal \cup New(k)
              /\ UNCHANGED <<posted, rowVars>>
            BY <2>2 DEF JournalOk, New, esiVars
        <3> QED  BY <3>1, JournalGrows DEF WalletInductive
    <2> QED  BY <2>1, <2>2
<1>5. UNCHANGED <<errored, due, order, queue>>
    BY DEF BalancesOk, JournalOk
<1> QED
    BY <1>3, <1>4, <1>5, PollGoesOn, CursorsSame DEF WalletInductive

\* A poll is done: its ambassador goes to the end of the rotation, its corporation
\* to the end of the cursors.
LEMMA PollDoneKeeps ==
    ASSUME WalletInductive, NEW k \in Corps, PollDone(k)
    PROVE  WalletInductive'
<1>1. /\ GoesOn(k, None) /\ AdvanceCursors({k}) /\ errored' = errored
      /\ UNCHANGED <<posted, journal, rowVars>>
    BY DEF PollDone, End, GoesOn, esiVars
<1>2. PICK a : a = Amb(k)
    OBVIOUS
<1>3. a \in AmbassadorsOf[k]
    BY <1>1, <1>2, AmbType DEF GoesOn
<1>4. queue' = [queue EXCEPT ![k] = Later(@, AmbassadorsOf[k], {a})]
    BY <1>2 DEF PollDone
<1>5. Later(queue[k], AmbassadorsOf[k], {a}) \in Orders(AmbassadorsOf[k])
    BY <1>3, LaterOrders DEF WalletInductive, Cursors
<1>6. /\ \A j \in Corps : queue'[j] \in Orders(AmbassadorsOf[j])
      /\ DOMAIN queue' = Corps /\ queue' = [j \in Corps |-> queue'[j]]
    BY <1>4, <1>5 DEF WalletInductive, Cursors
<1>7. Cursors'
    BY <1>1, <1>6, AdvanceKeeps DEF WalletInductive, Cursors
<1> QED
    BY <1>1, <1>7, PollGoesOn, TablesSame DEF WalletInductive

\* A run starts polls for the corporations that have an ambassador to use.
LEMMA TickKeeps ==
    ASSUME WalletInductive, Tick
    PROVE  WalletInductive'
<1>1. PICK usable \in [Corps -> UNION {Usable(k) : k \in Corps}] :
         /\ \A k \in Corps : usable[k] \in Usable(k)
         /\ poll' = [k \in Corps |-> IF k \in {j \in MostOverdue : usable[j] # <<>>}
                                     THEN [todo |-> usable[k], div |-> 0, fresh |-> {}]
                                     ELSE None]
         /\ AdvanceCursors(MostOverdue \ {j \in MostOverdue : usable[j] # <<>>})
    BY DEF Tick
<1>2. \A k \in Corps : usable[k] \in Seq(AmbassadorsOf[k])
    BY <1>1, UsableType
<1>3. \A k \in Corps : usable[k] \in Seq(Ambassadors)
    <2> TAKE k \in Corps
    <2>1. Len(usable[k]) \in Nat /\ usable[k] \in [1 .. Len(usable[k]) -> AmbassadorsOf[k]]
        BY <1>2, LenProperties
    <2>2. AmbassadorsOf[k] \subseteq Ambassadors
        BY DEF Ambassadors
    <2> QED  BY <1>2, <2>1, <2>2
<1>4. ASSUME NEW k \in Corps, poll'[k] # None
      PROVE  poll'[k] \in PollRow /\ poll'[k].todo \in Seq(AmbassadorsOf[k]) \ {<<>>}
    <2>1. /\ usable[k] # <<>>
          /\ poll'[k] = [todo |-> usable[k], div |-> 0, fresh |-> {}]
        BY <1>1, <1>4
    <2> QED  BY <1>2, <1>3, <2>1 DEF PollRow
<1>5. DOMAIN poll' = Corps /\ poll' = [k \in Corps |-> poll'[k]]
    BY <1>1
<1>6. Polls'
    BY <1>4, <1>5 DEF Tick, Polls
<1>7. MostOverdue \ {j \in MostOverdue : usable[j] # <<>>} \in SUBSET Corps
    BY DEF MostOverdue, WalletInductive, Cursors
<1>8. Cursors'
    BY <1>1, <1>7, AdvanceKeeps DEF Tick, WalletInductive, Cursors
<1>9. UNCHANGED <<posted, journal, rowVars>>
    BY DEF Tick, esiVars
<1> QED
    BY <1>6, <1>8, <1>9, TablesSame DEF WalletInductive

\* A payout is the number of the entries that are counted.
LEMMA PayoutType ==
    ASSUME WalletTables, NEW x, NEW payer
    PROVE  Payout(x, payer, journal) \in Nat
<1>1. {e \in journal : e.ctx = x /\ e.kind = "price" /\ Scoped(x, payer, e)} \in SUBSET Entries
    BY DEF WalletTables
<1> QED
    BY <1>1, WalletAssumption, FS_Subset, FS_CardinalityType DEF Payout

\* A verification that finds a payment marks every reimbursement bound then.
LEMMA VerifyKeeps ==
    ASSUME WalletInductive, NEW x \in Contracts, NEW payer, Verify(x, payer)
    PROVE  WalletInductive'
<1> USE DEF WalletInductive
<1>1. PICK sum : sum = Payout(x, payer, journal)
    OBVIOUS
<1>2. sum \in Nat
    BY <1>1, PayoutType
<1>3. /\ contracts' = [contracts EXCEPT ![x].payout = IF sum > 0 THEN sum ELSE @]
      /\ verified' = IF sum > 0 THEN verified \cup BoundTo(x) ELSE verified
      /\ UNCHANGED <<posted, journal, bound, late>>
    BY <1>1 DEF Verify, esiVars
<1>4. CASE sum > 0
    <2>1. PICK y : y = [contracts[x] EXCEPT !.payout = sum]
        OBVIOUS
    <2>2. y \in ContractRow
        BY <1>2, <2>1 DEF WalletTables, ContractRow
    <2>3. contracts' = [contracts EXCEPT ![x] = y]
        BY <1>3, <1>4, <2>1
    <2>4. contracts' \in [Contracts -> ContractRow]
        BY <2>2, <2>3 DEF WalletTables
    <2>5. \A z \in Contracts : z # x => contracts'[z] = contracts[z]
        BY <2>3 DEF WalletTables
    <2>6. ASSUME NEW r \in Reimbursements, bound[r] # None, contracts'[bound[r]].payout > 0
          PROVE  r \in verified' \cup late
        <3>1. CASE bound[r] = x
            BY <1>3, <1>4, <3>1 DEF BoundTo
        <3>2. CASE bound[r] # x
            BY <1>3, <1>4, <2>5, <2>6, <3>2 DEF WalletTables, MissedOnlyLate
        <3> QED  BY <3>1, <3>2
    <2>7. verified' \subseteq Reimbursements
        BY <1>3, <1>4 DEF WalletTables, BoundTo
    <2>8. WalletTables'
        BY <1>3, <2>4, <2>6, <2>7 DEF WalletTables, MissedOnlyLate
    <2>9. UNCHANGED <<errored, due, order, queue>> /\ UNCHANGED <<poll, running>>
        BY DEF Verify
    <2> QED
        BY <2>8, <2>9, CursorsSame, PollsSame
<1>5. CASE ~(sum > 0)
    <2>1. contracts' = contracts /\ verified' = verified
        BY <1>3, <1>5 DEF WalletTables, ContractRow
    <2>2. WalletTables'
        BY <1>3, <2>1 DEF WalletTables, MissedOnlyLate
    <2>3. UNCHANGED <<errored, due, order, queue>> /\ UNCHANGED <<poll, running>>
        BY DEF Verify
    <2> QED
        BY <2>2, <2>3, CursorsSame, PollsSame
<1> QED
    BY <1>4, <1>5

\* A run ends, a verification fails, or the worker is stopped: no table is written,
\* and no poll is left without a run.
LEMMA EndsKeep ==
    ASSUME WalletInductive, RunDone \/ Crash \/ \E x \in Contracts : VerifyFails(x)
    PROVE  WalletInductive'
<1> USE DEF WalletInductive
<1>1. UNCHANGED <<posted, journal, rowVars>> /\ UNCHANGED <<errored, due, order, queue>>
    BY DEF RunDone, Crash, VerifyFails, esiVars
<1>2. Polls'
    BY DEF RunDone, Crash, VerifyFails, Polls
<1> QED
    BY <1>1, <1>2, TablesSame, CursorsSame

-----------------------------------------------------------------------------
(* The theorems.                                                             *)

\* Every step preserves the invariant.
LEMMA NextHolds == WalletInductive /\ [WalletNext]_walletVars => WalletInductive'
<1> SUFFICES ASSUME WalletInductive, [WalletNext]_walletVars PROVE WalletInductive'
    OBVIOUS
<1>1. CASE UNCHANGED walletVars
    BY <1>1, TablesSame, CursorsSame, PollsSame DEF walletVars, rowVars, WalletInductive
<1>2. CASE WalletNext
    BY <1>2, OthersKeep, TimeKeeps, TryNextKeeps, PollFailsKeeps, ReadKeeps, PollDoneKeeps,
       TickKeeps, VerifyKeeps, EndsKeep DEF WalletNext, PollStep
<1> QED
    BY <1>1, <1>2

\* The wallet job always satisfies the invariant, wherever it fails or is stopped.
THEOREM WalletInvariant == WalletSpec => []WalletInductive
BY InitHolds, NextHolds, PTL DEF WalletSpec

\* Every corporation keeps its place among the cursors and every ambassador its
\* place in the rotation, and a reimbursement of a verified contract is marked unless
\* it was bound after the verification: for any polls, failures and contracts.
THEOREM OnlyLateLinksAreMissed == WalletSpec => []WalletInv
<1>1. WalletInductive => WalletInv
    BY DEF WalletInductive, WalletTables, Cursors, Polls, ContractRow, WalletInv, WalletTypeOK
<1> QED
    BY <1>1, WalletInvariant, PTL

\* The entries of one corporation for one contract are at most one.
LEMMA AtMostOne ==
    ASSUME NEW T, T \subseteq Entries, \A e, f \in T : e = f
    PROVE  Cardinality(T) <= 1
<1>1. CASE T = {}
    BY <1>1, FS_EmptySet
<1>2. CASE T # {}
    <2>1. PICK e \in T : TRUE
        BY <1>2
    <2>2. T = {e}
        BY <2>1
    <2> QED
        BY <2>2, FS_Singleton
<1> QED
    BY <1>1, <1>2

\* With a linked payer, or a corporation that discovered the contract, a verification
\* counts one side of it only, for any journals, links and polls before it.
THEOREM PaymentsAreCountedOnce == WalletSpec => CountedOnce
<1>1. WalletInductive /\ [WalletNext]_walletVars
        => [\A x \in Contracts :
              contracts'[x].payout > contracts[x].payout /\ contracts'[x].payout > 1
                => contracts[x].source = None /\ Payers(x) = {}]_walletVars
    <2> SUFFICES ASSUME WalletInductive, WalletNext, NEW x \in Contracts,
                        contracts'[x].payout > contracts[x].payout, contracts'[x].payout > 1
                 PROVE  contracts[x].source = None /\ Payers(x) = {}
        OBVIOUS
    <2> USE DEF WalletInductive
    <2>1. contracts[x] \in ContractRow /\ contracts'[x].payout # contracts[x].payout
        <3>1. contracts[x] \in ContractRow
            BY DEF WalletTables
        <3> QED  BY <3>1 DEF ContractRow
    <2>2. ASSUME NEW y \in Contracts, NEW k \in Corps \cup {None}, Upsert(y, k) PROVE FALSE
        BY <2>1, <2>2 DEF Upsert, WalletTables, ContractRow
    <2>3. contracts' # contracts
        BY <2>1
    <2>4. PICK payer \in PayerChoice(x) : Verify(x, payer)
        <3>1. ASSUME NEW y \in Contracts, NEW payer \in PayerChoice(y), Verify(y, payer), y # x
              PROVE  FALSE
            BY <2>1, <3>1 DEF Verify, WalletTables
        <3>2. ASSUME \/ \E e \in Entries : Post(e)
                     \/ \E a \in Ambassadors : LoseRole(a) \/ Cool(a)
                     \/ \E y \in Contracts : \/ \E r \in Reimbursements : Bind(r, y)
                                             \/ VerifyFails(y)
                     \/ \E r \in Reimbursements : Unbind(r)
                     \/ \E k \in Corps : Elapse(k)
                     \/ Tick \/ RunDone \/ Crash
              PROVE  FALSE
            BY <2>3, <3>2 DEF Post, LoseRole, Cool, Bind, VerifyFails, Unbind, Elapse, Tick, RunDone,
                              Crash, rowVars
        <3>3. ASSUME NEW k \in Corps, PollStep(k) PROVE FALSE
            BY <2>3, <3>3 DEF PollStep, NoClient, BalancesForbidden, BalancesOk, JournalForbidden,
                              PollError, JournalOk, PollDone, rowVars
        <3> QED
            BY <2>2, <3>1, <3>2, <3>3 DEF WalletNext
    <2> DEFINE T == {e \in journal : e.ctx = x /\ e.kind = "price" /\ Scoped(x, payer, e)}
    <2>5. T \subseteq Entries
        BY DEF WalletTables
    <2>6. Cardinality(T) > 1
        <3>1. PICK sum : sum = Cardinality(T)
            OBVIOUS
        <3>2. contracts' = [contracts EXCEPT ![x].payout = IF sum > 0 THEN sum ELSE @]
            BY <2>4, <3>1 DEF Verify, Payout
        <3>3. contracts'[x].payout = IF sum > 0 THEN sum ELSE contracts[x].payout
            BY <3>2 DEF WalletTables, ContractRow
        <3> QED  BY <2>1, <3>1, <3>3
    <2>7. Cardinality(T) \in Nat
        BY <2>5, WalletAssumption, FS_Subset, FS_CardinalityType
    <2>8. PICK e, f \in T : e # f
        <3> HIDE DEF T
        <3> QED  BY <2>5, <2>6, <2>7, AtMostOne
    <2>9. e.corp # f.corp
        BY <2>5, <2>8, SidesAssumption
    <2>10. payer = None
        BY <2>8, <2>9 DEF Scoped
    <2>11. Payers(x) = {}
        BY <2>4, <2>10 DEF PayerChoice, Payers
    <2>12. contracts[x].source = None
        BY <2>8, <2>9, <2>10 DEF Scoped
    <2> QED  BY <2>11, <2>12
<1> QED
    BY <1>1, WalletInvariant, PTL DEF WalletSpec, CountedOnce

=============================================================================
