----------------------- MODULE PendingWebhooksProofs -----------------------
(***************************************************************************)
(* Proofs about PendingWebhooks: for any number of rows, workers and       *)
(* crashes, no two drainers ever hold the same row, and the drained table  *)
(* implements the box of module Outbox.  Both rest on LeaseOutlasts: what  *)
(* is left of the lease of a held row exceeds the time the posts left in   *)
(* its batch can take.                                                     *)
(***************************************************************************)
EXTENDS PendingWebhooks, FiniteSetTheorems, TLAPS

\* The lease of a held row outlasts what is left of its batch.
LeaseOutlasts ==
    \A d \in Drainers : \A m \in drainers[d].batch :
        rows[m].state = "pending" =>
            rows[m].wait > Cardinality(drainers[d].batch) * SendTimeout - drainers[d].elapsed

\* What a drainer remembers is still so.
Remembers ==
    \A d \in Drainers :
        /\ \A m \in drainers[d].batch :
            /\ rows[m].state # "absent"
            /\ rows[m].state = "pending" => drainers[d].seen[m] = rows[m].attempts
        /\ drainers[d].current = NoMessage =>
            drainers[d].elapsed = 0 /\ drainers[d].result = "none"
        /\ drainers[d].current # NoMessage =>
            drainers[d].current \in drainers[d].batch \ Malformed

\* A result is borne out by what has happened to the message.
ResultsTrue ==
    /\ \A m \in Messages : failures[m] >= rows[m].attempts
    /\ \A m \in Messages : group = "deleted" => rows[m].state # "pending"
    /\ \A d \in Drainers : LET m == drainers[d].current IN
        m # NoMessage /\ rows[m].state = "pending" =>
            /\ drainers[d].result = "ok" => m \in received \cup Unwanted
            /\ drainers[d].result = "err" => failures[m] > rows[m].attempts

\* The inductive invariant.
WebhookInv == WebhookTypeOK /\ LeaseExclusive /\ LeaseOutlasts /\ Remembers /\ ResultsTrue

-----------------------------------------------------------------------------
(* Arithmetic and cardinality.                                             *)

\* Taking one post off a batch takes one time limit off what it needs.
LEMMA OnePostLess ==
    ASSUME NEW n \in Nat, NEW t \in Nat
    PROVE  (n - 1) * t = n * t - t
  OBVIOUS

\* A smaller batch needs no more time.
LEMMA FewerPosts ==
    ASSUME NEW n \in Nat, NEW k \in Nat, NEW t \in Nat, n <= k
    PROVE  n * t <= k * t
  <1>1. PICK j \in Nat : k = n + j
    <2>1. k - n \in Nat /\ k = n + (k - n)
      OBVIOUS
    <2> QED  BY <2>1
  <1>2. k * t = n * t + j * t
    BY <1>1
  <1>3. j * t \in Nat /\ n * t \in Nat
    OBVIOUS
  <1> QED  BY <1>2, <1>3

\* The delay before a retry is a number of ticks.
LEMMA BackoffType ==
    ASSUME NEW n \in Nat
    PROVE  Backoff(n) \in Nat
  <1>1. IsFiniteSet(1 .. n) /\ Cardinality(1 .. n) = n
    BY FS_Interval
  <1>2. 2 ^ n \in Nat
    BY <1>1, FS_SUBSET, FS_CardinalityType, Zenon
  <1> QED  BY <1>2, WebhookAssumption DEF Backoff

\* The size of a held batch is a positive number, one less without one of its rows.
LEMMA BatchSize ==
    ASSUME NEW S \in SUBSET Messages
    PROVE  /\ Cardinality(S) \in Nat
           /\ \A m \in S : Cardinality(S) >= 1 /\ Cardinality(S \ {m}) = Cardinality(S) - 1
  <1>1. IsFiniteSet(S)
    BY FS_Subset, WebhookAssumption
  <1>2. Cardinality(S) \in Nat
    BY <1>1, FS_CardinalityType
  <1>3. ASSUME NEW m \in S
        PROVE  Cardinality(S) >= 1 /\ Cardinality(S \ {m}) = Cardinality(S) - 1
    <2>1. Cardinality(S \ {m}) = Cardinality(S) - 1
      BY <1>1, FS_RemoveElement
    <2>2. Cardinality(S \ {m}) \in Nat
      BY <1>1, FS_Subset, FS_CardinalityType
    <2> QED  BY <1>2, <2>1, <2>2
  <1> QED  BY <1>2, <1>3

-----------------------------------------------------------------------------
(* The invariant, one action at a time.                                    *)

\* The empty table satisfies the invariant.
LEMMA InvInit == WebhookInit => WebhookInv
  <1> SUFFICES ASSUME WebhookInit PROVE WebhookInv
    OBVIOUS
  <1>1. NoRow \in WebhookRow /\ Resting \in DrainerState
    BY WebhookAssumption DEF NoRow, WebhookRow, Resting, DrainerState
  <1>2. WebhookTypeOK
    BY <1>1 DEF WebhookInit, WebhookTypeOK
  <1> QED
    BY <1>2 DEF WebhookInit, WebhookInv, LeaseExclusive, LeaseOutlasts, Remembers,
                ResultsTrue, NoRow, Resting

\* A held row is not due: nobody else can lease it.
LEMMA HeldNotDue ==
    ASSUME WebhookInv, NEW d \in Drainers, NEW m \in drainers[d].batch
    PROVE  m \notin Due
  <1>1. drainers[d] \in DrainerState /\ m \in Messages /\ rows[m] \in WebhookRow
    BY DEF WebhookInv, WebhookTypeOK, DrainerState
  <1>2. drainers[d].batch \in SUBSET Messages /\ drainers[d].elapsed \in 0 .. SendTimeout
    BY <1>1 DEF DrainerState
  <1>3. Cardinality(drainers[d].batch) \in Nat /\ Cardinality(drainers[d].batch) >= 1
    BY <1>2, BatchSize
  <1>4. 1 * SendTimeout <= Cardinality(drainers[d].batch) * SendTimeout
    BY <1>3, FewerPosts, WebhookAssumption
  <1>5. rows[m].state = "pending" =>
            rows[m].wait > Cardinality(drainers[d].batch) * SendTimeout - drainers[d].elapsed
    BY DEF WebhookInv, LeaseOutlasts
  <1>6. Cardinality(drainers[d].batch) * SendTimeout \in Nat /\ rows[m].wait \in Nat
    BY <1>1, <1>3, WebhookAssumption DEF WebhookRow
  <1>7. rows[m].state = "pending" => rows[m].wait > 0
    BY <1>2, <1>4, <1>5, <1>6, WebhookAssumption
  <1> QED  BY <1>7 DEF Due

\* A new row has no attempts and nobody holds it.
LEMMA EnqueueKeeps ==
    ASSUME WebhookInv, NEW m \in Messages, Enqueue(m)
    PROVE  WebhookInv'
  <1> USE DEF WebhookInv
  <1>1. WebhookTypeOK'
    BY DEF Enqueue, WebhookTypeOK, WebhookRow
  <1>2. \A d \in Drainers : drainers'[d] = drainers[d] /\ m \notin drainers[d].batch
    BY DEF Enqueue, Remembers
  <1>3. \A n \in Messages : n # m => rows'[n] = rows[n]
    BY DEF Enqueue, WebhookTypeOK
  <1>4. \A d \in Drainers : drainers[d].batch \subseteq Messages
    BY DEF WebhookTypeOK, DrainerState
  <1>5. LeaseExclusive' /\ LeaseOutlasts' /\ Remembers'
    BY <1>2, <1>3, <1>4 DEF LeaseExclusive, LeaseOutlasts, Remembers
  <1>6. rows'[m].attempts = rows[m].attempts /\ group = "alive"
    BY DEF Enqueue, WebhookTypeOK, WebhookRow
  <1>7. \A d \in Drainers : drainers[d].current # NoMessage =>
                drainers[d].current # m /\ drainers[d].current \in Messages
    BY <1>2, <1>4 DEF Remembers
  <1>8. ResultsTrue'
    BY <1>2, <1>3, <1>6, <1>7 DEF ResultsTrue, Enqueue
  <1> QED  BY <1>1, <1>5, <1>8

\* The leased rows were due, so no other drainer holds them, and their new lease
\* covers a whole batch.
LEMMA LeaseKeeps ==
    ASSUME WebhookInv, NEW d \in Drainers, NEW S \in SUBSET Messages, Lease(d, S)
    PROVE  WebhookInv'
  <1>0. /\ S \subseteq Due /\ Cardinality(S) <= Batch
        /\ rows' = [m \in Messages |-> IF m \in S THEN LeasedRow(m) ELSE rows[m]]
        /\ drainers' = [drainers EXCEPT ![d] = [
                batch |-> S,
                seen |-> [m \in Messages |-> IF m \in S THEN rows[m].attempts ELSE 0],
                current |-> NoMessage, elapsed |-> 0, result |-> "none"]]
        /\ UNCHANGED <<received, failures, group, crashes>>
    BY DEF Lease
  <1>t. /\ rows \in [Messages -> WebhookRow] /\ drainers \in [Drainers -> DrainerState]
    BY DEF WebhookInv, WebhookTypeOK
  <1>1. \A m \in Messages : /\ rows'[m] \in WebhookRow
                            /\ rows'[m].state = rows[m].state
                            /\ rows'[m].attempts = rows[m].attempts
    BY <1>0, <1>t, WebhookAssumption DEF LeasedRow, WebhookRow
  <1>2. \A m \in S : rows[m].state = "pending" /\ rows'[m].wait = LeaseTime
    BY <1>0, <1>t DEF LeasedRow, WebhookRow, Due
  <1>3. /\ drainers'[d].batch = S /\ drainers'[d].current = NoMessage
        /\ drainers'[d].elapsed = 0 /\ drainers'[d].result = "none"
        /\ \A m \in S : drainers'[d].seen[m] = rows[m].attempts
    BY <1>0, <1>t
  <1>4. drainers'[d] \in DrainerState
    <2>1. [m \in Messages |-> IF m \in S THEN rows[m].attempts ELSE 0]
                \in [Messages -> 0 .. MaxAttempts - 1]
      BY <1>t, WebhookAssumption DEF WebhookRow
    <2>2. \A s \in [Messages -> 0 .. MaxAttempts - 1] :
                [batch |-> S, seen |-> s, current |-> NoMessage, elapsed |-> 0,
                 result |-> "none"] \in DrainerState
      BY WebhookAssumption DEF DrainerState
    <2> QED  BY <1>0, <1>t, <2>1, <2>2
  <1>5. \A e \in Drainers : e # d => drainers'[e] = drainers[e]
    BY <1>0, <1>t
  <1>6. WebhookTypeOK'
    <2>1. rows' \in [Messages -> WebhookRow]
      BY <1>0, <1>1
    <2>2. drainers' \in [Drainers -> DrainerState]
      BY <1>0, <1>t, <1>4
    <2> QED  BY <1>0, <2>1, <2>2 DEF WebhookInv, WebhookTypeOK
  <1>7. \A e \in Drainers : drainers[e].batch \cap S = {}
    BY <1>0, HeldNotDue
  <1>8. LeaseExclusive'
    BY <1>3, <1>5, <1>7 DEF LeaseExclusive, WebhookInv
  <1>9. LeaseOutlasts'
    <2>1. Cardinality(S) * SendTimeout <= Batch * SendTimeout
      BY <1>0, BatchSize, FewerPosts, WebhookAssumption
    <2>2. Cardinality(S) * SendTimeout \in Nat
      BY BatchSize, WebhookAssumption
    <2>3. LeaseTime > Cardinality(S) * SendTimeout - 0
      BY <2>1, <2>2, WebhookAssumption
    <2>4. ASSUME NEW e \in Drainers, e # d, NEW m \in drainers[e].batch
          PROVE  rows'[m] = rows[m]
      BY <1>0, <1>7, <1>t, <2>4 DEF DrainerState
    <2> QED  BY <1>2, <1>3, <1>5, <2>3, <2>4 DEF LeaseOutlasts, WebhookInv
  <1>10. Remembers'
    <2>1. \A e \in Drainers : drainers[e].batch \subseteq Messages
      BY <1>t DEF DrainerState
    <2> QED  BY <1>1, <1>2, <1>3, <1>5, <2>1 DEF Remembers, WebhookInv
  <1>11. ResultsTrue'
    <2>1. \A e \in Drainers : drainers[e].current # NoMessage
                                => drainers[e].current \in Messages
      BY <1>t DEF DrainerState
    <2> QED  BY <1>0, <1>1, <1>3, <1>5, <2>1 DEF ResultsTrue, WebhookInv
  <1> QED  BY <1>6, <1>8, <1>9, <1>10, <1>11 DEF WebhookInv

\* The facts the remaining actions have in common: rows of one drainer and of
\* one message.
LEMMA Shape ==
    ASSUME WebhookInv
    PROVE  /\ rows \in [Messages -> WebhookRow] /\ drainers \in [Drainers -> DrainerState]
           /\ failures \in [Messages -> Nat] /\ received \subseteq Messages
           /\ \A d \in Drainers :
                /\ drainers[d].batch \in SUBSET Messages
                /\ drainers[d].elapsed \in 0 .. SendTimeout
                /\ drainers[d].current # NoMessage =>
                        drainers[d].current \in drainers[d].batch \ Malformed
                /\ drainers[d].current # NoMessage => drainers[d].current \in Messages
           /\ \A m \in Messages :
                rows[m].wait \in Nat /\ rows[m].attempts \in 0 .. MaxAttempts - 1
  BY DEF WebhookInv, WebhookTypeOK, DrainerState, WebhookRow, Remembers

\* A batch that has lost a row needs at most what was left before, less the time
\* limit of the post that ended.
LEMMA BatchShrinks ==
    ASSUME NEW S \in SUBSET Messages, NEW m \in S, NEW e \in 0 .. SendTimeout,
           NEW w \in Nat, w > Cardinality(S) * SendTimeout - e
    PROVE  w > Cardinality(S \ {m}) * SendTimeout - 0
  <1>1. Cardinality(S) \in Nat /\ Cardinality(S \ {m}) = Cardinality(S) - 1
    BY BatchSize
  <1>2. Cardinality(S \ {m}) * SendTimeout = Cardinality(S) * SendTimeout - SendTimeout
    BY <1>1, OnePostLess, WebhookAssumption
  <1>3. Cardinality(S) * SendTimeout \in Nat
    BY <1>1, WebhookAssumption
  <1> QED  BY <1>2, <1>3, WebhookAssumption

\* A drainer lets go of a row: the row was changed for good, or rescheduled.
LEMMA LetGoKeeps ==
    ASSUME WebhookInv, NEW d \in Drainers, NEW m \in drainers[d].batch,
           NEW r \in WebhookRow, r.state \in {"pending", "gone"},
           r.state = "pending" => rows[m].state = "pending",
           failures[m] >= r.attempts,
           drainers[d].current \in {m, NoMessage},
           rows' = [rows EXCEPT ![m] = r],
           drainers' = [drainers EXCEPT ![d] = LetGo(d, m)],
           UNCHANGED <<received, failures, group>>, crashes' \in Nat
    PROVE  WebhookInv'
  <1>t. m \in Messages
    BY Shape
  <1>1. /\ rows'[m] = r
        /\ \A n \in Messages : n # m => rows'[n] = rows[n]
    BY Shape, <1>t
  <1>2. /\ drainers'[d].batch = drainers[d].batch \ {m}
        /\ drainers'[d].seen = drainers[d].seen
        /\ drainers'[d].current = NoMessage
        /\ drainers'[d].result = "none" /\ drainers'[d].elapsed = 0
        /\ \A e \in Drainers : e # d => drainers'[e] = drainers[e]
    BY Shape DEF LetGo
  <1>3. WebhookTypeOK'
    <2>1. rows' \in [Messages -> WebhookRow]
      BY Shape, <1>t
    <2>2. drainers' \in [Drainers -> DrainerState]
      <3>1. LetGo(d, m) \in DrainerState
        BY Shape, WebhookAssumption DEF DrainerState, LetGo
      <3> QED  BY <3>1, Shape
    <2> QED  BY <2>1, <2>2 DEF WebhookInv, WebhookTypeOK
  <1>4. \A e \in Drainers : e # d => m \notin drainers[e].batch
    BY DEF WebhookInv, LeaseExclusive
  <1>5. LeaseExclusive'
    BY <1>2 DEF WebhookInv, LeaseExclusive
  <1>6. LeaseOutlasts'
    <2>1. ASSUME NEW n \in drainers[d].batch \ {m}, rows[n].state = "pending"
          PROVE  rows[n].wait > Cardinality(drainers[d].batch \ {m}) * SendTimeout - 0
      <3>1. rows[n].wait > Cardinality(drainers[d].batch) * SendTimeout - drainers[d].elapsed
        BY <2>1 DEF WebhookInv, LeaseOutlasts
      <3> QED  BY <3>1, Shape, BatchShrinks
    <2>2. \A e \in Drainers : \A n \in drainers'[e].batch : n \in Messages /\ n # m
      BY Shape, <1>2, <1>4
    <2> QED  BY <1>1, <1>2, <2>1, <2>2 DEF WebhookInv, LeaseOutlasts
  <1>7. Remembers'
    <2>1. \A e \in Drainers : \A n \in drainers'[e].batch : rows'[n] = rows[n]
      BY Shape, <1>1, <1>2, <1>4
    <2>2. Remembers
      BY DEF WebhookInv
    <2>3. ASSUME NEW e \in Drainers, NEW n \in drainers'[e].batch
          PROVE  n \in drainers[e].batch /\ drainers'[e].seen = drainers[e].seen
      BY <1>2
    <2>4. \A e \in Drainers : \A n \in drainers'[e].batch :
                /\ rows'[n].state # "absent"
                /\ rows'[n].state = "pending" => drainers'[e].seen[n] = rows'[n].attempts
      <3> SUFFICES ASSUME NEW e \in Drainers, NEW n \in drainers'[e].batch
                   PROVE  /\ rows'[n].state # "absent"
                          /\ rows'[n].state = "pending"
                                => drainers'[e].seen[n] = rows'[n].attempts
        OBVIOUS
      <3>1. n \in drainers[e].batch /\ drainers'[e].seen = drainers[e].seen
            /\ rows'[n] = rows[n]
        BY <2>1, <2>3
      <3>2. /\ rows[n].state # "absent"
            /\ rows[n].state = "pending" => drainers[e].seen[n] = rows[n].attempts
        BY <2>2, <3>1 DEF Remembers
      <3> QED  BY <3>1, <3>2
    <2> QED  BY <1>2, <2>2, <2>4 DEF Remembers
  <1>8. ResultsTrue'
    <2>1. ResultsTrue
      BY DEF WebhookInv
    <2>2. \A n \in Messages : failures'[n] >= rows'[n].attempts
      BY <1>1, <2>1 DEF ResultsTrue
    <2>3. \A n \in Messages : group' = "deleted" => rows'[n].state # "pending"
      BY <1>1, <1>t, <2>1 DEF ResultsTrue
    <2>4. ASSUME NEW e \in Drainers, drainers'[e].current # NoMessage
          PROVE  /\ drainers'[e] = drainers[e]
                 /\ rows'[drainers[e].current] = rows[drainers[e].current]
      <3>1. e # d /\ drainers'[e] = drainers[e]
        BY <1>2, <2>4
      <3>2. drainers[e].current \in Messages /\ drainers[e].current \in drainers[e].batch
        BY <2>4, <3>1, Shape
      <3> QED  BY <1>1, <1>4, <3>1, <3>2
    <2> QED  BY <2>1, <2>2, <2>3, <2>4 DEF ResultsTrue
  <1> QED  BY <1>3, <1>5, <1>6, <1>7, <1>8 DEF WebhookInv

\* A malformed row is let go of as gone.
LEMMA DropKeeps ==
    ASSUME WebhookInv, NEW d \in Drainers, NEW m \in Messages, Drop(d, m)
    PROVE  WebhookInv'
  <1> DEFINE r == [rows[m] EXCEPT !.state = "gone"]
  <1>1. /\ m \in drainers[d].batch /\ drainers[d].current = NoMessage
        /\ rows' = [rows EXCEPT ![m].state = "gone"]
        /\ drainers' = [drainers EXCEPT ![d] = LetGo(d, m)]
        /\ UNCHANGED <<received, failures, group>>
        /\ crashes' \in Nat
    BY DEF Drop, WebhookInv, WebhookTypeOK
  <1>2. r \in WebhookRow /\ r.state = "gone" /\ r.attempts = rows[m].attempts
    BY Shape DEF WebhookRow
  <1>3. rows' = [rows EXCEPT ![m] = r]
    BY <1>1, Shape
  <1>4. failures[m] >= r.attempts
    BY <1>2 DEF WebhookInv, ResultsTrue
  <1> HIDE DEF r
  <1> QED  BY <1>1, <1>2, <1>3, <1>4, LetGoKeeps

\* A malformed row whose DELETE failed is let go of as it is.
LEMMA DropFailsKeeps ==
    ASSUME WebhookInv, NEW d \in Drainers, NEW m \in Messages, DropFails(d, m)
    PROVE  WebhookInv'
  <1>1. /\ m \in drainers[d].batch /\ drainers[d].current = NoMessage
        /\ drainers' = [drainers EXCEPT ![d] = LetGo(d, m)]
        /\ UNCHANGED <<rows, received, failures, group>>
        /\ crashes' \in Nat
    BY DEF DropFails, WebhookInv, WebhookTypeOK
  <1>2. rows[m] \in WebhookRow /\ rows' = [rows EXCEPT ![m] = rows[m]]
    BY <1>1, Shape
  <1>3. rows[m].state \in {"pending", "gone"}
    BY <1>1, <1>2 DEF WebhookInv, Remembers, WebhookRow
  <1>4. failures[m] >= rows[m].attempts
    BY DEF WebhookInv, ResultsTrue
  <1> QED  BY <1>1, <1>2, <1>3, <1>4, LetGoKeeps

\* A delivered or exhausted row is let go of as gone, any other as rescheduled.
LEMMA FinishKeeps ==
    ASSUME WebhookInv, NEW d \in Drainers, Finish(d)
    PROVE  WebhookInv'
  <1> DEFINE m == drainers[d].current
             n == drainers[d].seen[m] + 1
             r == IF rows[m].state # "pending" THEN rows[m]
                  ELSE IF drainers[d].result = "ok" \/ GivesUp(n)
                       THEN [rows[m] EXCEPT !.state = "gone"]
                       ELSE [rows[m] EXCEPT !.attempts = n, !.wait = Backoff(n)]
  <1>1. /\ m # NoMessage /\ drainers[d].result # "none"
        /\ rows' = [rows EXCEPT ![m] = r]
        /\ drainers' = [drainers EXCEPT ![d] = LetGo(d, m)]
        /\ UNCHANGED <<received, failures, group>>
        /\ crashes' \in Nat
    BY DEF Finish, WebhookInv, WebhookTypeOK
  <1>2. m \in drainers[d].batch /\ m \in Messages
    BY <1>1, Shape
  <1>3. rows[m].state # "absent" /\ rows[m] \in WebhookRow /\ failures[m] >= rows[m].attempts
    BY <1>2, Shape DEF WebhookInv, Remembers, ResultsTrue
  <1>4. CASE rows[m].state # "pending"
    <2>1. r = rows[m] /\ r \in WebhookRow /\ r.state = "gone" /\ failures[m] >= r.attempts
      BY <1>3, <1>4 DEF WebhookRow
    <2> HIDE DEF r
    <2> QED  BY <1>1, <1>2, <2>1, LetGoKeeps
  <1>5. CASE rows[m].state = "pending" /\ (drainers[d].result = "ok" \/ GivesUp(n))
    <2>1. r = [rows[m] EXCEPT !.state = "gone"]
      BY <1>5
    <2>2. r \in WebhookRow /\ r.state = "gone" /\ failures[m] >= r.attempts
      BY <1>3, <2>1 DEF WebhookRow
    <2> HIDE DEF r
    <2> QED  BY <1>1, <1>2, <2>2, LetGoKeeps
  <1>6. CASE rows[m].state = "pending" /\ ~(drainers[d].result = "ok" \/ GivesUp(n))
    <2>1. n = rows[m].attempts + 1
      BY <1>2, <1>6 DEF WebhookInv, Remembers
    <2>2. drainers[d].result = "err"
      BY <1>1, <1>6 DEF WebhookInv, WebhookTypeOK, DrainerState
    <2>3. failures[m] > rows[m].attempts
      BY <1>1, <1>6, <2>2 DEF WebhookInv, ResultsTrue
    <2>4. n \in 0 .. MaxAttempts - 1 /\ failures[m] >= n
      BY <1>2, <1>6, <2>1, <2>3, Shape, WebhookAssumption DEF GivesUp
    <2>5. Backoff(n) \in Nat
      BY <2>4, BackoffType
    <2>6. r = [rows[m] EXCEPT !.attempts = n, !.wait = Backoff(n)]
      BY <1>6
    <2>7. r \in WebhookRow /\ r.state = "pending" /\ r.attempts = n
      BY <1>3, <1>6, <2>4, <2>5, <2>6 DEF WebhookRow
    <2> HIDE DEF r, n
    <2> QED  BY <1>1, <1>2, <1>6, <2>4, <2>7, LetGoKeeps
  <1> QED  BY <1>4, <1>5, <1>6

\* A drainer that starts a post, gets its answer or dies keeps or loses its batch;
\* the table does not change.
LEMMA DrainerOnlyKeeps ==
    ASSUME WebhookInv, NEW d \in Drainers, NEW x \in DrainerState,
           drainers' = [drainers EXCEPT ![d] = x],
           x.batch = drainers[d].batch \/ x.batch = {},
           x.batch # {} => x.seen = drainers[d].seen /\ x.elapsed = drainers[d].elapsed,
           x.current = NoMessage => x.elapsed = 0 /\ x.result = "none",
           x.current # NoMessage => x.current \in x.batch \ Malformed,
           \A m \in Messages : failures'[m] >= failures[m],
           failures' \in [Messages -> Nat],
           received \subseteq received', received' \subseteq Messages,
           x.current # NoMessage /\ rows[x.current].state = "pending" =>
                /\ x.result = "ok" => x.current \in received' \cup Unwanted
                /\ x.result = "err" => failures'[x.current] > rows[x.current].attempts,
           crashes' \in Nat, UNCHANGED <<rows, group>>
    PROVE  WebhookInv'
  <1>1. drainers'[d] = x /\ \A e \in Drainers : e # d => drainers'[e] = drainers[e]
    BY Shape
  <1>2. WebhookTypeOK'
    BY Shape DEF WebhookInv, WebhookTypeOK
  <1>3. LeaseExclusive'
    BY <1>1 DEF WebhookInv, LeaseExclusive
  <1>4. LeaseOutlasts'
    <2>1. ASSUME NEW m \in x.batch
          PROVE  x.batch = drainers[d].batch /\ x.elapsed = drainers[d].elapsed
      BY <2>1
    <2> QED  BY <1>1, <2>1 DEF WebhookInv, LeaseOutlasts
  <1>5. Remembers'
    <2>1. Remembers
      BY DEF WebhookInv
    <2>2. ASSUME NEW m \in x.batch
          PROVE  m \in drainers[d].batch /\ x.seen = drainers[d].seen
      BY <2>2
    <2>3. ASSUME NEW m \in x.batch
          PROVE  /\ rows[m].state # "absent"
                 /\ rows[m].state = "pending" => x.seen[m] = rows[m].attempts
      BY <2>1, <2>2 DEF Remembers
    <2> QED  BY <1>1, <2>1, <2>3 DEF Remembers
  <1>6. ResultsTrue'
    <2>1. ResultsTrue
      BY DEF WebhookInv
    <2>2. \A m \in Messages : failures'[m] >= rows'[m].attempts
      BY <2>1, Shape DEF ResultsTrue
    <2>3. \A m \in Messages : group' = "deleted" => rows'[m].state # "pending"
      BY <2>1 DEF ResultsTrue
    <2>4. ASSUME NEW e \in Drainers, e # d, drainers[e].current # NoMessage,
                 rows[drainers[e].current].state = "pending"
          PROVE  /\ drainers[e].result = "ok" =>
                        drainers[e].current \in received' \cup Unwanted
                 /\ drainers[e].result = "err" =>
                        failures'[drainers[e].current] > rows[drainers[e].current].attempts
      BY <2>1, <2>4, Shape DEF ResultsTrue
    <2> QED  BY <1>1, <2>2, <2>3, <2>4 DEF ResultsTrue
  <1> QED  BY <1>2, <1>3, <1>4, <1>5, <1>6 DEF WebhookInv

\* dispatch_webhook starts: nothing is known of its result.
LEMMA SendKeeps ==
    ASSUME WebhookInv, NEW d \in Drainers, NEW m \in Messages, Send(d, m)
    PROVE  WebhookInv'
  <1> DEFINE x == [drainers[d] EXCEPT !.current = m]
  <1>1. /\ drainers[d].current = NoMessage /\ m \in drainers[d].batch \ Malformed
        /\ UNCHANGED <<rows, received, failures, group, crashes>>
    BY DEF Send
  <1>2. drainers' = [drainers EXCEPT ![d] = x]
    BY Shape DEF Send
  <1>3. /\ x \in DrainerState /\ x.batch = drainers[d].batch /\ x.seen = drainers[d].seen
        /\ x.current = m /\ x.elapsed = drainers[d].elapsed
        /\ x.result = drainers[d].result
    BY Shape, WebhookAssumption DEF DrainerState
  <1>4. drainers[d].elapsed = 0 /\ drainers[d].result = "none"
    BY <1>1 DEF WebhookInv, Remembers
  <1>5. m # NoMessage /\ crashes' \in Nat
    BY <1>1, WebhookAssumption DEF WebhookInv, WebhookTypeOK
  <1>6. failures' \in [Messages -> Nat] /\ received' \subseteq Messages
        /\ \A n \in Messages : failures'[n] >= failures[n]
    BY <1>1, Shape
  <1> HIDE DEF x
  <1> QED  BY <1>1, <1>2, <1>3, <1>4, <1>5, <1>6, DrainerOnlyKeeps

\* dispatch_webhook returns: its result is what happened.
LEMMA AnsweredKeeps ==
    ASSUME WebhookInv, NEW d \in Drainers, Answered(d)
    PROVE  WebhookInv'
  <1> DEFINE m == drainers[d].current
  <1>1. m # NoMessage /\ UNCHANGED <<rows, group, crashes>>
    BY DEF Answered
  <1>2. m \in drainers[d].batch \ Malformed /\ m \in Messages /\ crashes' \in Nat
    BY <1>1, Shape DEF WebhookInv, WebhookTypeOK
  <1>3. ASSUME NEW v \in {"ok", "err"}
        PROVE  LET x == [drainers[d] EXCEPT !.result = v] IN
               /\ x \in DrainerState /\ x.batch = drainers[d].batch /\ x.seen = drainers[d].seen
               /\ x.current = m /\ x.elapsed = drainers[d].elapsed /\ x.result = v
               /\ [drainers EXCEPT ![d].result = v] = [drainers EXCEPT ![d] = x]
    BY Shape DEF DrainerState
  <1>4. failures[m] >= rows[m].attempts /\ (group = "deleted" => rows[m].state # "pending")
    BY <1>2 DEF WebhookInv, ResultsTrue
  <1>5. CASE /\ m \in Unwanted \/ group = "deleted"
             /\ drainers' = [drainers EXCEPT ![d].result = "ok"]
             /\ UNCHANGED <<received, failures>>
    <2>1. failures' \in [Messages -> Nat] /\ received' \subseteq Messages
          /\ \A n \in Messages : failures'[n] >= failures[n]
      BY <1>5, Shape
    <2> QED  BY <1>1, <1>2, <1>3, <1>4, <1>5, <2>1, DrainerOnlyKeeps
  <1>6. CASE /\ m \notin Unwanted
             /\ drainers' = [drainers EXCEPT ![d].result = "ok"]
             /\ received' = received \cup {m}
             /\ UNCHANGED failures
    <2>1. failures' \in [Messages -> Nat] /\ received' \subseteq Messages
          /\ \A n \in Messages : failures'[n] >= failures[n]
      BY <1>2, <1>6, Shape
    <2>2. received \subseteq received' /\ m \in received'
      BY <1>6
    <2> DEFINE x == [drainers[d] EXCEPT !.result = "ok"]
    <2>3. /\ x \in DrainerState /\ x.batch = drainers[d].batch /\ x.seen = drainers[d].seen
          /\ x.current = m /\ x.elapsed = drainers[d].elapsed /\ x.result = "ok"
          /\ drainers' = [drainers EXCEPT ![d] = x]
      BY <1>3, <1>6
    <2> HIDE DEF x, m
    <2> QED  BY <1>1, <1>2, <2>1, <2>2, <2>3, DrainerOnlyKeeps
  <1>7. CASE /\ drainers' = [drainers EXCEPT ![d].result = "err"]
             /\ received' \in {received, received \cup ({m} \ Unwanted)}
             /\ failures' = [failures EXCEPT ![m] = @ + 1]
    <2>1. failures' \in [Messages -> Nat] /\ received' \subseteq Messages
          /\ received \subseteq received'
          /\ \A n \in Messages : failures'[n] >= failures[n]
      BY <1>2, <1>7, Shape
    <2>2. failures'[m] > rows[m].attempts
      BY <1>2, <1>4, <1>7, Shape
    <2> QED  BY <1>1, <1>2, <1>3, <1>7, <2>1, <2>2, DrainerOnlyKeeps
  <1> QED  BY <1>5, <1>6, <1>7 DEF Answered

\* A crash forgets the batch; the rows stay leased.
LEMMA CrashKeeps ==
    ASSUME WebhookInv, NEW d \in Drainers, Crash(d)
    PROVE  WebhookInv'
  <1>1. /\ drainers' = [drainers EXCEPT ![d] = Resting]
        /\ UNCHANGED <<rows, received, failures, group>>
        /\ crashes' \in Nat
    BY DEF Crash, WebhookInv, WebhookTypeOK
  <1>2. /\ Resting \in DrainerState /\ Resting.batch = {} /\ Resting.current = NoMessage
        /\ Resting.elapsed = 0 /\ Resting.result = "none"
    BY WebhookAssumption DEF Resting, DrainerState
  <1>3. failures' \in [Messages -> Nat] /\ received' \subseteq Messages
        /\ \A n \in Messages : failures'[n] >= failures[n]
    BY <1>1, Shape
  <1> QED  BY <1>1, <1>2, <1>3, DrainerOnlyKeeps

\* Deleting the group leaves no pending row.
LEMMA DeleteGroupKeeps ==
    ASSUME WebhookInv, DeleteGroup
    PROVE  WebhookInv'
  <1>1. /\ rows' = [m \in Messages |-> IF rows[m].state = "pending"
                                       THEN [rows[m] EXCEPT !.state = "gone"] ELSE rows[m]]
        /\ group' = "deleted"
        /\ UNCHANGED <<drainers, received, failures, crashes>>
    BY DEF DeleteGroup
  <1>2. \A m \in Messages : /\ rows'[m] \in WebhookRow /\ rows'[m].state # "pending"
                            /\ rows'[m].attempts = rows[m].attempts
                            /\ rows'[m].state = "absent" => rows[m].state = "absent"
    BY <1>1, Shape DEF WebhookRow
  <1>3. WebhookTypeOK'
    <2>1. rows' \in [Messages -> WebhookRow]
      BY <1>1, <1>2
    <2> QED  BY <1>1, <2>1 DEF WebhookInv, WebhookTypeOK
  <1>4. \A d \in Drainers : drainers[d].batch \subseteq Messages
    BY Shape
  <1>5. LeaseExclusive' /\ LeaseOutlasts' /\ Remembers'
    BY <1>1, <1>2, <1>4 DEF WebhookInv, LeaseExclusive, LeaseOutlasts, Remembers
  <1>6. ResultsTrue'
    <2>1. \A d \in Drainers : drainers[d].current # NoMessage => drainers[d].current \in Messages
      BY Shape
    <2>2. \A m \in Messages : failures'[m] >= rows'[m].attempts
      BY <1>1, <1>2 DEF WebhookInv, ResultsTrue
    <2>3. \A d \in Drainers : drainers'[d].current # NoMessage
                                => rows'[drainers'[d].current].state # "pending"
      BY <1>1, <1>2, <2>1
    <2> QED  BY <1>2, <2>2, <2>3 DEF ResultsTrue
  <1> QED  BY <1>3, <1>5, <1>6 DEF WebhookInv

\* A tick takes one off the lease of every held row, and one off what the posts
\* left in its batch can take.
LEMMA TickKeeps ==
    ASSUME WebhookInv, Tick
    PROVE  WebhookInv'
  <1>1. /\ \A d \in Drainers : drainers[d].batch = {}
                                \/ (Posting(d) /\ drainers[d].elapsed < SendTimeout)
        /\ rows' = [m \in Messages |->
                IF rows[m].state = "pending" /\ rows[m].wait > 0
                THEN [rows[m] EXCEPT !.wait = @ - 1] ELSE rows[m]]
        /\ drainers' = [d \in Drainers |->
                IF Posting(d) THEN [drainers[d] EXCEPT !.elapsed = @ + 1] ELSE drainers[d]]
        /\ UNCHANGED <<received, failures, group, crashes>>
    BY DEF Tick
  <1>2. \A m \in Messages : /\ rows'[m] \in WebhookRow
                            /\ rows'[m].state = rows[m].state
                            /\ rows'[m].attempts = rows[m].attempts
                            /\ rows[m].wait - 1 <= rows'[m].wait
    BY <1>1, Shape DEF WebhookRow
  <1>3. ASSUME NEW d \in Drainers
        PROVE  /\ drainers'[d] \in DrainerState
               /\ drainers'[d].batch = drainers[d].batch
               /\ drainers'[d].seen = drainers[d].seen
               /\ drainers'[d].current = drainers[d].current
               /\ drainers'[d].result = drainers[d].result
               /\ drainers[d].batch # {} => drainers'[d].elapsed = drainers[d].elapsed + 1
               /\ drainers[d].current = NoMessage => drainers'[d].elapsed = drainers[d].elapsed
    <2>1. drainers[d] \in DrainerState
      BY Shape
    <2>2. CASE Posting(d)
      <3>1. drainers[d].batch # {} /\ drainers[d].current # NoMessage
        BY <2>2, Shape DEF Posting
      <3>2. drainers[d].elapsed < SendTimeout /\ drainers[d].elapsed \in 0 .. SendTimeout
        BY <1>1, <3>1, Shape
      <3>3. drainers[d].elapsed + 1 \in 0 .. SendTimeout
        BY <3>2, WebhookAssumption
      <3>4. drainers'[d] = [drainers[d] EXCEPT !.elapsed = drainers[d].elapsed + 1]
        BY <1>1, <2>2
      <3> QED  BY <2>1, <3>1, <3>3, <3>4 DEF DrainerState
    <2>3. CASE ~Posting(d)
      BY <1>1, <2>1, <2>3
    <2> QED  BY <2>2, <2>3
  <1>4. WebhookTypeOK'
    <2>1. rows' \in [Messages -> WebhookRow]
      BY <1>1, <1>2
    <2>2. drainers' \in [Drainers -> DrainerState]
      BY <1>1, <1>3
    <2> QED  BY <1>1, <2>1, <2>2 DEF WebhookInv, WebhookTypeOK
  <1>5. LeaseExclusive'
    BY <1>3 DEF WebhookInv, LeaseExclusive
  <1>6. LeaseOutlasts'
    <2> SUFFICES ASSUME NEW d \in Drainers, NEW m \in drainers[d].batch,
                        rows[m].state = "pending"
                 PROVE  rows'[m].wait > Cardinality(drainers[d].batch) * SendTimeout
                                            - (drainers[d].elapsed + 1)
      <3>1. \A d \in Drainers : drainers[d].batch \subseteq Messages
        BY Shape
      <3> QED  BY <1>2, <1>3, <3>1 DEF LeaseOutlasts
    <2>1. rows[m].wait > Cardinality(drainers[d].batch) * SendTimeout - drainers[d].elapsed
      BY DEF WebhookInv, LeaseOutlasts
    <2>2. Cardinality(drainers[d].batch) * SendTimeout \in Nat
      BY Shape, BatchSize, WebhookAssumption
    <2>3. /\ m \in Messages /\ rows[m].wait \in Nat
          /\ drainers[d].elapsed \in 0 .. SendTimeout
      BY Shape
    <2>4. rows'[m].wait \in Nat /\ rows[m].wait - 1 <= rows'[m].wait
      BY <1>2, <2>3 DEF WebhookRow
    <2> QED  BY <2>1, <2>2, <2>3, <2>4, WebhookAssumption
  <1>7. Remembers'
    <2>1. Remembers
      BY DEF WebhookInv
    <2>2. \A d \in Drainers : drainers[d].batch \subseteq Messages
      BY Shape
    <2> QED  BY <1>2, <1>3, <2>1, <2>2 DEF Remembers
  <1>8. ResultsTrue'
    <2>1. ResultsTrue
      BY DEF WebhookInv
    <2>2. \A d \in Drainers : drainers[d].current # NoMessage => drainers[d].current \in Messages
      BY Shape
    <2> QED  BY <1>1, <1>2, <1>3, <2>1, <2>2 DEF ResultsTrue
  <1> QED  BY <1>4, <1>5, <1>6, <1>7, <1>8 DEF WebhookInv

\* Every step keeps the invariant.
LEMMA InvNext == WebhookInv /\ [WebhookNext]_webhookVars => WebhookInv'
  <1> SUFFICES ASSUME WebhookInv, [WebhookNext]_webhookVars PROVE WebhookInv'
    OBVIOUS
  <1>1. CASE UNCHANGED webhookVars
    BY <1>1 DEF webhookVars, WebhookInv, WebhookTypeOK, LeaseExclusive, LeaseOutlasts,
                Remembers, ResultsTrue
  <1>2. CASE WebhookNext
    BY <1>2, EnqueueKeeps, LeaseKeeps, DropKeeps, DropFailsKeeps, SendKeeps, AnsweredKeeps,
       FinishKeeps, CrashKeeps, DeleteGroupKeeps, TickKeeps DEF WebhookNext, Drain
  <1> QED  BY <1>1, <1>2

\* The drained table always satisfies the invariant.
THEOREM WebhookInvariant == WebhookSpec => []WebhookInv
  BY InvInit, InvNext, PTL DEF WebhookSpec

\* pending_webhooks and its drainers only ever hold values of their type, whatever
\* fails and however many workers there are.
THEOREM WebhookTypeCorrect == WebhookSpec => []WebhookTypeOK
  <1>1. WebhookInv => WebhookTypeOK
    BY DEF WebhookInv
  <1> QED  BY <1>1, WebhookInvariant, PTL

\* However many workers drain the table and however often they crash, no row is
\* ever being dispatched by two of them: LEASE_SECS does what its comment says.
THEOREM LeaseIsExclusive == WebhookSpec => []LeaseExclusive
  <1>1. WebhookInv => LeaseExclusive
    BY DEF WebhookInv
  <1> QED  BY <1>1, WebhookInvariant, PTL

-----------------------------------------------------------------------------
(* Refinement.                                                             *)

\* The box as the drained table shows it.
shown == [m \in Messages |-> rows[m].state]

\* Taking row m out of the table is Remove(m), if there was a reason to.
LEMMA TakenOut ==
    ASSUME WebhookInv, NEW m \in Messages, NEW r \in WebhookRow,
           rows' = [rows EXCEPT ![m] = r],
           UNCHANGED <<received, failures, group>>,
           \/ r.state = rows[m].state
           \/ /\ rows[m].state = "pending" /\ r.state = "gone"
              /\ \/ m \in received \/ m \in Malformed \cup Unwanted
                 \/ failures[m] >= MaxAttempts
    PROVE  [Box!BoxNext]_(Box!boxVars)
  <1>1. rows'[m] = r /\ \A n \in Messages : n # m => rows'[n] = rows[n]
    BY Shape
  <1>2. CASE r.state = rows[m].state
    <2>1. shown' = shown
      BY <1>1, <1>2 DEF shown
    <2> QED  BY <2>1 DEF shown, Box!boxVars
  <1>3. CASE /\ rows[m].state = "pending" /\ r.state = "gone"
             /\ \/ m \in received \/ m \in Malformed \cup Unwanted
                \/ failures[m] >= MaxAttempts
    <2>0. \A n \in Messages : rows'[n].state = IF n = m THEN "gone" ELSE rows[n].state
      BY <1>1, <1>3
    <2>1. shown' = [shown EXCEPT ![m] = "gone"] /\ shown[m] = "pending"
      BY <1>3, <2>0 DEF shown
    <2>2. Box!Remove(m)
      BY <1>3, <2>1 DEF shown, Box!Remove
    <2> QED  BY <2>2 DEF Box!BoxNext
  <1> QED  BY <1>2, <1>3

\* A step that leaves the table's states and the history alone is a stutter.
LEMMA NothingShown ==
    ASSUME shown' = shown, UNCHANGED <<received, failures, group>>
    PROVE  [Box!BoxNext]_(Box!boxVars)
  BY DEF shown, Box!boxVars

\* Every step of the table is a step of the box or a stutter.
LEMMA StepSimulation ==
    ASSUME WebhookInv, WebhookNext
    PROVE  [Box!BoxNext]_(Box!boxVars)
  <1>1. ASSUME NEW m \in Messages, Enqueue(m)
        PROVE  [Box!BoxNext]_(Box!boxVars)
    <2>1. shown' = [shown EXCEPT ![m] = "pending"] /\ shown[m] = "absent"
      BY <1>1, Shape DEF Enqueue, shown, WebhookRow
    <2>2. Box!Post(m)
      BY <1>1, <2>1 DEF Enqueue, shown, Box!Post
    <2> QED  BY <2>2 DEF Box!BoxNext
  <1>2. ASSUME NEW d \in Drainers, NEW S \in SUBSET Messages, Lease(d, S)
        PROVE  [Box!BoxNext]_(Box!boxVars)
    <2>1. shown' = shown
      BY <1>2, Shape DEF Lease, LeasedRow, shown, WebhookRow
    <2> QED  BY <1>2, <2>1, NothingShown DEF Lease
  <1>3. ASSUME NEW d \in Drainers, NEW m \in Messages, Drop(d, m)
        PROVE  [Box!BoxNext]_(Box!boxVars)
    <2> DEFINE r == [rows[m] EXCEPT !.state = "gone"]
    <2>1. rows' = [rows EXCEPT ![m] = r] /\ m \in Malformed /\ m \in drainers[d].batch
          /\ UNCHANGED <<received, failures, group>>
      BY <1>3, Shape DEF Drop
    <2>2. rows[m].state # "absent"
      BY <2>1 DEF WebhookInv, Remembers
    <2>3. r \in WebhookRow /\ r.state = "gone" /\ rows[m].state \in {"pending", "gone"}
      BY <2>2, Shape DEF WebhookRow
    <2> HIDE DEF r
    <2> QED  BY <2>1, <2>3, TakenOut
  <1>4. ASSUME NEW d \in Drainers, NEW m \in Messages, Send(d, m)
        PROVE  [Box!BoxNext]_(Box!boxVars)
    BY <1>4, NothingShown DEF Send, shown
  <1>5. ASSUME NEW d \in Drainers, Answered(d)
        PROVE  [Box!BoxNext]_(Box!boxVars)
    <2> DEFINE m == drainers[d].current
    <2>1. m # NoMessage /\ UNCHANGED <<rows, group>>
      BY <1>5 DEF Answered
    <2>2. m \in Messages /\ m \in drainers[d].batch \ Malformed
      BY <2>1, Shape
    <2>3. shown' = shown /\ shown[m] # "absent"
      BY <2>1, <2>2 DEF shown, WebhookInv, Remembers
    <2>4. CASE UNCHANGED <<received, failures>>
      BY <2>1, <2>3, <2>4, NothingShown
    <2>5. CASE m \notin Unwanted /\ received' = received \cup {m} /\ UNCHANGED failures
      <3>1. Box!Deliver(m)
        BY <2>1, <2>2, <2>3, <2>5 DEF shown, Box!Deliver
      <3> QED  BY <2>2, <3>1 DEF Box!BoxNext
    <2>6. CASE /\ received' \in {received, received \cup ({m} \ Unwanted)}
               /\ failures' = [failures EXCEPT ![m] = @ + 1]
      <3>1. {m} \ Unwanted = {m} \ (Malformed \cup Unwanted)
        BY <2>2
      <3>2. Box!Fail(m)
        BY <2>1, <2>2, <2>3, <2>6, <3>1 DEF shown, Box!Fail
      <3> QED  BY <2>2, <3>2 DEF Box!BoxNext
    <2> QED  BY <1>5, <2>4, <2>5, <2>6 DEF Answered
  <1>6. ASSUME NEW d \in Drainers, Finish(d)
        PROVE  [Box!BoxNext]_(Box!boxVars)
    <2> DEFINE m == drainers[d].current
               n == drainers[d].seen[m] + 1
               r == IF rows[m].state # "pending" THEN rows[m]
                    ELSE IF drainers[d].result = "ok" \/ GivesUp(n)
                         THEN [rows[m] EXCEPT !.state = "gone"]
                         ELSE [rows[m] EXCEPT !.attempts = n, !.wait = Backoff(n)]
    <2>1. /\ m # NoMessage /\ drainers[d].result # "none"
          /\ rows' = [rows EXCEPT ![m] = r]
          /\ UNCHANGED <<received, failures, group>>
      BY <1>6 DEF Finish
    <2>2. m \in drainers[d].batch /\ m \in Messages
      BY <2>1, Shape
    <2>3. rows' \in [Messages -> WebhookRow]
      BY <1>6, FinishKeeps DEF WebhookInv, WebhookTypeOK
    <2>4. r \in WebhookRow
      <3>1. rows'[m] = r
        BY <2>1, <2>2, Shape
      <3> QED  BY <2>2, <2>3, <3>1
    <2>5. CASE rows[m].state # "pending"
      <3>1. r.state = rows[m].state
        BY <2>5
      <3> HIDE DEF r
      <3> QED  BY <2>1, <2>2, <2>4, <3>1, TakenOut
    <2>6. CASE rows[m].state = "pending" /\ drainers[d].result = "ok"
      <3>1. r.state = "gone" /\ m \in received \cup Unwanted
        BY <2>1, <2>2, <2>6, Shape DEF WebhookInv, ResultsTrue, WebhookRow
      <3> HIDE DEF r
      <3> QED  BY <2>1, <2>2, <2>4, <2>6, <3>1, TakenOut
    <2>7. CASE rows[m].state = "pending" /\ drainers[d].result # "ok" /\ GivesUp(n)
      <3>1. drainers[d].result = "err"
        BY <2>1, <2>7 DEF WebhookInv, WebhookTypeOK, DrainerState
      <3>2. n = rows[m].attempts + 1 /\ failures[m] > rows[m].attempts
        BY <2>1, <2>2, <2>7, <3>1 DEF WebhookInv, Remembers, ResultsTrue
      <3>3. failures[m] >= MaxAttempts
        BY <2>2, <2>7, <3>2, Shape, WebhookAssumption DEF GivesUp
      <3>4. r.state = "gone"
        BY <2>2, <2>7, Shape DEF WebhookRow
      <3> HIDE DEF r
      <3> QED  BY <2>1, <2>2, <2>4, <2>7, <3>3, <3>4, TakenOut
    <2>8. CASE rows[m].state = "pending" /\ drainers[d].result # "ok" /\ ~GivesUp(n)
      <3>1. r.state = rows[m].state
        BY <2>2, <2>8, Shape DEF WebhookRow
      <3> HIDE DEF r
      <3> QED  BY <2>1, <2>2, <2>4, <3>1, TakenOut
    <2> QED  BY <2>5, <2>6, <2>7, <2>8
  <1>7. ASSUME NEW d \in Drainers, Crash(d)
        PROVE  [Box!BoxNext]_(Box!boxVars)
    BY <1>7, NothingShown DEF Crash, shown
  <1>8. ASSUME DeleteGroup
        PROVE  [Box!BoxNext]_(Box!boxVars)
    <2>1. \A m \in Messages :
            rows'[m].state = IF rows[m].state = "pending" THEN "gone" ELSE rows[m].state
      BY <1>8, Shape DEF DeleteGroup, WebhookRow
    <2>2. shown' = [m \in Messages |-> IF shown[m] = "pending" THEN "gone" ELSE shown[m]]
      BY <2>1 DEF shown
    <2>3. Box!Close
      BY <1>8, <2>2 DEF DeleteGroup, shown, Box!Close
    <2> QED  BY <2>3 DEF Box!BoxNext
  <1>9. ASSUME Tick
        PROVE  [Box!BoxNext]_(Box!boxVars)
    <2>1. shown' = shown
      BY <1>9, Shape DEF Tick, shown, WebhookRow
    <2> QED  BY <1>9, <2>1, NothingShown DEF Tick
  <1>10. ASSUME NEW d \in Drainers, NEW m \in Messages, DropFails(d, m)
         PROVE  [Box!BoxNext]_(Box!boxVars)
    BY <1>10, NothingShown DEF DropFails, shown
  <1> QED
    BY <1>1, <1>2, <1>3, <1>4, <1>5, <1>6, <1>7, <1>8, <1>9, <1>10
    DEF WebhookNext, Drain

\* The drained table implements the box: whatever the number of rows, workers and
\* crashes, a posted message leaves it only for one of the reasons Outbox gives.
THEOREM TableImplementsOutbox == WebhookSpec => ImplementsOutbox
  <1>1. WebhookInit => Box!BoxInit
    BY DEF WebhookInit, Box!BoxInit, NoRow
  <1>2. WebhookInv /\ [WebhookNext]_webhookVars => [Box!BoxNext]_(Box!boxVars)
    <2>1. UNCHANGED webhookVars => UNCHANGED Box!boxVars
      BY DEF webhookVars, Box!boxVars
    <2> QED  BY <2>1, StepSimulation
  <1> QED
    BY <1>1, <1>2, WebhookInvariant, PTL DEF WebhookSpec, ImplementsOutbox, Box!BoxSpec

=============================================================================
