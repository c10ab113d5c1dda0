--------------------------- MODULE CitadelsProofs ---------------------------
(* Proofs about Citadels, for any characters, scopes and thresholds, and     *)
(* whatever else is charged to the budget.                                   *)
EXTENDS Citadels, FiniteSetTheorems, SequenceTheorems, TLAPS

-----------------------------------------------------------------------------
(* The invariant, by parts.                                                  *)

MarketRow == [known : BOOLEAN, public : BOOLEAN, missing : 0 .. MissingThreshold,
              details : {"none", "fresh", "stale"}, orders : {"fresh", "stale"},
              paused : BOOLEAN]
Task == [todo : Seq(Chars), denied : BOOLEAN, transient : BOOLEAN]

(* The columns of the tables and the state of the jobs. *)
CitadelRows ==
    /\ row \in MarketRow /\ tracked \in BOOLEAN
    /\ status \in [Dims -> [Chars -> {"unknown", "ok", "forbidden", "retry"}]]
    /\ checked \in [Dims -> SUBSET (Chars \X Chars)]
    /\ task \in [Dims -> Task \cup {None}]
    /\ answer \in BOOLEAN \cup {None} /\ listed \in BOOLEAN

TrackedInv == tracked => row.known /\ row.details # "none"
CheckedInv ==
    \A d \in Dims, c \in Chars : (status[d][c] = "unknown") <=> <<c, c>> \notin checked[d]

(* The counter of a public structure is the number of answers in a row       *)
(* without it, and has not reached the threshold.                            *)
PublicInv ==
    /\ absent \in Nat
    /\ row.public => row.missing = absent /\ absent < MissingThreshold

GaugeInv == remaining \in 0 .. Ceiling

CitadelsInductive == CitadelRows /\ TrackedInv /\ CheckedInv /\ PublicInv /\ GaugeInv

-----------------------------------------------------------------------------
(* Candidates.                                                               *)

\* There are finitely many characters.
LEMMA CharsFinite == IsFiniteSet(Chars)
<1>1. Characters \in [1 .. Len(Characters) -> Chars] /\ Len(Characters) \in Nat
    BY CitadelsAssumption, LenProperties
<1>2. IsFiniteSet(1 .. Len(Characters))
    BY <1>1, FS_Interval
<1>3. \A c \in Chars : \E i \in 1 .. Len(Characters) : Characters[i] = c
    BY <1>1 DEF Chars, ToSet
<1>4. Characters \in Surjection(1 .. Len(Characters), Chars)
    BY <1>1, <1>3 DEF Surjection
<1> QED
    BY <1>2, <1>4, FS_Surjection

\* The candidates of a refresh are characters.
LEMMA CandidatesType ==
    ASSUME NEW d \in Dims, NEW s \in Candidates(d)
    PROVE  s \in Seq(Chars)
<1> DEFINE n == Cardinality(Eligible(d))
<1>1. Eligible(d) \subseteq Chars
    BY CitadelsAssumption DEF Eligible
<1>2. n \in Nat
    BY <1>1, CharsFinite, FS_Subset, FS_CardinalityType
<1>3. PICK t \in SetToSeqs(Eligible(d)) : s = Limit(t)
    BY DEF Candidates, Ranked
<1>4. t \in [1 .. n -> Eligible(d)]
    BY DEF SetToSeqs
<1>5. t \in Seq(Chars) /\ Len(t) = n
    BY <1>1, <1>2, <1>4
<1> DEFINE m == IF n < Tried THEN n ELSE Tried
<1>6. m \in Nat /\ m <= n
    BY <1>2, CitadelsAssumption
<1>7. s = SubSeq(t, 1, m)
    BY <1>3, <1>5 DEF Limit
<1>8. \A i \in 1 .. m : t[i] \in Chars
    BY <1>1, <1>2, <1>4, <1>6
<1> HIDE DEF m
<1> QED
    BY <1>6, <1>7, <1>8, SubSeqProperties
-----------------------------------------------------------------------------
(* Every action preserves the invariant.                                     *)

\* An empty database and a full gauge satisfy the invariant.
LEMMA InitHolds == CitadelsInit => CitadelsInductive
<1> SUFFICES ASSUME CitadelsInit PROVE CitadelsInductive
    OBVIOUS
<1> USE CitadelsAssumption DEF CitadelsInit
<1>1. CitadelRows
    <2>1. row \in MarketRow
        BY DEF MarketRow
    <2>2. /\ status \in [Dims -> [Chars -> {"unknown", "ok", "forbidden", "retry"}]]
          /\ checked \in [Dims -> SUBSET (Chars \X Chars)]
          /\ task \in [Dims -> Task \cup {None}]
        OBVIOUS
    <2> QED  BY <2>1, <2>2 DEF CitadelRows
<1>2. TrackedInv /\ CheckedInv /\ PublicInv
    BY DEF TrackedInv, CheckedInv, PublicInv
<1>3. GaugeInv
    BY DEF GaugeInv
<1> QED
    BY <1>1, <1>2, <1>3 DEF CitadelsInductive

\* A charge does not take the gauge below zero.
LEMMA ChargeKeepsGauge ==
    ASSUME GaugeInv, RecordNon2xx \/ UNCHANGED remaining
    PROVE  GaugeInv'
BY CitadelsAssumption DEF GaugeInv, RecordNon2xx

\* A structure that is seen or missed keeps a well-typed row and a true counter.
LEMMA DiscoverKeeps ==
    ASSUME CitadelsInductive, Discover
    PROVE  CitadelsInductive'
<1> USE CitadelsAssumption DEF CitadelsInductive
<1>1. answer \in BOOLEAN /\ answer' = None
    BY DEF Discover, CitadelRows
<1>2. CASE answer
    <2>1. row' = Seen /\ absent' = 0
        BY <1>2 DEF Discover
    <2>2. /\ row' \in MarketRow /\ row'.known /\ row'.details = row.details
          /\ row'.missing = 0
        <3>1. 0 \in 0 .. MissingThreshold /\ row \in MarketRow
            BY DEF CitadelRows
        <3>2. row' = [known |-> TRUE, public |-> TRUE, missing |-> 0, details |-> row.details,
                      orders |-> row.orders, paused |-> row.paused]
            BY <2>1, <3>1 DEF Seen, MarketRow
        <3> QED  BY <3>1, <3>2 DEF MarketRow
    <2>3. CitadelRows' /\ TrackedInv'
        BY <1>1, <2>2 DEF Discover, CitadelRows, TrackedInv, esi, access
    <2>4. PublicInv'
        BY <2>1, <2>2 DEF PublicInv
    <2>5. CheckedInv' /\ GaugeInv'
        BY DEF Discover, CheckedInv, GaugeInv, access
    <2> QED  BY <2>3, <2>4, <2>5
<1>3. CASE ~answer
    <2>1. row' = NotSeen /\ absent' = IF absent < MissingThreshold THEN absent + 1 ELSE absent
        BY <1>3 DEF Discover
    <2>2. CASE ~row.public
        BY <1>1, <2>1, <2>2 DEF NotSeen, Discover, CitadelRows, TrackedInv, PublicInv, CheckedInv,
                                GaugeInv, esi, access, MarketRow
    <2>3. CASE row.public
        <3>1. /\ row' = [row EXCEPT !.missing = @ + 1,
                                    !.public = row.missing + 1 < MissingThreshold]
              /\ row.missing = absent /\ absent < MissingThreshold /\ absent' = absent + 1
            BY <2>1, <2>3 DEF NotSeen, PublicInv
        <3>2. /\ row' \in MarketRow /\ row'.known = row.known /\ row'.details = row.details
              /\ row'.missing = absent' /\ row'.public = (absent' < MissingThreshold)
            <4>1. row \in MarketRow /\ absent' \in 0 .. MissingThreshold
                BY <3>1 DEF CitadelRows, PublicInv
            <4>2. row' = [known |-> row.known, public |-> absent' < MissingThreshold,
                          missing |-> absent', details |-> row.details,
                          orders |-> row.orders, paused |-> row.paused]
                BY <3>1, <4>1 DEF MarketRow
            <4>3. (absent' < MissingThreshold) \in BOOLEAN
                OBVIOUS
            <4> QED  BY <4>1, <4>2, <4>3 DEF MarketRow
        <3>3. CitadelRows' /\ TrackedInv'
            BY <1>1, <3>2 DEF Discover, CitadelRows, TrackedInv, esi, access
        <3>4. PublicInv'
            <4>1. absent' \in Nat
                BY <3>1 DEF PublicInv
            <4>2. row'.public => absent' < MissingThreshold
                BY <3>2
            <4> QED  BY <3>2, <4>1, <4>2 DEF PublicInv
        <3>5. CheckedInv' /\ GaugeInv'
            BY DEF Discover, CheckedInv, GaugeInv, access
        <3> QED  BY <3>3, <3>4, <3>5
    <2> QED  BY <2>2, <2>3
<1> QED
    BY <1>1, <1>2, <1>3

\* The gauge is refilled, or charged for another structure or another job.
LEMMA GaugeKeeps ==
    ASSUME CitadelsInductive, Reset \/ OthersFail
    PROVE  CitadelsInductive'
<1> USE DEF CitadelsInductive
<1>1. CitadelRows' /\ TrackedInv' /\ CheckedInv' /\ PublicInv'
    BY DEF Reset, OthersFail, CitadelRows, TrackedInv, CheckedInv, PublicInv, esi, access
<1>2. ASSUME Reset PROVE GaugeInv'
    BY <1>2, CitadelsAssumption DEF Reset, GaugeInv
<1>3. ASSUME OthersFail PROVE GaugeInv'
    BY <1>3, ChargeKeepsGauge DEF OthersFail
<1> QED
    BY <1>1, <1>2, <1>3

\* The steps of EVE, of the group's owner and of time leave the budget alone; the
\* row of the structure keeps its type, its visibility and its counter.
LEMMA QuietKeeps ==
    ASSUME CitadelsInductive,
           \/ ListingChanges \/ (\E c \in Chars : DockingChanges(c)) \/ Track \/ Untrack
           \/ Resume \/ AgeOrders \/ AgeDetails
    PROVE  CitadelsInductive'
<1> USE DEF CitadelsInductive
<1>1. /\ UNCHANGED <<access, task, answer, absent, remaining>> /\ listed' \in BOOLEAN
      /\ tracked' \in BOOLEAN
    BY DEF ListingChanges, DockingChanges, Track, Untrack, Resume, AgeOrders, AgeDetails, Elapse,
           CitadelRows, esi
<1>2. /\ row' \in MarketRow /\ row'.public = row.public /\ row'.missing = row.missing
      /\ row'.known = row.known /\ (row.details # "none" => row'.details # "none")
    BY DEF ListingChanges, DockingChanges, Track, Untrack, Resume, AgeOrders, AgeDetails, Elapse,
           CitadelRows, MarketRow
<1>3. CitadelRows' /\ CheckedInv' /\ PublicInv' /\ GaugeInv'
    BY <1>1, <1>2 DEF CitadelRows, CheckedInv, PublicInv, GaugeInv, access
<1>4. tracked' => row.known /\ row.details # "none"
    BY DEF ListingChanges, DockingChanges, Track, Untrack, Resume, AgeOrders, AgeDetails, Elapse,
           TrackedInv
<1> QED
    BY <1>2, <1>3, <1>4 DEF TrackedInv

\* A backoff passes.
LEMMA CoolKeeps ==
    ASSUME CitadelsInductive, NEW d \in Dims, NEW c \in Chars, Cool(d, c)
    PROVE  CitadelsInductive'
<1> USE DEF CitadelsInductive
<1>1. CitadelRows' /\ TrackedInv' /\ PublicInv'
    BY DEF Cool, CitadelRows, TrackedInv, PublicInv, esi
<1>2. CheckedInv'
    BY DEF Cool, CitadelRows, CheckedInv
<1>3. GaugeInv'
    BY DEF Cool, GaugeInv
<1> QED
    BY <1>1, <1>2, <1>3

\* The public list is asked for.
LEMMA ListPublicStructuresKeeps ==
    ASSUME CitadelsInductive, ListPublicStructures
    PROVE  CitadelsInductive'
<1> USE CitadelsAssumption DEF CitadelsInductive
<1>1. CitadelRows' /\ TrackedInv' /\ CheckedInv' /\ PublicInv'
    BY DEF ListPublicStructures, CitadelRows, TrackedInv, CheckedInv, PublicInv, esi, access
<1>2. GaugeInv'
    BY ChargeKeepsGauge DEF ListPublicStructures
<1> QED
    BY <1>1, <1>2

\* A structure is put in line, or its candidates are selected.
LEMMA StartKeeps ==
    ASSUME CitadelsInductive, NEW d \in Dims, Tick(d) \/ Start(d)
    PROVE  CitadelsInductive'
<1> USE DEF CitadelsInductive
<1>1. Queued \in Task
    BY DEF Queued, Task
<1>2. task' \in [Dims -> Task \cup {None}]
    <2>1. ASSUME Tick(d) PROVE task' \in [Dims -> Task \cup {None}]
        BY <1>1, <2>1 DEF Tick, CitadelRows
    <2>2. ASSUME Start(d) PROVE task' \in [Dims -> Task \cup {None}]
        <3>1. PICK s \in Candidates(d) :
                  task' = [task EXCEPT ![d] = IF s = <<>> THEN None
                                              ELSE [Queued EXCEPT !.todo = s]]
            BY <2>2 DEF Start
        <3>2. s \in Seq(Chars)
            BY CandidatesType
        <3>3. [Queued EXCEPT !.todo = s] \in Task
            BY <3>2 DEF Queued, Task
        <3> QED  BY <3>1, <3>3 DEF CitadelRows
    <2> QED  BY <2>1, <2>2
<1>3. /\ UNCHANGED <<row, tracked, answer, absent, remaining, listed>>
      /\ status' = status /\ checked' = checked
    BY DEF Tick, Start, esi, access
<1> QED
    BY <1>2, <1>3 DEF CitadelRows, TrackedInv, CheckedInv, PublicInv, GaugeInv

\* The answer for a candidate is written to character_structure_access: it has a
\* status now, and was checked after everyone else.
LEMMA UpsertKeeps ==
    ASSUME CitadelsInductive, NEW d \in Dims, Calling(d), NEW s \in {"ok", "forbidden"},
           UpsertAccess(d, s)
    PROVE  /\ status' \in [Dims -> [Chars -> {"unknown", "ok", "forbidden", "retry"}]]
           /\ checked' \in [Dims -> SUBSET (Chars \X Chars)]
           /\ CheckedInv'
<1> USE DEF CitadelsInductive
<1>1. PICK x : x = Candidate(d)
    OBVIOUS
<1>2. x \in Chars
    BY <1>1, HeadTailProperties DEF Calling, Candidate, CitadelRows, Task
<1>3. /\ status' = [status EXCEPT ![d][x] = s]
      /\ checked' = [checked EXCEPT ![d] = {p \in @ : p[1] # x} \cup (Chars \X {x})]
    BY <1>1 DEF UpsertAccess
<1>4. status' \in [Dims -> [Chars -> {"unknown", "ok", "forbidden", "retry"}]]
    BY <1>2, <1>3 DEF CitadelRows
<1>5. checked' \in [Dims -> SUBSET (Chars \X Chars)]
    BY <1>2, <1>3 DEF CitadelRows
<1>6. ASSUME NEW e \in Dims, NEW c \in Chars
      PROVE  (status'[e][c] = "unknown") <=> <<c, c>> \notin checked'[e]
    <2>1. CASE e # d
        BY <1>3, <2>1 DEF CitadelRows, CheckedInv
    <2>2. CASE e = d /\ c = x
        <3>1. status'[e][c] = s
            BY <1>2, <1>3, <2>2 DEF CitadelRows
        <3>2. <<c, c>> \in checked'[e]
            BY <1>2, <1>3, <2>2 DEF CitadelRows
        <3> QED  BY <3>1, <3>2
    <2>3. CASE e = d /\ c # x
        <3>1. status'[e][c] = status[e][c]
            BY <1>2, <1>3, <2>3 DEF CitadelRows
        <3>2. checked'[e] = {p \in checked[e] : p[1] # x} \cup (Chars \X {x})
            BY <1>3, <2>3 DEF CitadelRows
        <3>3. <<c, c>> \in checked'[e] <=> <<c, c>> \in checked[e]
            BY <2>3, <3>2
        <3> QED  BY <3>1, <3>3 DEF CheckedInv
    <2> QED  BY <2>1, <2>2, <2>3
<1> QED
    BY <1>4, <1>5, <1>6 DEF CheckedInv

\* The job of d goes on with what v says: nothing, or the candidates left.
GoesOn(d, v) == Calling(d) /\ task' = [task EXCEPT ![d] = v] /\ v \in Task \cup {None}

\* The next candidate, or the last one failed: the row at most pauses.
LEMMA NextKeeps ==
    ASSUME CitadelsInductive, NEW d \in Dims, Calling(d),
           NEW t \in Task, t.todo = task[d].todo, NextCandidate(d, t)
    PROVE  /\ \E v : GoesOn(d, v)
           /\ row' \in MarketRow /\ row'.public = row.public /\ row'.missing = row.missing
           /\ row'.known = row.known /\ row'.details = row.details
<1> USE DEF CitadelsInductive
<1>1. t.todo \in Seq(Chars) /\ t.todo # <<>> /\ row \in MarketRow
    BY DEF Task, CitadelRows, Calling
<1>2. CASE Len(t.todo) > 1
    <2>1. task' = [task EXCEPT ![d] = [t EXCEPT !.todo = Tail(@)]] /\ row' = row
        BY <1>2 DEF NextCandidate
    <2>2. Tail(t.todo) \in Seq(Chars)
        BY <1>1, HeadTailProperties
    <2>3. [t EXCEPT !.todo = Tail(@)] \in Task
        BY <2>2 DEF Task
    <2>4. GoesOn(d, [t EXCEPT !.todo = Tail(@)])
        BY <2>1, <2>3 DEF GoesOn
    <2> QED  BY <1>1, <2>1, <2>4
<1>3. CASE ~(Len(t.todo) > 1)
    <2>1. GoesOn(d, None)
        BY <1>3 DEF NextCandidate, GoesOn
    <2>2. row' = row \/ row' = [row EXCEPT !.paused = TRUE]
        BY <1>3 DEF NextCandidate
    <2>3. [row EXCEPT !.paused = TRUE] \in MarketRow
        BY <1>1 DEF MarketRow
    <2> QED  BY <1>1, <2>1, <2>2, <2>3 DEF MarketRow
<1> QED
    BY <1>2, <1>3

\* What is left to show of a step of a job once its row is known to be well typed.
LEMMA WorkKeeps ==
    ASSUME CitadelsInductive, NEW d \in Dims, NEW v, GoesOn(d, v),
           RecordNon2xx \/ UNCHANGED remaining,
           UNCHANGED access \/ UpsertAccess(d, "ok") \/ UpsertAccess(d, "forbidden"),
           row' \in MarketRow, row'.known = row.known,
           row.details # "none" => row'.details # "none",
           row'.public => row.public, row'.missing = row.missing,
           UNCHANGED <<tracked, answer, absent, listed>>
    PROVE  CitadelsInductive'
<1> USE DEF CitadelsInductive
<1>1. Calling(d) /\ task' \in [Dims -> Task \cup {None}]
    BY DEF GoesOn, CitadelRows
<1>2. /\ status' \in [Dims -> [Chars -> {"unknown", "ok", "forbidden", "retry"}]]
      /\ checked' \in [Dims -> SUBSET (Chars \X Chars)]
      /\ CheckedInv'
    <2>1. CASE UNCHANGED access
        BY <2>1 DEF access, CitadelRows, CheckedInv
    <2>2. CASE UpsertAccess(d, "ok")
        BY <1>1, <2>2, UpsertKeeps
    <2>3. CASE UpsertAccess(d, "forbidden")
        BY <1>1, <2>3, UpsertKeeps
    <2> QED  BY <2>1, <2>2, <2>3
<1>3. CitadelRows'
    BY <1>1, <1>2 DEF CitadelRows
<1>4. TrackedInv' /\ PublicInv'
    BY DEF TrackedInv, PublicInv
<1>5. GaugeInv'
    BY ChargeKeepsGauge
<1> QED
    BY <1>2, <1>3, <1>4, <1>5

\* The structure was read or resolved: the row has details or fresh orders.
LEMMA OkKeeps ==
    ASSUME CitadelsInductive, NEW d \in Dims, Ok(d)
    PROVE  CitadelsInductive'
<1>1. GoesOn(d, None) /\ UpsertAccess(d, "ok")
    BY DEF Ok, GoesOn
<1>2. UNCHANGED remaining /\ UNCHANGED <<tracked, answer, absent, listed>>
    BY DEF Ok, esi
<1>3. row \in MarketRow
    BY DEF CitadelsInductive, CitadelRows
<1>4. \/ row' = row \/ row' = [row EXCEPT !.details = "fresh"]
      \/ row' = [row EXCEPT !.orders = "fresh"]
    BY DEF Ok
<1>5. /\ row' \in MarketRow /\ row'.known = row.known /\ row'.public = row.public
      /\ row'.missing = row.missing /\ (row.details # "none" => row'.details # "none")
    BY <1>3, <1>4 DEF MarketRow
<1> QED
    BY <1>1, <1>2, <1>5, WorkKeeps

\* A candidate is denied access.
LEMMA ForbiddenKeeps ==
    ASSUME CitadelsInductive, NEW d \in Dims, Forbidden(d)
    PROVE  CitadelsInductive'
<1>1. Calling(d) /\ task[d] \in Task
    BY DEF Forbidden, Calling, CitadelsInductive, CitadelRows
<1>2. /\ [task[d] EXCEPT !.denied = TRUE] \in Task
      /\ [task[d] EXCEPT !.denied = TRUE].todo = task[d].todo
    BY <1>1 DEF Task
<1>3. /\ \E v : GoesOn(d, v)
      /\ row' \in MarketRow /\ row'.public = row.public /\ row'.missing = row.missing
      /\ row'.known = row.known /\ row'.details = row.details
    BY <1>1, <1>2, NextKeeps DEF Forbidden
<1>4. /\ RecordNon2xx /\ UpsertAccess(d, "forbidden")
      /\ UNCHANGED <<tracked, answer, absent, listed>>
    BY DEF Forbidden, esi
<1> QED
    BY <1>3, <1>4, WorkKeeps

\* A call failed for another reason, or there was no client to call with.
LEMMA TransientKeeps ==
    ASSUME CitadelsInductive, NEW d \in Dims, Transient(d)
    PROVE  CitadelsInductive'
<1>1. Calling(d) /\ task[d] \in Task
    BY DEF Transient, Calling, CitadelsInductive, CitadelRows
<1>2. /\ [task[d] EXCEPT !.transient = TRUE] \in Task
      /\ [task[d] EXCEPT !.transient = TRUE].todo = task[d].todo
    BY <1>1 DEF Task
<1>3. /\ \E v : GoesOn(d, v)
      /\ row' \in MarketRow /\ row'.public = row.public /\ row'.missing = row.missing
      /\ row'.known = row.known /\ row'.details = row.details
    BY <1>1, <1>2, NextKeeps DEF Transient
<1>4. /\ RecordNon2xx \/ UNCHANGED remaining
      /\ UNCHANGED access /\ UNCHANGED <<tracked, answer, absent, listed>>
    BY DEF Transient, esi
<1> QED
    BY <1>3, <1>4, WorkKeeps

\* The market answered 404: the structure is not public any more.
LEMMA NotFoundKeeps ==
    ASSUME CitadelsInductive, NotFound
    PROVE  CitadelsInductive'
<1>1. GoesOn("market", None) /\ "market" \in Dims
    BY DEF NotFound, GoesOn, Dims
<1>2. RecordNon2xx /\ UNCHANGED access /\ UNCHANGED <<tracked, answer, absent, listed>>
    BY DEF NotFound, esi
<1>3. row \in MarketRow /\ row' = [row EXCEPT !.public = FALSE]
    BY DEF NotFound, CitadelsInductive, CitadelRows
<1>4. /\ row' \in MarketRow /\ row'.known = row.known /\ ~row'.public
      /\ row'.missing = row.missing /\ row'.details = row.details
    BY <1>3 DEF MarketRow
<1> QED
    BY <1>1, <1>2, <1>4, WorkKeeps

-----------------------------------------------------------------------------
(* The theorems.                                                             *)

\* Every step preserves the invariant.
LEMMA NextHolds == CitadelsInductive /\ [CitadelsNext]_citadelVars => CitadelsInductive'
<1> SUFFICES ASSUME CitadelsInductive, [CitadelsNext]_citadelVars PROVE CitadelsInductive'
    OBVIOUS
<1>1. CASE UNCHANGED citadelVars
    BY <1>1 DEF citadelVars, CitadelsInductive, CitadelRows, TrackedInv, CheckedInv, PublicInv,
                GaugeInv
<1>2. CASE CitadelsNext
    BY <1>2, QuietKeeps, ListPublicStructuresKeeps, DiscoverKeeps, GaugeKeeps, StartKeeps,
       OkKeeps, ForbiddenKeeps, TransientKeeps, NotFoundKeeps, CoolKeeps
       DEF CitadelsNext, Work, Discovery
<1> QED
    BY <1>1, <1>2

\* The citadel jobs always satisfy the invariant, whatever EVE answers and however
\* their steps interleave.
THEOREM CitadelsInvariant == CitadelsSpec => []CitadelsInductive
BY InitHolds, NextHolds, PTL DEF CitadelsSpec

\* The rows are well typed, a structure tracked by a group has details to show, a
\* character was checked exactly if its status is known, and the gauge stays within
\* its ceiling: for any ceiling and threshold, any characters, and any number of
\* errors of other structures and jobs.
THEOREM CitadelsTypeCorrect == CitadelsSpec => []CitadelsTypeOK
<1>1. CitadelsInductive => CitadelsTypeOK
    BY DEF CitadelsInductive, CitadelsTypeOK, CitadelRows, MarketRow, TrackedInv, CheckedInv,
           GaugeInv
<1> QED
    BY <1>1, CitadelsInvariant, PTL

\* Discovery takes a structure off the list only after MissingThreshold answers in
\* a row without it, for any threshold; otherwise the orders job met a 404.
THEOREM StructuresAreDisabledSoftly == CitadelsSpec => SoftDisable
<1>1. CitadelsInductive /\ [CitadelsNext]_citadelVars
        => [row.public /\ ~row'.public =>
              \/ absent' >= MissingThreshold
              \/ task["market"] # None /\ task'["market"] = None /\ ~listed]_citadelVars
    <2> SUFFICES ASSUME CitadelsInductive, CitadelsNext, row.public, ~row'.public
                 PROVE  \/ absent' >= MissingThreshold
                        \/ task["market"] # None /\ task'["market"] = None /\ ~listed
        OBVIOUS
    <2> USE DEF CitadelsInductive
    <2>1. row \in MarketRow /\ row' # row
        BY DEF CitadelRows
    <2>2. ASSUME Discover PROVE absent' >= MissingThreshold
        <3>1. ~answer
            BY <2>1, <2>2 DEF Discover, Seen, MarketRow
        <3>2. row' = [row EXCEPT !.missing = @ + 1,
                                 !.public = row.missing + 1 < MissingThreshold]
            BY <2>2, <3>1 DEF Discover, NotSeen
        <3>3. ~(row.missing + 1 < MissingThreshold) /\ row.missing = absent
            BY <2>1, <3>2 DEF MarketRow, PublicInv
        <3>4. absent' = absent + 1 /\ absent \in Nat
            BY <2>2, <3>1 DEF Discover, PublicInv
        <3> QED  BY <3>3, <3>4, CitadelsAssumption
    <2>3. ASSUME NotFound
          PROVE  task["market"] # None /\ task'["market"] = None /\ ~listed
        BY <2>3 DEF NotFound, Calling, CitadelRows, Dims
    <2>4. ASSUME NEW d \in Dims, Ok(d) PROVE FALSE
        BY <2>1, <2>4 DEF Ok, MarketRow
    <2>5. ASSUME NEW d \in Dims, NEW t, NextCandidate(d, t) PROVE FALSE
        BY <2>1, <2>5 DEF NextCandidate, MarketRow
    <2>6. ASSUME Resume \/ AgeOrders \/ AgeDetails PROVE FALSE
        BY <2>1, <2>6 DEF Resume, AgeOrders, AgeDetails, Elapse, MarketRow
    <2>7. ASSUME \/ ListingChanges \/ (\E c \in Chars : DockingChanges(c)) \/ Track \/ Untrack
                 \/ ListPublicStructures \/ Reset \/ OthersFail
                 \/ \E d \in Dims : Tick(d) \/ Start(d) \/ \E c \in Chars : Cool(d, c)
          PROVE  FALSE
        BY <2>1, <2>7 DEF ListingChanges, DockingChanges, Track, Untrack, ListPublicStructures,
                          Reset, OthersFail, Tick, Start, Cool
    <2>8. ASSUME NEW d \in Dims, Forbidden(d) \/ Transient(d) PROVE FALSE
        BY <2>5, <2>8 DEF Forbidden, Transient
    <2> QED
        BY <2>2, <2>3, <2>4, <2>6, <2>7, <2>8 DEF CitadelsNext, Work, Discovery
<1> QED
    BY <1>1, CitadelsInvariant, PTL DEF CitadelsSpec, SoftDisable

=============================================================================
