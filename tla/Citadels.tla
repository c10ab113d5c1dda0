------------------------------ MODULE Citadels ------------------------------
(* Public structures: the discovery, details and orders jobs of the worker   *)
(* (citadel_discovery.rs, citadel_details.rs, citadel_orders.rs, csa.rs),    *)
(* the API that tracks a structure for a group (citadels.rs) and the ESI     *)
(* error budget they share (auth-tokens: budget.rs). There is one structure. *)
(* Rows of other structures are independent of its row, their calls are not: *)
(* the gauge is charged for them, too, and by the jobs of other modules.     *)
(* Time is a set of steps that let an interval pass.                         *)
EXTENDS Integers, FiniteSets, Sequences, SequencesExt

CONSTANTS
    Characters,     \* characters, in the order of their ids
    Scoped,         \* who holds the scope (and, for orders, is in the group)
    Broken,         \* characters whose calls fail with neither 403 nor 404
    Tried,          \* candidates of one refresh
    MissingThreshold, Ceiling, DeferThreshold,
    MaxMoves,       \* bound: changes in EVE and by users
    MaxFailures,    \* bound: transient errors
    None

Dims == {"details", "market"}
Chars == ToSet(Characters)
Id(c) == CHOOSE i \in DOMAIN Characters : Characters[i] = c

ASSUME CitadelsAssumption ==
    /\ Characters \in Seq(Chars) /\ Scoped \in [Dims -> SUBSET Chars] /\ Tried \in Nat \ {0}
    /\ MissingThreshold \in Nat \ {0}
    /\ Ceiling \in Nat \ {0} /\ DeferThreshold \in 1 .. Ceiling
    /\ MaxMoves \in Nat /\ MaxFailures \in Nat

VARIABLES
    listed,     \* EVE: the structure is in the public list
    docks,      \* EVE: characters with docking access
    row,        \* the row of markets
    tracked,    \* tracked by a group, which has open items there
    status,     \* character_structure_access: status of each dimension
    checked,    \* pairs of characters by checked_at, nulls first, in each dimension
    task,       \* resolve_one and refresh_one under way
    answer,     \* what discovery was told, until it is committed
    absent,     \* history: answers without the structure, in a row
    remaining,  \* the budget gauge
    moves, failures

esi == <<listed, docks>>
access == <<status, checked>>
citadelVars == <<listed, docks, row, tracked, status, checked, task, answer, absent,
                 remaining, moves, failures>>

CitadelsInit ==
    /\ listed \in BOOLEAN /\ docks \in SUBSET Chars
    /\ row = [known |-> FALSE, public |-> FALSE, missing |-> 0, details |-> "none",
              orders |-> "stale", paused |-> FALSE]
    /\ tracked = FALSE
    /\ status = [d \in Dims |-> [c \in Chars |-> "unknown"]]
    /\ checked = [d \in Dims |-> {}]
    /\ task = [d \in Dims |-> None] /\ answer = None /\ absent = 0
    /\ remaining = Ceiling /\ moves = 0 /\ failures = 0

Move == moves < MaxMoves /\ moves' = moves + 1
Fail == failures < MaxFailures /\ failures' = failures + 1
-----------------------------------------------------------------------------
(* EsiBudgetGuard: has_budget, record_non_2xx, reset. *)
HasBudget == remaining >= DeferThreshold
RecordNon2xx == remaining' = IF remaining > 0 THEN remaining - 1 ELSE remaining
Reset ==
    /\ remaining # Ceiling /\ remaining' = Ceiling
    /\ UNCHANGED <<esi, row, tracked, access, task, answer, absent, moves, failures>>
(* Calls for the other structures of a tick, up to 75 of 5 candidates, and   *)
(* of other jobs. Some were begun before the budget was used up.             *)
OthersFail ==
    /\ remaining > 0 /\ RecordNon2xx
    /\ UNCHANGED <<esi, row, tracked, access, task, answer, absent, moves, failures>>
-----------------------------------------------------------------------------
(* EVE: structures come and go, and so does docking access. *)
ListingChanges ==
    /\ Move /\ listed' = ~listed
    /\ UNCHANGED <<docks, row, tracked, access, task, answer, absent, remaining, failures>>

DockingChanges(c) ==
    /\ Move /\ docks' = (docks \ {c}) \cup ({c} \ docks)
    /\ UNCHANGED <<listed, row, tracked, access, task, answer, absent, remaining, failures>>

(* track and untrack by a group's owner. *)
MutantTrack ==
    /\ ~tracked /\ row.known /\ row.public
    /\ tracked' = TRUE
    /\ UNCHANGED <<esi, row, access, task, answer, absent, remaining, moves, failures>>
Track ==
    /\ ~tracked /\ row.known /\ row.public /\ row.details # "none"
    /\ tracked' = TRUE
    /\ UNCHANGED <<esi, row, access, task, answer, absent, remaining, moves, failures>>

Untrack ==
    /\ tracked /\ tracked' = FALSE /\ Move
    /\ UNCHANGED <<esi, row, access, task, answer, absent, remaining, failures>>

(* Backoffs and refresh intervals pass. *)
Cool(d, c) ==
    /\ status[d][c] = "forbidden" /\ status' = [status EXCEPT ![d][c] = "retry"]
    /\ UNCHANGED <<esi, row, tracked, checked, task, answer, absent, remaining, moves, failures>>

Elapse(r) ==
    /\ r # row /\ row' = r
    /\ UNCHANGED <<esi, tracked, access, task, answer, absent, remaining, moves, failures>>
Resume == Elapse([row EXCEPT !.paused = FALSE])
AgeOrders == Elapse([row EXCEPT !.orders = "stale"])
AgeDetails == row.details = "fresh" /\ Elapse([row EXCEPT !.details = "stale"])
-----------------------------------------------------------------------------
(* citadel_discovery: ask for the public list, then one transaction. *)
ListPublicStructures ==
    /\ answer = None /\ HasBudget
    /\ \/ answer' = listed /\ UNCHANGED <<remaining, failures>>
       \/ RecordNon2xx /\ Fail /\ UNCHANGED answer
    /\ UNCHANGED <<esi, row, tracked, access, task, absent, moves>>

MutantSeen == [row EXCEPT !.known = TRUE, !.public = TRUE]
Seen == [row EXCEPT !.known = TRUE, !.public = TRUE, !.missing = 0]
MutantNotSeen == row
NotSeen ==
    IF ~row.public THEN row
    ELSE [row EXCEPT !.missing = @ + 1, !.public = row.missing + 1 < MissingThreshold]
Discover ==
    /\ answer # None
    /\ row' = IF answer THEN Seen ELSE NotSeen
    /\ absent' = IF answer THEN 0 ELSE IF absent < MissingThreshold THEN absent + 1 ELSE absent
    /\ answer' = None
    /\ UNCHANGED <<esi, tracked, access, task, remaining, moves, failures>>
-----------------------------------------------------------------------------
(* select_candidates: 'ok' before 'unknown' before 'forbidden' whose backoff *)
(* has passed, each by checked_at, nulls first.                              *)
MutantRetried == {}
Retried == {"retry"}
Eligible(d) == {c \in Scoped[d] : status[d][c] \in {"ok", "unknown"} \cup Retried}
StatusRank(s) == IF s = "ok" THEN 0 ELSE IF s = "unknown" THEN 1 ELSE 2
Precedes(d, a, b) ==
    LET ra == StatusRank(status[d][a])
        rb == StatusRank(status[d][b])
    IN  \/ ra < rb
        \/ /\ ra = rb /\ <<b, a>> \notin checked[d]
           /\ <<a, b>> \in checked[d] \/ Id(a) < Id(b)
Ranked(d) == {s \in SetToSeqs(Eligible(d)) :
                \A i, j \in DOMAIN s : i < j => Precedes(d, s[i], s[j])}
Limit(s) == SubSeq(s, 1, IF Len(s) < Tried THEN Len(s) ELSE Tried)
Candidates(d) == {Limit(s) : s \in Ranked(d)}

(* The driving queries of the two jobs. *)
Wanted(d) ==
    /\ row.known /\ row.public
    /\ IF d = "details" THEN row.details = "none" \/ (tracked /\ row.details = "stale")
       ELSE tracked /\ ~row.paused /\ row.orders = "stale"

(* A tick asks for budget once, for all its structures; each of them waits   *)
(* for a permit, ...                                                         *)
Queued == [todo |-> <<>>, denied |-> FALSE, transient |-> FALSE]
Tick(d) ==
    /\ task[d] = None /\ HasBudget /\ Wanted(d)
    /\ task' = [task EXCEPT ![d] = Queued]
    /\ UNCHANGED <<esi, row, tracked, access, answer, absent, remaining, moves, failures>>

(* ... and then selects its candidates, whatever the budget is by then. *)
Start(d) ==
    /\ task[d] = Queued
    /\ \E s \in Candidates(d) :
         task' = [task EXCEPT ![d] = IF s = <<>> THEN None ELSE [Queued EXCEPT !.todo = s]]
    /\ UNCHANGED <<esi, row, tracked, access, answer, absent, remaining, moves, failures>>

(* A candidate of the structure is called. *)
Calling(d) == task[d] # None /\ task[d].todo # <<>>
Candidate(d) == Head(task[d].todo)
UpsertAccess(d, s) ==
    /\ status' = [status EXCEPT ![d][Candidate(d)] = s]
    /\ checked' = [checked EXCEPT ![d] = {p \in @ : p[1] # Candidate(d)}
                                           \cup (Chars \X {Candidate(d)})]

(* One candidate failed: try the next. After the last one the orders job     *)
(* pauses the structure, if every candidate was denied.                      *)
Pauses(t) == t.denied /\ ~t.transient
NextCandidate(d, t) ==
    IF Len(t.todo) > 1
    THEN task' = [task EXCEPT ![d] = [t EXCEPT !.todo = Tail(@)]] /\ UNCHANGED row
    ELSE /\ task' = [task EXCEPT ![d] = None]
         /\ row' = IF d = "market" /\ Pauses(t) THEN [row EXCEPT !.paused = TRUE] ELSE row

Ok(d) ==
    /\ Calling(d) /\ Candidate(d) \in docks \ Broken
    /\ d = "market" => listed
    /\ UpsertAccess(d, "ok") /\ task' = [task EXCEPT ![d] = None]
    /\ \/ /\ row' = IF d = "details" THEN [row EXCEPT !.details = "fresh"]
                    ELSE [row EXCEPT !.orders = "fresh"]
          /\ UNCHANGED failures
       \/ d = "details" /\ Fail /\ UNCHANGED row     \* resolve_region_for_system fails
    /\ UNCHANGED <<esi, tracked, answer, absent, remaining, moves>>

Forbidden(d) ==
    /\ Calling(d) /\ Candidate(d) \notin docks \cup Broken
    /\ UpsertAccess(d, "forbidden") /\ RecordNon2xx
    /\ NextCandidate(d, [task[d] EXCEPT !.denied = TRUE])
    /\ UNCHANGED <<esi, tracked, answer, absent, moves, failures>>

NotFound ==
    /\ Calling("market") /\ ~listed /\ Candidate("market") \notin Broken
    /\ row' = [row EXCEPT !.public = FALSE]
    /\ task' = [task EXCEPT !["market"] = None] /\ RecordNon2xx
    /\ UNCHANGED <<esi, tracked, access, answer, absent, moves, failures>>

(* Another error, or no client can be built (which is not charged). *)
Transient(d) ==
    /\ Calling(d)
    /\ IF Candidate(d) \in Broken THEN UNCHANGED failures ELSE Fail
    /\ RecordNon2xx \/ UNCHANGED remaining
    /\ NextCandidate(d, [task[d] EXCEPT !.transient = TRUE])
    /\ UNCHANGED <<esi, tracked, access, answer, absent, moves>>
-----------------------------------------------------------------------------
Work(d) == Start(d) \/ Ok(d) \/ Forbidden(d) \/ Transient(d) \/ (d = "market" /\ NotFound)
Discovery == ListPublicStructures \/ Discover

CitadelsNext ==
    \/ ListingChanges \/ (\E c \in Chars : DockingChanges(c)) \/ Track \/ Untrack
    \/ Discovery \/ Reset \/ OthersFail \/ Resume \/ AgeOrders \/ AgeDetails
    \/ \E d \in Dims : Tick(d) \/ Work(d) \/ \E c \in Chars : Cool(d, c)

CitadelsSpec == CitadelsInit /\ [][CitadelsNext]_citadelVars

(* Every job's tick comes round again and finds budget in some window; what  *)
(* has been started goes on; time passes.                                    *)
CitadelsFairSpec ==
    /\ CitadelsSpec
    /\ SF_citadelVars(ListPublicStructures) /\ WF_citadelVars(Discover)
    /\ WF_citadelVars(Reset) /\ WF_citadelVars(Resume) /\ WF_citadelVars(AgeOrders)
    /\ \A d \in Dims : SF_citadelVars(Tick(d)) /\ WF_citadelVars(Work(d))
    /\ \A d \in Dims, c \in Chars : WF_citadelVars(Cool(d, c))
-----------------------------------------------------------------------------
(* A tracked structure has details, so the search shows it and can name it;  *)
(* a character has been checked exactly if its status is known.              *)
CitadelsTypeOK ==
    /\ row \in [known : BOOLEAN, public : BOOLEAN, missing : 0 .. MissingThreshold,
                details : {"none", "fresh", "stale"}, orders : {"fresh", "stale"},
                paused : BOOLEAN]
    /\ tracked => row.known /\ row.details # "none"
    /\ \A d \in Dims, c \in Chars : (status[d][c] = "unknown") <=> <<c, c>> \notin checked[d]
    /\ remaining \in 0 .. Ceiling

(* Discovery makes a structure non-public only after MissingThreshold        *)
(* answers in a row without it; otherwise the orders job met a 404.          *)
SoftDisable ==
    [][row.public /\ ~row'.public =>
         \/ absent' >= MissingThreshold
         \/ task["market"] # None /\ task'["market"] = None /\ ~listed]_citadelVars

(* "Recovered docking access is eventually seen" (citadel_orders.rs): while  *)
(* the structure is listed and tracked and one character can dock, its       *)
(* orders are refreshed again and again, whatever was forbidden or paused.   *)
AccessRecovers ==
    (\E c \in Scoped["market"] \ Broken : <>[](listed /\ tracked /\ c \in docks))
      => []<>(row.orders = "fresh")

(* A structure that leaves the public list is no longer searched or polled.  *)
GoneStops == <>[](~listed) => <>[](~row.public)
=============================================================================
