--------------------------- MODULE PendingWebhooks ---------------------------
(***************************************************************************)
(* The table pending_webhooks and the worker job that drains it.  Requests *)
(* and settlements enqueue a row in their own transaction.  A drainer      *)
(* leases a batch of due rows, posts them one after the other with a time  *)
(* limit, deletes what was delivered and reschedules what was not.  There  *)
(* may be several workers, and each may die, or leave its run with an      *)
(* error, at any point.                                                    *)
(*                                                                         *)
(* Time is in ticks and relative: wait is how long a row is not due yet,   *)
(* elapsed how long the current post has taken.  Statements in the         *)
(* database take no time of their own.  One group's rows are modelled.     *)
(***************************************************************************)
EXTENDS Integers, FiniteSets

CONSTANTS
    Messages,      \* identifiers of pending_webhooks rows
    Malformed,     \* rows whose payload does not parse as a WebhookEvent
    Unwanted,      \* rows for which the group has no webhook, or has it off
    Drainers,      \* runs of the job: one for each worker process
    Batch,         \* BATCH (50)
    SendTimeout,   \* SEND_TIMEOUT (10 seconds)
    LeaseTime,     \* LEASE_SECS (600)
    MaxAttempts,   \* MAX_ATTEMPTS (8)
    BackoffCap,    \* longest delay before a retry (3600)
    MaxCrashes,    \* bound: crashes and ignored errors in a behaviour
    NoMessage      \* no post under way

\* The lease outlasts a batch of posts that all run into their time limit.
ASSUME WebhookAssumption ==
    /\ IsFiniteSet(Messages)
    /\ NoMessage \notin Messages
    /\ Batch \in Nat \ {0} /\ SendTimeout \in Nat \ {0} /\ LeaseTime \in Nat
    /\ MaxAttempts \in Nat \ {0} /\ BackoffCap \in Nat \ {0} /\ MaxCrashes \in Nat
    /\ Batch * SendTimeout < LeaseTime

VARIABLES
    rows,       \* pending_webhooks: state, attempts, and ticks to next_attempt_at
    drainers,   \* what each drainer holds in memory
    received,   \* messages the other end has seen (history)
    failures,   \* posts of each message that returned an error (history)
    group,      \* whether the group is "alive" or "deleted"
    crashes     \* crashes and ignored errors so far

webhookVars == <<rows, drainers, received, failures, group, crashes>>

WebhookRow == [state : {"absent", "pending", "gone"}, attempts : 0 .. MaxAttempts - 1,
               wait : Nat]
DrainerState == [batch : SUBSET Messages, seen : [Messages -> 0 .. MaxAttempts - 1],
                 current : Messages \cup {NoMessage}, elapsed : 0 .. SendTimeout,
                 result : {"none", "ok", "err"}]

NoRow == [state |-> "absent", attempts |-> 0, wait |-> 0]
Resting == [batch |-> {}, seen |-> [m \in Messages |-> 0],
            current |-> NoMessage, elapsed |-> 0, result |-> "none"]

\* 2^attempts, capped.
Backoff(n) == IF 2 ^ n < BackoffCap THEN 2 ^ n ELSE BackoffCap

\* fire_webhook and the INSERT of handle_contract_terminal: the row appears with
\* the transaction that enqueued it.
Enqueue(m) ==
    /\ group = "alive"
    /\ rows[m].state = "absent"
    /\ rows' = [rows EXCEPT ![m].state = "pending"]
    /\ UNCHANGED <<drainers, received, failures, group, crashes>>

\* Mutant of Due: a row that failed once is not looked at again.
MutantDue == {m \in Messages : /\ rows[m].state = "pending" /\ rows[m].wait = 0
                               /\ rows[m].attempts = 0}

Due == {m \in Messages : rows[m].state = "pending" /\ rows[m].wait = 0}

\* Mutant of LeasedRow: the rows are selected and not leased.
MutantLeasedRow(m) == rows[m]

LeasedRow(m) == [rows[m] EXCEPT !.wait = LeaseTime]

\* The first transaction of run: lease at most Batch due rows and remember them
\* with their attempts.
Lease(d, S) ==
    /\ drainers[d].batch = {}
    /\ S \subseteq Due /\ S # {}
    /\ Cardinality(S) <= Batch
    /\ S = Due \/ Cardinality(S) = Batch
    /\ rows' = [m \in Messages |-> IF m \in S THEN LeasedRow(m) ELSE rows[m]]
    /\ drainers' = [drainers EXCEPT ![d] = [
            batch |-> S,
            seen |-> [m \in Messages |-> IF m \in S THEN rows[m].attempts ELSE 0],
            current |-> NoMessage, elapsed |-> 0, result |-> "none"]]
    /\ UNCHANGED <<received, failures, group, crashes>>

\* The drainer is done with row m and turns to the rest of its batch.
LetGo(d, m) == [batch |-> drainers[d].batch \ {m}, seen |-> drainers[d].seen,
                current |-> NoMessage, elapsed |-> 0, result |-> "none"]

\* A malformed payload is dropped.
Drop(d, m) ==
    /\ drainers[d].current = NoMessage
    /\ m \in drainers[d].batch \cap Malformed
    /\ rows' = [rows EXCEPT ![m].state = "gone"]
    /\ drainers' = [drainers EXCEPT ![d] = LetGo(d, m)]
    /\ UNCHANGED <<received, failures, group, crashes>>

\* The DELETE of a malformed row fails; its error is ignored and the run goes on.
DropFails(d, m) ==
    /\ drainers[d].current = NoMessage
    /\ m \in drainers[d].batch \cap Malformed
    /\ crashes < MaxCrashes
    /\ crashes' = crashes + 1
    /\ drainers' = [drainers EXCEPT ![d] = LetGo(d, m)]
    /\ UNCHANGED <<rows, received, failures, group>>

\* dispatch_webhook starts on a row ...
Send(d, m) ==
    /\ drainers[d].current = NoMessage
    /\ m \in drainers[d].batch \ Malformed
    /\ drainers' = [drainers EXCEPT ![d].current = m]
    /\ UNCHANGED <<rows, received, failures, group, crashes>>

\* ... and returns: Ok without a post if nobody wants the event, Ok if the post
\* was answered, an error if it was refused or ran into the time limit, or if the
\* group's settings could not be read.
Answered(d) ==
    LET m == drainers[d].current IN
    /\ m # NoMessage /\ drainers[d].result = "none"
    /\ \/ /\ m \in Unwanted \/ group = "deleted"
          /\ drainers' = [drainers EXCEPT ![d].result = "ok"]
          /\ UNCHANGED <<received, failures>>
       \/ /\ m \notin Unwanted
          /\ drainers' = [drainers EXCEPT ![d].result = "ok"]
          /\ received' = received \cup {m}
          /\ UNCHANGED failures
       \/ /\ drainers' = [drainers EXCEPT ![d].result = "err"]
          /\ received' \in {received, received \cup ({m} \ Unwanted)}
          /\ failures' = [failures EXCEPT ![m] = @ + 1]
    /\ UNCHANGED <<rows, group, crashes>>

\* Mutant of GivesUp: the attempt that is about to be made is counted as well.
MutantGivesUp(n) == n + 1 >= MaxAttempts

\* Mutant of GivesUp: > in place of >=.
MutantGivesUpLate(n) == n > MaxAttempts

GivesUp(n) == n >= MaxAttempts

\* Delivered, or given up: the row is deleted, if it is still there.  Otherwise it
\* is scheduled again, with the attempts read when it was leased plus one.
Finish(d) ==
    LET m == drainers[d].current
        n == drainers[d].seen[m] + 1
    IN
    /\ m # NoMessage /\ drainers[d].result # "none"
    /\ rows' = [rows EXCEPT ![m] =
            IF @.state # "pending" THEN @
            ELSE IF drainers[d].result = "ok" \/ GivesUp(n) THEN [@ EXCEPT !.state = "gone"]
            ELSE [@ EXCEPT !.attempts = n, !.wait = Backoff(n)]]
    /\ drainers' = [drainers EXCEPT ![d] = LetGo(d, m)]
    /\ UNCHANGED <<received, failures, group, crashes>>

\* The worker dies, or a statement fails and the run returns its error.
Crash(d) ==
    /\ drainers[d].batch # {}
    /\ crashes < MaxCrashes
    /\ crashes' = crashes + 1
    /\ drainers' = [drainers EXCEPT ![d] = Resting]
    /\ UNCHANGED <<rows, received, failures, group>>

\* delete_group: the rows go by cascade.
DeleteGroup ==
    /\ group = "alive"
    /\ group' = "deleted"
    /\ rows' = [m \in Messages |-> IF rows[m].state = "pending"
                                   THEN [rows[m] EXCEPT !.state = "gone"] ELSE rows[m]]
    /\ UNCHANGED <<drainers, received, failures, crashes>>

\* Time passes only for rows that wait and for posts within their time limit.
Posting(d) == drainers[d].current # NoMessage /\ drainers[d].result = "none"

Tick ==
    /\ \E m \in Messages : rows[m].state = "pending" /\ rows[m].wait > 0
    /\ \A d \in Drainers : drainers[d].batch = {}
                            \/ (Posting(d) /\ drainers[d].elapsed < SendTimeout)
    /\ rows' = [m \in Messages |->
            IF rows[m].state = "pending" /\ rows[m].wait > 0
            THEN [rows[m] EXCEPT !.wait = @ - 1] ELSE rows[m]]
    /\ drainers' = [d \in Drainers |->
            IF Posting(d) THEN [drainers[d] EXCEPT !.elapsed = @ + 1] ELSE drainers[d]]
    /\ UNCHANGED <<received, failures, group, crashes>>

-----------------------------------------------------------------------------
WebhookInit ==
    /\ rows = [m \in Messages |-> NoRow]
    /\ drainers = [d \in Drainers |-> Resting]
    /\ received = {}
    /\ failures = [m \in Messages |-> 0]
    /\ group = "alive"
    /\ crashes = 0

Drain(d) ==
    \/ \E S \in SUBSET Messages : Lease(d, S)
    \/ \E m \in Messages : Drop(d, m) \/ Send(d, m)
    \/ Answered(d)
    \/ Finish(d)

WebhookNext ==
    \/ \E m \in Messages : Enqueue(m)
    \/ \E d \in Drainers : Drain(d) \/ Crash(d)
    \/ \E d \in Drainers, m \in Messages : DropFails(d, m)
    \/ DeleteGroup
    \/ Tick

WebhookSpec == WebhookInit /\ [][WebhookNext]_webhookVars

\* drive_slot runs the job for ever and time passes; nobody has to enqueue.
WebhookFairSpec ==
    /\ WebhookSpec
    /\ WF_webhookVars(Tick)
    /\ \A d \in Drainers : WF_webhookVars(Drain(d))

-----------------------------------------------------------------------------
(* Properties.                                                             *)

\* Rows and drainers hold values of their type.
WebhookTypeOK ==
    /\ rows \in [Messages -> WebhookRow]
    /\ drainers \in [Drainers -> DrainerState]
    /\ received \subseteq Messages
    /\ failures \in [Messages -> Nat]
    /\ group \in {"alive", "deleted"}
    /\ crashes \in Nat

\* The comment on LEASE_SECS: no other drain picks a row up while it is being
\* dispatched.
LeaseExclusive ==
    \A d, e \in Drainers : d # e => drainers[d].batch \cap drainers[e].batch = {}

\* The drained table implements the box: what was posted is lost neither by a
\* crash nor by two drainers, and no row is given up before MAX_ATTEMPTS failures.
Box == INSTANCE Outbox WITH
            Excused <- Malformed \cup Unwanted, MaxTries <- MaxAttempts,
            box <- [m \in Messages |-> rows[m].state], got <- received,
            tries <- failures

ImplementsOutbox == Box!BoxSpec

\* Every enqueued row leaves the table in the end, delivered or given up.
EventuallyDrained ==
    \A m \in Messages : (rows[m].state = "pending") ~> (rows[m].state = "gone")

=============================================================================
