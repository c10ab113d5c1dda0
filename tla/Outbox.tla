------------------------------- MODULE Outbox -------------------------------
(***************************************************************************)
(* What the table pending_webhooks promises, whoever drains it: a message  *)
(* posted with a committed transaction stays in the box, through crashes,  *)
(* until it was received, or nobody wants it, or it cannot be read, or     *)
(* MaxTries deliveries have failed, or the group it belongs to is gone.    *)
(* Delivery is at least once: a message may be received again until it     *)
(* leaves the box, and after that only by an attempt that was under way.   *)
(***************************************************************************)
EXTENDS Naturals

CONSTANTS Messages, Excused, MaxTries

VARIABLES
    box,      \* where each message is: "absent", "pending" or "gone"
    got,      \* messages that were received at least once
    tries,    \* failed deliveries of each message
    group     \* "alive" or "deleted"

boxVars == <<box, got, tries, group>>

BoxInit ==
    /\ box = [m \in Messages |-> "absent"]
    /\ got = {}
    /\ tries = [m \in Messages |-> 0]
    /\ group = "alive"

Post(m) ==
    /\ group = "alive"
    /\ box[m] = "absent"
    /\ box' = [box EXCEPT ![m] = "pending"]
    /\ UNCHANGED <<got, tries, group>>

\* A delivery that is known to have arrived.
Deliver(m) ==
    /\ box[m] # "absent"
    /\ m \notin Excused
    /\ got' = got \cup {m}
    /\ UNCHANGED <<box, tries, group>>

\* A delivery without an answer: it may have arrived.
Fail(m) ==
    /\ box[m] # "absent"
    /\ tries' = [tries EXCEPT ![m] = @ + 1]
    /\ got' \in {got, got \cup ({m} \ Excused)}
    /\ UNCHANGED <<box, group>>

Remove(m) ==
    /\ box[m] = "pending"
    /\ m \in got \/ m \in Excused \/ tries[m] >= MaxTries
    /\ box' = [box EXCEPT ![m] = "gone"]
    /\ UNCHANGED <<got, tries, group>>

\* The group and everything it owns is deleted.
Close ==
    /\ group = "alive"
    /\ group' = "deleted"
    /\ box' = [m \in Messages |-> IF box[m] = "pending" THEN "gone" ELSE box[m]]
    /\ UNCHANGED <<got, tries>>

BoxNext == \/ \E m \in Messages : Post(m) \/ Deliver(m) \/ Fail(m) \/ Remove(m)
           \/ Close

BoxSpec == BoxInit /\ [][BoxNext]_boxVars

=============================================================================
