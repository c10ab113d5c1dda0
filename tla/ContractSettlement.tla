-------------------------- MODULE ContractSettlement --------------------------
(***************************************************************************)
(* Settlement of a list's reimbursements through EVE item_exchange         *)
(* contracts: the worker's pollers copy the contracts ESI reports into the *)
(* contracts table, suggest matches, and settle or unbind what is bound to *)
(* a contract that reached a terminal status; haulers confirm, reject,     *)
(* link by hand and unlink through the API.  It composes the list of       *)
(* ListFulfillment with those components: every request on the list is a   *)
(* step here too.                                                          *)
(*                                                                         *)
(* A poller is one character or corporation whose contracts are fetched.   *)
(* Between its HTTP fetch, the transaction that upserts what it fetched,   *)
(* the item sync, the two halves of the matcher and the transaction that   *)
(* handles a terminal status, everybody else may run.                      *)
(*                                                                         *)
(* expected_total_isk is modelled by what it was summed from: the subtotal *)
(* and the tip of every bound reimbursement ({} is NULL), and              *)
(* settlement_delta_isk by the expected total it was computed with.        *)
(***************************************************************************)
EXTENDS ListFulfillment

CONSTANTS
    Pollers,    \* characters and corporations polled
    Issuer,     \* the user whose character issued a contract
    Assignee,   \* the principal it is assigned to, None if unknown to JitaCart
    Statuses,   \* the statuses ESI reports in this instance
    CanFail     \* whether a poll may be cut short by a crash or an error

Live == {"outstanding", "in_progress"}
Success == {"finished", "finished_issuer", "finished_contractor"}
Failure == {"cancelled", "rejected", "failed", "deleted", "reversed"}

\* Contracts issued by a corporation are left out: validate_link and the matcher
\* want the issuer's principal to be the hauler's, and haulers are users.
ASSUME ContractAssumption ==
    /\ Issuer \in [Contracts -> Users]
    /\ Assignee \in [Contracts -> Principals \cup {None}]
    /\ Statuses \subseteq Live \cup Success \cup Failure
    /\ CanFail \in BOOLEAN

VARIABLES
    esi,          \* the status of each contract in EVE, "unknown" before it exists
    contracts,    \* contracts
    suggestions,  \* contract_match_suggestions: the state of each pair
    pollers       \* how far each poll has come

contractVars == <<esi, contracts, suggestions, pollers>>
allVars == <<vars, contractVars>>

Pairs == Contracts \X Keys
Totals == SUBSET (Keys \X (SUBSET Fulfillments) \X Tips)

NoContract == [status |-> "unknown", synced |-> FALSE, expected |-> {}, delta |-> None]
IdlePoller == [phase |-> "idle", contract |-> None, status |-> "unknown",
               changed |-> FALSE, match |-> FALSE]

-----------------------------------------------------------------------------
(* The settlement crate.                                                   *)

BoundIn(rr, c) == {k \in Keys : rr[k].contract = c}

\* recompute_contract_expected_total.
ExpectedTotal(rr, c) == {<<k, rr[k].subtotal, rr[k].tip>> : k \in BoundIn(rr, c)}

\* Another pending hauler with units of item i.  Unlike the personal flip of
\* settle_manual (OtherPending), whoever that reimbursement is owed by.
HeldUp(rr, k, i) ==
    \E k2 \in Keys :
        /\ rr[k2].status = "pending"
        /\ k2[2] # k[2]
        /\ \E f \in LiveOn(fulfillments, i) : fulfillments[f].hauler = k2[2]

\* Items that some reimbursement bound to c pays for become settled; a finished
\* contract counts as delivery.
FlipItems(rr, c) ==
    [i \in Items |->
        IF /\ items[i].status \in {"bought", "delivered"}
           /\ \E k \in BoundIn(rr, c) : i \in Covered(k) /\ ~HeldUp(rr, k, i)
        THEN [items[i] EXCEPT !.status = "settled"] ELSE items[i]]

\* Mutant of Announce: the caller drops the returned webhooks.
MutantAnnounce(S) == outbox

\* fire_settlement_webhooks, and the inserts of handle_contract_terminal.
Announce(S) == outbox \cup {Event("settled", k) : k \in S}

\* settle_via_contract on the reimbursements rr, with the expected total exp.
SettleViaContract(c, rr, exp) ==
    LET settled == {k \in BoundIn(rr, c) : rr[k].status = "pending"}
        after == [k \in Keys |-> IF k \in settled THEN [rr[k] EXCEPT !.status = "settled"]
                                 ELSE rr[k]]
    IN  /\ reimb' = after
        /\ items' = IF settled = {} THEN items ELSE FlipItems(after, c)
        /\ list' = IF settled = {} THEN list ELSE AutoClose(items')
        /\ outbox' = Announce(settled)
        /\ contracts' = [contracts EXCEPT
                ![c].expected = exp,
                ![c].delta = IF settled = {} THEN @
                             ELSE IF exp = {} THEN None ELSE exp]

\* Mutant of Unbind: settled rows are detached too.
MutantUnbind(c) ==
    [k \in Keys |-> IF reimb[k].contract = c THEN [reimb[k] EXCEPT !.contract = None]
                    ELSE reimb[k]]

\* The UPDATE of unbind_contract and of do_unlink: pending rows leave contract c.
Unbind(c) ==
    [k \in Keys |->
        IF reimb[k].contract = c /\ reimb[k].status = "pending"
        THEN [reimb[k] EXCEPT !.contract = None] ELSE reimb[k]]

\* unbind_contract: what is still pending loses its contract, and suggestions
\* still pending are superseded.
UnbindContract(c) ==
    /\ reimb' = Unbind(c)
    /\ suggestions' = [s \in Pairs |->
            IF s[1] = c /\ suggestions[s] = "pending" THEN "superseded"
            ELSE suggestions[s]]
    /\ contracts' = [contracts EXCEPT ![c].expected = {}]
    /\ UNCHANGED <<items, list, outbox>>

-----------------------------------------------------------------------------
(* The pollers.                                                            *)

\* EVE: a contract appears, is accepted, finishes or fails; one that finished may
\* still be reversed.
EsiAdvance(c, s) ==
    /\ \/ esi[c] = "unknown"
       \/ esi[c] \in Live /\ s # "outstanding"
       \/ esi[c] \in Success /\ s = "reversed"
    /\ esi[c] # s
    /\ esi' = [esi EXCEPT ![c] = s]
    /\ UNCHANGED <<vars, contracts, suggestions, pollers>>

Fetch(p, c) ==
    /\ pollers[p].phase = "idle"
    /\ esi[c] # "unknown"
    /\ pollers' = [pollers EXCEPT ![p] = [IdlePoller EXCEPT
            !.phase = "fetched", !.contract = c, !.status = esi[c]]]
    /\ UNCHANGED <<vars, esi, contracts, suggestions>>

\* Mutant of StatusChanged: the previous status is read after the update.
MutantStatusChanged(old, new) == FALSE

\* ContractUpsertOutcome::status_changed.
StatusChanged(old, new) == old # new

\* upsert_contract, committed before anything else is done about the contract.
UpsertContract(p) ==
    LET c == pollers[p].contract IN
    /\ pollers[p].phase = "fetched"
    /\ contracts' = [contracts EXCEPT ![c].status = pollers[p].status]
    /\ pollers' = [pollers EXCEPT
            ![p].phase = "upserted",
            ![p].changed = StatusChanged(contracts[c].status, pollers[p].status)]
    /\ UNCHANGED <<vars, esi, suggestions>>

\* sync_pending_items: the items of the contract, unless no token can read them.
SyncItems(p) ==
    /\ pollers[p].phase = "upserted"
    /\ \E ok \in BOOLEAN :
            contracts' = [contracts EXCEPT ![pollers[p].contract].synced = @ \/ ok]
    /\ pollers' = [pollers EXCEPT ![p].phase = "synced"]
    /\ UNCHANGED <<vars, esi, suggestions>>

\* The key a contract can match: its assignee owes, its issuer hauled.
MatchKey(c) == <<Assignee[c], Issuer[c]>>

Eligible(c) ==
    LET k == MatchKey(c) IN
    /\ contracts[c].synced
    /\ Assignee[c] # None
    /\ reimb[k].status = "pending" /\ reimb[k].contract = None
    /\ LiveFor(fulfillments, k) # {}

\* run_one reads the candidates and scores them (the score is not modelled) ...
MatchRead(p) ==
    /\ pollers[p].phase = "synced"
    /\ \E good \in BOOLEAN :
            pollers' = [pollers EXCEPT
                ![p].phase = "scored",
                ![p].match = good /\ Eligible(pollers[p].contract)]
    /\ UNCHANGED <<vars, esi, contracts, suggestions>>

\* ... and inserts the suggestion, unless the row exists already or its
\* reimbursement is gone.
MatchInsert(p) ==
    LET c == pollers[p].contract
        k == MatchKey(c)
    IN
    /\ pollers[p].phase = "scored"
    /\ suggestions' =
            IF /\ pollers[p].match
               /\ reimb[k].status # "absent"
               /\ suggestions[<<c, k>>] = "none"
            THEN [suggestions EXCEPT ![<<c, k>>] = "pending"] ELSE suggestions
    /\ pollers' = [pollers EXCEPT ![p].phase = "matched", ![p].match = FALSE]
    /\ UNCHANGED <<vars, esi, contracts>>

\* handle_contract_terminal, for a contract whose status changed in this poll.
Terminal(p) ==
    LET c == pollers[p].contract
        s == pollers[p].status
    IN
    /\ pollers[p].phase = "matched"
    /\ \/ /\ pollers[p].changed /\ s \in Success
          /\ SettleViaContract(c, reimb, contracts[c].expected)
          /\ UNCHANGED suggestions
       \/ /\ pollers[p].changed /\ s \in Failure
          /\ UnbindContract(c)
       \/ /\ ~pollers[p].changed \/ s \in Live
          /\ UNCHANGED <<items, list, reimb, outbox, contracts, suggestions>>
    /\ pollers' = [pollers EXCEPT ![p] = IdlePoller]
    /\ UNCHANGED <<claims, claimItems, activeItems, fulfillments, esi>>

\* The worker dies, or advance_cursor, sync_pending_items or the transaction of
\* handle_contract_terminal returns an error: the rest of the poll is dropped.
Abandon(p) ==
    /\ CanFail
    /\ pollers[p].phase # "idle"
    /\ pollers' = [pollers EXCEPT ![p] = IdlePoller]
    /\ UNCHANGED <<vars, esi, contracts, suggestions>>

-----------------------------------------------------------------------------
(* The API.                                                                *)

\* validate_link.
ValidLink(u, c, k) ==
    /\ reimb[k].status = "pending" /\ reimb[k].contract = None
    /\ u = k[2] /\ u = Issuer[c]
    /\ Assignee[c] \in {None, k[1]}

\* Mutant of NotConfirmedElsewhere: no unique index.
MutantNotConfirmedElsewhere(c, k) == TRUE

\* The index one_confirmed_suggestion_per_reimbursement.
NotConfirmedElsewhere(c, k) ==
    \A d \in Contracts \ {c} : suggestions[<<d, k>>] # "confirmed"

\* finalize_link: bind, refresh the expected total, and settle at once if the
\* contract has already finished.
FinalizeLink(c, k) ==
    LET rr == [reimb EXCEPT ![k].contract = c] IN
    /\ suggestions' = [suggestions EXCEPT ![<<c, k>>] = "confirmed"]
    /\ IF contracts[c].status \in Success
       THEN SettleViaContract(c, rr, ExpectedTotal(rr, c))
       ELSE /\ reimb' = rr
            /\ contracts' = [contracts EXCEPT ![c].expected = ExpectedTotal(rr, c)]
            /\ UNCHANGED <<items, list, outbox>>
    /\ UNCHANGED <<claims, claimItems, activeItems, fulfillments, esi, pollers>>

Confirm(u, c, k) ==
    /\ suggestions[<<c, k>>] = "pending"
    /\ ValidLink(u, c, k)
    /\ NotConfirmedElsewhere(c, k)
    /\ FinalizeLink(c, k)

ManualLink(u, c, k) ==
    /\ contracts[c].status # "unknown"
    /\ ValidLink(u, c, k)
    /\ NotConfirmedElsewhere(c, k)
    /\ FinalizeLink(c, k)

Reject(u, c, k) ==
    /\ suggestions[<<c, k>>] = "pending"
    /\ u = Issuer[c]
    /\ suggestions' = [suggestions EXCEPT ![<<c, k>>] = "rejected"]
    /\ UNCHANGED <<vars, esi, contracts, pollers>>

\* do_unlink: the issuer, unless the contract has finished.
Unlink(u, c) ==
    /\ contracts[c].status \notin Success \cup {"unknown"}
    /\ u = Issuer[c]
    /\ reimb' = Unbind(c)
    /\ suggestions' = [s \in Pairs |->
            IF s[1] = c /\ suggestions[s] = "confirmed" THEN "superseded"
            ELSE suggestions[s]]
    /\ contracts' = [contracts EXCEPT ![c].expected = ExpectedTotal(reimb', c)]
    /\ UNCHANGED <<items, list, outbox, claims, claimItems, activeItems,
                   fulfillments, esi, pollers>>

\* A request on the list.  Suggestions go with the reimbursements they name.
ListStep ==
    /\ Next
    /\ suggestions' = [s \in Pairs |-> IF reimb'[s[2]].status = "absent" THEN "none"
                                       ELSE suggestions[s]]
    /\ UNCHANGED <<esi, contracts, pollers>>

-----------------------------------------------------------------------------
ContractInit ==
    /\ Init
    /\ esi = [c \in Contracts |-> "unknown"]
    /\ contracts = [c \in Contracts |-> NoContract]
    /\ suggestions = [s \in Pairs |-> "none"]
    /\ pollers = [p \in Pollers |-> IdlePoller]

Poll(p) == \/ \E c \in Contracts : Fetch(p, c)
           \/ UpsertContract(p) \/ SyncItems(p) \/ MatchRead(p) \/ MatchInsert(p)
           \/ Terminal(p)

LinkRequest(u) ==
    \E c \in Contracts :
        \/ \E k \in Keys : Confirm(u, c, k) \/ ManualLink(u, c, k) \/ Reject(u, c, k)
        \/ Unlink(u, c)

ContractNext ==
    \/ ListStep
    \/ \E c \in Contracts, s \in Statuses : EsiAdvance(c, s)
    \/ \E p \in Pollers : Poll(p) \/ Abandon(p)
    \/ \E u \in Users : LinkRequest(u)

ContractSpec == ContractInit /\ [][ContractNext]_allVars

\* drive_slot runs every job for ever and catches its panics, so a poller that
\* does not fail keeps polling; users and EVE owe nobody a step.
FairSpec == ContractSpec /\ \A p \in Pollers : WF_allVars(Poll(p))

-----------------------------------------------------------------------------
(* Properties.                                                             *)

\* The contract tables hold rows of their type.
ContractTypeOK ==
    /\ TypeOK
    /\ esi \in [Contracts -> Statuses \cup {"unknown"}]
    /\ contracts \in [Contracts -> [status : Statuses \cup {"unknown"}, synced : BOOLEAN,
                                    expected : Totals, delta : Totals \cup {None}]]
    /\ suggestions \in [Pairs -> {"none", "pending", "confirmed", "rejected", "superseded"}]
    /\ pollers \in [Pollers -> [phase : {"idle", "fetched", "upserted", "synced",
                                         "scored", "matched"},
                                contract : Contracts \cup {None},
                                status : Statuses \cup {"unknown"},
                                changed : BOOLEAN, match : BOOLEAN]]

\* A pending reimbursement is bound only to a contract between its own two
\* parties, which its hauler confirmed, and which no other confirmation contradicts.
BoundIsConfirmed ==
    \A k \in Keys : reimb[k].contract # None =>
        LET c == reimb[k].contract IN
        /\ Issuer[c] = k[2] /\ Assignee[c] \in {None, k[1]}
        /\ contracts[c].status # "unknown"
        /\ reimb[k].status = "pending" =>
            \A d \in Contracts : suggestions[<<d, k>>] = "confirmed" <=> d = c

\* Both: the tables are well typed, and a reimbursement is bound to what its hauler
\* confirmed, through every confirm, reject, link, unlink and failed contract.
ContractInv == ContractTypeOK /\ BoundIsConfirmed

\* No settlement is lost: a pending reimbursement bound to a contract the database
\* knows to have finished is about to be settled by a poll that saw the change.
\* Nobody else can settle it: settle_reimbursement refuses a bound row and
\* do_unlink a finished contract.
NoLostSettlement ==
    \A k \in Keys :
        (/\ reimb[k].status = "pending" /\ reimb[k].contract # None
         /\ contracts[reimb[k].contract].status \in Success)
        => \E p \in Pollers : /\ pollers[p].contract = reimb[k].contract
                              /\ pollers[p].changed /\ pollers[p].status \in Success

\* Every settlement is announced, whichever of the three ways it came about: by
\* hand, by a poll, or by linking a contract that has already finished; and only
\* settlements are.
SettlementsAnnounced ==
    list.status # "deleted" =>
        \A k \in Keys : reimb[k].status = "settled" <=> Event("settled", k) \in outbox

\* Once EVE says that a contract has finished, whatever is bound to it is settled
\* or set free again.
FinishedSettles ==
    \A c \in Contracts, k \in Keys :
        (esi[c] \in Success /\ reimb[k].contract = c /\ reimb[k].status = "pending")
            ~> ~(reimb[k].contract = c /\ reimb[k].status = "pending")

\* What map_confirmed_dup tells the hauler: a reimbursement confirmed against a
\* contract is bound to it, so that a free one can be linked again.  unbind_contract
\* does not keep it (it leaves the confirmed suggestion), so no run checks it; the
\* README describes the behaviour.
ConfirmedIsBound ==
    \A s \in Pairs : suggestions[s] = "confirmed" => reimb[s[2]].contract = s[1]

=============================================================================
