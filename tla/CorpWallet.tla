----------------------------- MODULE CorpWallet -----------------------------
(* The corporation wallet job (worker/src/jobs/corp_wallet.rs) and the       *)
(* wallet verification it triggers (settlement: verify_contract_against_     *)
(* journal). A run polls the due corporations, each through its ambassadors, *)
(* and then verifies the contracts the journals named. Journal rows are      *)
(* committed one by one; a run may fail or be killed between any two         *)
(* statements. Every journal entry of kind "price" pays one unit.            *)
EXTENDS Integers, FiniteSets, Sequences, SequencesExt

CONSTANTS
    Corps, Contracts, Reimbursements,
    AmbassadorsOf,  \* usable rows of corp_ambassadors, for each corporation
    Losable,        \* ambassadors that may lose the wallet role in EVE
    Broken,         \* ambassadors whose calls fail with an error that is not a 403
    Divisions,      \* wallets are 1 .. Divisions
    Entries,        \* journal entries that EVE may publish
    Payer,          \* payer corporation and division of a reimbursement's list
    Tried,          \* ambassadors tried in one poll
    Slice,          \* corporations polled in one run
    MaxFailures,    \* bound: failed statements and calls, and worker stops
    None

ASSUME WalletAssumption ==
    /\ Divisions \in Nat \ {0} /\ Slice \in Nat \ {0} /\ Tried \in Nat \ {0}
    /\ MaxFailures \in Nat
    /\ IsFiniteSet(Corps) /\ IsFiniteSet(Entries)
    /\ \A k \in Corps : IsFiniteSet(AmbassadorsOf[k])
    /\ \A e \in Entries : e.corp \in Corps /\ e.div \in 1 .. Divisions /\ e.ctx \in Contracts

(* A contract's price is paid once, and its two sides are not the same       *)
(* corporation: each of them has at most one entry for it.                   *)
ASSUME SidesAssumption ==
    \A e, f \in Entries :
        e.kind = "price" /\ f.kind = "price" /\ e.ctx = f.ctx /\ e.corp = f.corp => e = f

VARIABLES
    posted,     \* EVE: journal entries published
    access,     \* EVE: ambassadors that hold the wallet role
    journal,    \* corp_wallet_journal
    contracts,  \* rows of contracts: source_corp_id and the verified aggregate
    bound,      \* reimbursements.contract_id
    verified,   \* reimbursements.verified_by_wallet
    late,       \* history: reimbursements bound after the contract was verified
    errored,    \* ambassadors with last_auth_error_at within the hour
    queue,      \* ambassadors by last_used_at, an order for each corporation
    order,      \* corporations by wallet_next_poll_at
    due,        \* corporations whose wallet_next_poll_at has passed
    poll,       \* poll_one_corp_wallet of each corporation
    found,      \* contracts the run has to verify
    running,    \* is a run under way
    failures    \* how many failures there were

esiVars == <<posted, access>>
rowVars == <<contracts, bound, verified, late>>
walletVars == <<posted, access, journal, contracts, bound, verified, late,
                errored, queue, order, due, poll, found, running, failures>>

Ambassadors == UNION {AmbassadorsOf[k] : k \in Corps}

(* ORDER BY a timestamp: the total orders of a set, as sets of pairs <<a, b>> *)
(* where a does not come after b, and the same order with xs stamped now.    *)
Orders(S) == {R \in SUBSET (S \X S) :
                /\ \A a, b \in S : <<a, b>> \in R \/ <<b, a>> \in R
                /\ \A a, b \in S : <<a, b>> \in R /\ <<b, a>> \in R => a = b
                /\ \A a, b, c \in S : <<a, b>> \in R /\ <<b, c>> \in R => <<a, c>> \in R}
Later(R, S, xs) == {p \in R : p[1] \in xs => p[2] \in xs} \cup ((S \ xs) \X xs)

WalletInit ==
    /\ posted = {} /\ access = Ambassadors /\ journal = {}
    /\ contracts = [x \in Contracts |-> [known |-> FALSE, source |-> None, payout |-> 0]]
    /\ bound = [r \in Reimbursements |-> None]
    /\ verified = {} /\ late = {} /\ errored = {}
    /\ queue \in {q \in [Corps -> UNION {Orders(AmbassadorsOf[k]) : k \in Corps}] :
                    \A k \in Corps : q[k] \in Orders(AmbassadorsOf[k])}
    /\ order \in Orders(Corps) /\ due = Corps
    /\ poll = [k \in Corps |-> None] /\ found = {} /\ running = FALSE /\ failures = 0
-----------------------------------------------------------------------------
(* EVE and the other parts of the system. *)
Post(e) ==
    /\ e \notin posted /\ posted' = posted \cup {e}
    /\ UNCHANGED <<access, journal, rowVars, errored, queue, order, due, poll, found, running, failures>>

LoseRole(a) ==
    /\ a \in access \cap Losable /\ access' = access \ {a}
    /\ UNCHANGED <<posted, journal, rowVars, errored, queue, order, due, poll, found, running, failures>>

(* upsert_contract, by a character poller (no corporation) or a corporation's. *)
Upsert(x, k) ==
    /\ contracts' = [contracts EXCEPT ![x].known = TRUE,
                                      ![x].source = IF k = None THEN @ ELSE k]
    /\ UNCHANGED <<esiVars, journal, bound, verified, late, errored, queue, order, due,
                   poll, found, running, failures>>

(* finalize_link; unbind_contract and do_unlink, while the contract's own    *)
(* row does not yet say that it finished.                                    *)
Bind(r, x) ==
    /\ contracts[x].known /\ bound[r] = None
    /\ bound' = [bound EXCEPT ![r] = x]
    /\ late' = IF contracts[x].payout > 0 THEN late \cup {r} ELSE late
    /\ UNCHANGED <<esiVars, journal, contracts, verified, errored, queue, order, due,
                   poll, found, running, failures>>

Unbind(r) ==
    /\ bound[r] # None
    /\ bound' = [bound EXCEPT ![r] = None]
    /\ UNCHANGED <<esiVars, journal, contracts, verified, late, errored, queue, order, due,
                   poll, found, running, failures>>

(* An hour, and the poll interval, pass. *)
Cool(a) ==
    /\ a \in errored /\ errored' = errored \ {a}
    /\ UNCHANGED <<esiVars, journal, rowVars, queue, order, due, poll, found, running, failures>>

Elapse(k) ==
    /\ k \notin due /\ poll[k] = None /\ due' = due \cup {k}
    /\ UNCHANGED <<esiVars, journal, rowVars, errored, queue, order, poll, found, running, failures>>
-----------------------------------------------------------------------------
(* run: the most overdue corporations are polled. One without a usable       *)
(* ambassador has its cursor advanced at once.                               *)
First(seq, n) == SubSeq(seq, 1, IF Len(seq) < n THEN Len(seq) ELSE n)
Ranked(S, R) == {s \in SetToSeqs(S) : \A i, j \in DOMAIN s : i < j => <<s[i], s[j]>> \in R}
MostOverdue == {k \in due : Cardinality({j \in due : <<j, k>> \in order}) <= Slice}
Usable(k) == {First(s, Tried) : s \in Ranked(AmbassadorsOf[k] \ errored, queue[k])}
MutantAdvanceCursors(ks) == UNCHANGED <<order, due>>
AdvanceCursors(ks) == order' = Later(order, Corps, ks) /\ due' = due \ ks

Tick ==
    /\ ~running /\ due # {}
    /\ running' = TRUE
    /\ \E usable \in [Corps -> UNION {Usable(k) : k \in Corps}] :
       LET started == {k \in MostOverdue : usable[k] # <<>>} IN
       /\ \A k \in Corps : usable[k] \in Usable(k)
       /\ poll' = [k \in Corps |-> IF k \in started
                                   THEN [todo |-> usable[k], div |-> 0, fresh |-> {}]
                                   ELSE None]
       /\ AdvanceCursors(MostOverdue \ started)
    /\ UNCHANGED <<esiVars, journal, rowVars, errored, queue, found, failures>>

End(k) == poll' = [poll EXCEPT ![k] = None]
Amb(k) == Head(poll[k].todo)
AtBalances(k) == poll[k] # None /\ poll[k].div = 0
AtDivision(k) == poll[k] # None /\ poll[k].div \in 1 .. Divisions

(* The next ambassador, or none is left. *)
NextAmbassador(k) ==
    IF Len(poll[k].todo) > 1
    THEN /\ poll' = [poll EXCEPT ![k].todo = Tail(@)] /\ UNCHANGED <<order, due>>
    ELSE End(k) /\ AdvanceCursors({k})

Fail == failures < MaxFailures /\ failures' = failures + 1

(* authed_client_for fails. *)
NoClient(k) ==
    /\ AtBalances(k) /\ NextAmbassador(k) /\ Fail
    /\ UNCHANGED <<esiVars, journal, rowVars, errored, queue, found, running>>

BalancesForbidden(k) ==
    /\ AtBalances(k) /\ Amb(k) \notin access
    /\ errored' = errored \cup {Amb(k)}
    /\ NextAmbassador(k)
    /\ UNCHANGED <<esiVars, journal, rowVars, queue, found, running, failures>>

(* Any other error, also between two journal rows: the poll ends, and the    *)
(* cursor stays.                                                             *)
New(k) == {e \in posted \ journal : e.corp = k /\ e.div = poll[k].div}
PollError(k, es) ==
    /\ \/ AtBalances(k) /\ es = {}
       \/ AtDivision(k) /\ es \subseteq New(k)
    /\ journal' = journal \cup es
    /\ IF Amb(k) \in Broken THEN UNCHANGED failures ELSE Fail
    /\ End(k) /\ UNCHANGED <<esiVars, rowVars, errored, queue, order, due, found, running>>

BalancesOk(k) ==
    /\ AtBalances(k) /\ Amb(k) \in access \ Broken
    /\ poll' = [poll EXCEPT ![k].div = 1]
    /\ UNCHANGED <<esiVars, journal, rowVars, errored, queue, order, due, found, running, failures>>

(* A 403 in the middle: the ambassador is marked, "do NOT advance cursor". *)
JournalForbidden(k) ==
    /\ AtDivision(k) /\ Amb(k) \notin access
    /\ errored' = errored \cup {Amb(k)}
    /\ End(k) /\ UNCHANGED <<esiVars, journal, rowVars, queue, order, due, found, running, failures>>

JournalOk(k, d) ==
    /\ AtDivision(k) /\ poll[k].div = d /\ Amb(k) \in access \ Broken
    /\ journal' = journal \cup New(k)
    /\ poll' = [poll EXCEPT ![k].div = d + 1, ![k].fresh = @ \cup {e.ctx : e \in New(k)}]
    /\ UNCHANGED <<esiVars, rowVars, errored, queue, order, due, found, running, failures>>

(* Contracts of new rows, and contracts of this corporation's rows that were *)
(* never verified.                                                           *)
MutantBackfill(k) == {}
Backfill(k) == {x \in Contracts : contracts[x].payout = 0
                                  /\ \E e \in journal : e.corp = k /\ e.ctx = x}
PollDone(k) ==
    /\ poll[k] # None /\ poll[k].div > Divisions
    /\ found' = found \cup {x \in poll[k].fresh \cup Backfill(k) : contracts[x].known}
    /\ queue' = [queue EXCEPT ![k] = Later(@, AmbassadorsOf[k], {Amb(k)})]
    /\ End(k) /\ AdvanceCursors({k})
    /\ UNCHANGED <<esiVars, journal, rowVars, errored, running, failures>>
-----------------------------------------------------------------------------
(* verify_contract_against_journal: the payer's wallet if a bound list has   *)
(* one, else the corporation that discovered the contract, else every row.   *)
Payers(x) == {Payer[r] : r \in {r \in Reimbursements : bound[r] = x /\ Payer[r] # None}}
MutantScoped(x, payer, e) == payer # None => e.corp = payer.corp /\ e.div = payer.div
Scoped(x, payer, e) ==
    IF payer # None THEN e.corp = payer.corp /\ e.div = payer.div
    ELSE contracts[x].source \in {None, e.corp}
Payout(x, payer, rows) ==
    Cardinality({e \in rows : e.ctx = x /\ e.kind = "price" /\ Scoped(x, payer, e)})
PayerChoice(x) == IF Payers(x) = {} THEN {None} ELSE Payers(x)

MutantBoundTo(x) == {r \in Reimbursements : bound[r] = x /\ Payer[r] = None}
BoundTo(x) == {r \in Reimbursements : bound[r] = x}
Verify(x, payer) ==
    /\ running /\ (\A k \in Corps : poll[k] = None) /\ x \in found /\ payer \in PayerChoice(x)
    /\ LET sum == Payout(x, payer, journal) IN
       /\ contracts' = [contracts EXCEPT ![x].payout = IF sum > 0 THEN sum ELSE @]
       /\ verified' = IF sum > 0 THEN verified \cup BoundTo(x) ELSE verified
    /\ found' = found \ {x}
    /\ UNCHANGED <<esiVars, journal, bound, late, errored, queue, order, due, poll, running, failures>>

VerifyFails(x) ==
    /\ running /\ (\A k \in Corps : poll[k] = None) /\ x \in found
    /\ found' = found \ {x} /\ Fail
    /\ UNCHANGED <<esiVars, journal, rowVars, errored, queue, order, due, poll, running>>

RunDone ==
    /\ running /\ (\A k \in Corps : poll[k] = None) /\ found = {}
    /\ running' = FALSE
    /\ UNCHANGED <<esiVars, journal, rowVars, errored, queue, order, due, poll, found, failures>>

(* The worker is stopped and started again. *)
Crash ==
    /\ running /\ running' = FALSE /\ found' = {} /\ poll' = [k \in Corps |-> None]
    /\ Fail /\ UNCHANGED <<esiVars, journal, rowVars, errored, queue, order, due>>
-----------------------------------------------------------------------------
PollStep(k) ==
    \/ NoClient(k) \/ BalancesForbidden(k) \/ BalancesOk(k) \/ JournalForbidden(k)
    \/ \E es \in SUBSET Entries : PollError(k, es)
    \/ \E d \in 1 .. Divisions : JournalOk(k, d)
    \/ PollDone(k)

WalletNext ==
    \/ \E e \in Entries : Post(e)
    \/ \E a \in Ambassadors : LoseRole(a) \/ Cool(a)
    \/ \E x \in Contracts : \/ \E k \in Corps \cup {None} : Upsert(x, k)
                            \/ \E r \in Reimbursements : Bind(r, x)
                            \/ VerifyFails(x)
                            \/ \E payer \in PayerChoice(x) : Verify(x, payer)
    \/ \E r \in Reimbursements : Unbind(r)
    \/ \E k \in Corps : Elapse(k) \/ PollStep(k)
    \/ Tick \/ RunDone \/ Crash

WalletSpec == WalletInit /\ [][WalletNext]_walletVars

(* The driver starts a run whenever none is under way; hours and intervals   *)
(* pass; a poll goes on. Failures are bounded, so a call that can succeed    *)
(* does in the end.                                                          *)
WalletFairSpec ==
    /\ WalletSpec
    /\ WF_walletVars(Tick \/ RunDone)
    /\ \A a \in Ambassadors : WF_walletVars(Cool(a))
    /\ \A k \in Corps : WF_walletVars(Elapse(k)) /\ WF_walletVars(PollStep(k))
    /\ \A x \in Contracts : WF_walletVars(\E payer \in PayerChoice(x) : Verify(x, payer))
-----------------------------------------------------------------------------
(* The tables are well typed, every corporation keeps its place among the    *)
(* cursors and every ambassador its place in the rotation, and only a run    *)
(* polls.                                                                    *)
WalletTypeOK ==
    /\ posted \subseteq Entries /\ journal \subseteq posted
    /\ contracts \in [Contracts -> [known : BOOLEAN, source : Corps \cup {None}, payout : Nat]]
    /\ bound \in [Reimbursements -> Contracts \cup {None}]
    /\ verified \subseteq Reimbursements /\ errored \subseteq Ambassadors
    /\ due \subseteq Corps /\ order \in Orders(Corps)
    /\ \A k \in Corps : queue[k] \in Orders(AmbassadorsOf[k])
    /\ (\E k \in Corps : poll[k] # None) => running

(* When both sides' wallets are linked a contract shows in both journals: a  *)
(* verification that knows the payer or the discovering corporation counts   *)
(* one of them (lib.rs: "to prevent double-counting when both sides' wallets *)
(* are linked"), whatever was polled, bound and discovered before.           *)
CountedOnce ==
    [][\A x \in Contracts :
         contracts'[x].payout > contracts[x].payout /\ contracts'[x].payout > 1
           => contracts[x].source = None /\ Payers(x) = {}]_walletVars

(* A reimbursement of a verified contract is marked verified, unless it was  *)
(* bound after the verification: nothing verifies it then.                   *)
MissedOnlyLate ==
    \A r \in Reimbursements :
        bound[r] # None /\ contracts[bound[r]].payout > 0 => r \in verified \cup late

(* Both: well-typed rows, and no reimbursement missed for another reason     *)
(* than a late link, across polls, failures and verifications.               *)
WalletInv == WalletTypeOK /\ MissedOnlyLate

(* The payment of a known contract is verified in the end: also when the     *)
(* journal row came before the contract, when a poll failed after it had     *)
(* inserted the row, and when an ambassador lost its role or the worker was  *)
(* stopped in between (corp_wallet.rs: "covers the race where a journal row  *)
(* arrived before the contract was created").                                *)
PaymentVerified ==
    \A x \in Contracts :
        (<>[](contracts[x].known /\ \A p \in PayerChoice(x) : Payout(x, p, posted) > 0))
          => <>(contracts[x].payout > 0)

(* "Pick corps whose wallet_next_poll_at is due": a due corporation is polled. *)
DueCorpPolled == \A k \in Corps : k \in due ~> poll[k] # None
=============================================================================
