# JitaCart in TLA+

JitaCart coordinates shopping for groups of EVE Online players. A member puts items on a list,
a hauler claims and buys them, and the requester, or a paying corporation, reimburses the hauler,
by hand or through an in-game contract that the worker discovers and matches. This directory
models the parts of the backend that decide who owes what to whom, who may act for whom, and what
must survive concurrency and crashes. TLC checks the models on small instances. TLAPS proves the
safety properties for every instance.

## Inventory

| Component | State | Operations | Interacts with |
|---|---|---|---|
| List life cycle (`api/src/lists/crud.rs`, `lists.rs`) | `lists` | create, patch status, delete | everything hangs off the list and goes with it by cascade |
| Items (`api/src/lists/items.rs`) | `list_items` | add, patch, delete | status is recomputed by claims and fulfillments |
| Claims (`api/src/fulfillment/claims.rs`) | `claims`, `claim_items` | create, add items, remove item, release | trigger `sync_claim_items_active`; completed by a purchase |
| Fulfillments (`api/src/fulfillment/fulfillments.rs`) | `fulfillments` | record, reverse, mark delivered | recompute the item, upsert the reimbursement |
| Reimbursements (`api/src/fulfillment/reimbursements.rs`, `settlement`) | `reimbursements` | upsert, settle | flips items, closes the list, enqueues a webhook |
| Tips (`tips.rs`), payer (`corps.rs`) | columns of `lists` | set tip, set payer | rewrite or forbid reimbursements |
| Extractors, transaction middleware (`extract.rs`, `db.rs`) | none | test before the lock, commit, roll back | every request |
| Contract API (`api/src/contracts.rs`) | `contract_match_suggestions`, `contracts` | confirm, reject, link, unlink | settlement crate |
| Contract pollers, matcher (`worker/src/jobs/contracts*`, `corp_contracts.rs`) | `contracts`, cursors | fetch, upsert, sync items, match, settle or unbind | ESI, settlement crate |
| Settlement crate (`settlement/src/lib.rs`) | none of its own | settle by hand, settle by contract, unbind, expected total, auto-close, wallet verification | API and worker |
| Webhook outbox (`pending_webhooks.rs`, `webhook-dispatch`) | `pending_webhooks` | enqueue, lease, post, retry, give up | enqueued by API and worker |
| Job driver (`worker/src/main.rs`) | none | run each job for ever | all jobs |
| Wallet verification (`corp_wallet.rs`) | journal, `wallet_next_poll_at`, verified flags | poll through an ambassador, verify, back off | contracts, reimbursements, ambassadors |
| Groups and quotas (`groups.rs`, `lists.rs`) | groups, memberships | create, join, leave, delete, rotate invite, count | everything is scoped by membership |
| Corporations, ambassadors (`corps.rs`) | `corps`, `group_corps`, `corp_ambassadors` | link, unlink, add, remove | corporation pollers; row-level security |
| Login (`auth.rs`) | sessions, users, characters | login, attach, upgrade, callback, logout | token store |
| Token store (`auth-tokens`) | cached clients, encrypted tokens | refresh, persist, re-encrypt | every job that calls EVE |
| ESI budget (`auth-tokens/src/budget.rs`) | one gauge | test, charge, reset | every job that calls EVE |
| Citadels (`citadel_*.rs`, `csa.rs`, `citadels.rs`) | `markets`, `character_structure_access` | discover, resolve, refresh, track | budget, token store |
| Prices, market data, run planning, multibuy | price caches | poll, estimate, parse | list display |
| Frontend | none of the system's | | |

What is hard here:

- Requests run in READ COMMITTED transactions. The extractors read the list or the claim before
  the row lock of the list is taken, and `patch_list_payer` takes no lock.
- One fact is stored several times: a claim, its `active` rows and the item's status;
  `qty_fulfilled` and the fulfillments; a reimbursement and the purchases it adds up;
  `expected_total_isk` and the reimbursements bound to the contract.
- Two haulers may share an item, and one hauler may serve several requesters.
- A poll is a sequence of transactions with HTTP in between. Two pollers may see the same contract.
- The worker may die at any point, and there may be several workers.
- `settle_via_contract` locks the contract and its reimbursements, requests lock the list; each SQL
  statement sees another snapshot, and a row it waited for is tested again alone.
- A request's transaction and the browser session are two stores that end differently: the first by
  the status of the response, the second by itself.
- A refresh token is used up when it is refreshed; the database, the cache of each process and EVE
  must agree on which one is alive, while a sweep rewrites the same rows under a new key.
- Row-level security changes what a statement counts, also within one transaction.
- A poller that cannot make progress for one corporation or structure must not starve the others.

What makes each part correct:

- list: claims agree, nothing is delivered short, bills are exact, a settled item is paid for, and
  settlement is final;
- contracts: a bound reimbursement is the confirmed one, no settlement is lost or unannounced, and
  a finished contract settles;
- outbox: a row leaves the table only for a good reason, is dispatched by one worker at a time, and
  leaves eventually;
- accounts and tokens: whoever is logged in has an account and nobody enters a foreign one; a
  living refresh token is lost in known ways only;
- groups and corporations: one owner, quotas, and no revocation of what another group contributed;
- wallet: a payment is verified in the end, and counted once;
- citadels: a structure is hidden only for a reason, lost access is found again although the budget
  defers ticks, and a structure that is gone is left alone.

The hazards, each with its line in the code and the properties aimed at it, are in `PROJECT.json`.

## Modules

| Module | Models | Extends |
|---|---|---|
| `ListFulfillment` | one list with its items, claims, fulfillments and reimbursements | |
| `ListFulfillmentProofs` | theorems about it | `ListFulfillment` |
| `RequestRaces` | the same requests with test and lock apart | `ListFulfillment` |
| `ContractSettlement` | pollers, matcher, contract API and settlement crate, composed with the list | `ListFulfillment` |
| `ContractSettlementProofs` | theorems about it | `ContractSettlement`, `ListFulfillmentProofs` |
| `Outbox` | what the outbox promises (abstract) | |
| `PendingWebhooks` | the table and its drainers; refines `Outbox` | |
| `PendingWebhooksProofs` | theorems about it | `PendingWebhooks` |
| `SettlementRows` | settlement and purchases as SQL statements with row locks | |
| `SettlementRowsProofs` | theorems about it | `SettlementRows` |
| `CharacterRows` | keys and row locks of `characters`, shared by the next two | |
| `Accounts` | login, attach, upgrade, sessions, under the transaction middleware | `CharacterRows` |
| `TokenStore` | cached clients, rotation, re-encryption, beside row locks of logins | `CharacterRows` |
| `TokenStoreProofs` | theorems about accounts and tokens | `Accounts`, `TokenStore` |
| `Corporations` | groups, quotas, corporation links and ambassadors under row-level security | |
| `CorporationsProofs` | theorems about it | `Corporations` |
| `CorpWallet` | wallet polls and journal verification | |
| `CorpWalletProofs` | theorems about it | `CorpWallet` |
| `Citadels` | discovery, details and orders jobs with the error budget | |
| `CitadelsProofs` | theorems about it | `Citadels` |
| `MC*` | constants and symmetry for TLC | |

### ListFulfillment

Each variable is a table. An action is one API request, the whole handler, including the recompute
of the item, the upsert of the reimbursement, the completion of the claim, the auto-close and the
webhook it enqueues (`outbox`). `Op` is the extractor's test followed by `OpLocked`, what happens
under the row lock.

Money is abstracted to what it is a sum of. A subtotal is the set of fulfillments added up, a tip
is the percentage it was computed with. `qty_fulfilled` (`filled`) is likewise the set of
fulfillments summed; `Units` counts it. Two amounts that could differ in ISK differ in the model.
The type of an item, names and locations are left out.

Bounds: `MaxFulfillments` purchases in a behaviour, quantities up to `MaxQty`, and finite sets of
items and claims whose identifiers are not reused (an item identifier is, once its row and all that
hangs off it is gone).

### RequestRaces

A request of a process in `Procs` is first admitted (`Passes`: what the extractor tests) and later
executed (`Locked`: the handler under the lock, on the tables as they are then), or rolled back.
Everybody else's requests are atomic. `reverse_fulfillment` reads everything again under the lock
and `settle_reimbursement` tests under it, so neither is split.

### ContractSettlement

`esi` is the truth in EVE and advances by itself (external). A poller goes through `Fetch`,
`UpsertContract`, `SyncItems`, `MatchRead`, `MatchInsert` and `Terminal`, each one transaction or
one HTTP call, and anybody may run in between. `Abandon` is a crash or an error that ends a poll.
A poll follows one contract; the code fetches a page and treats its contracts one by one. The
score of a match is a free choice. `expected` and `delta` are sets of the summands of the ISK
columns. Contracts issued by a corporation cannot be linked by `validate_link` and are left out.
`settle_via_contract` is one step here; `SettlementRows` takes it apart.

### Outbox and PendingWebhooks

`Outbox` states the promise: a message leaves the box only if it was received, is unwanted or
unreadable, has failed `MaxTries` times, or its group is gone. `PendingWebhooks` is the table and
any number of drainers with their memory (`batch`, `seen` attempts, `current` post). `Tick` passes
time, and only posts take time, at most `SendTimeout` each. `received` and `failures` are history
variables. `WebhookAssumption` demands `Batch * SendTimeout < LeaseTime`; the code has
50 * 10 s < 600 s.

### SettlementRows

One list of one requester. `db` holds the committed rows, `mine` what a transaction has written,
`lock` the row locks. A statement starts on what is committed then (`Start`, with the rows it has to
lock in any order), and goes on row by row as the locks are granted (`Grant`); the row it waited
for is tested again, its subqueries are not. A contract's terminal transaction is a process of its
own. `FinishContract` and what follows are `upsert_contract`, `handle_contract_terminal` and
`settle_via_contract`; `Link` is `do_confirm` or `do_manual_link`. A cycle of waits is ended by
`DeadlockVictim`. `raced` is a history variable: the purchases whose request overlapped the
settlement of their hauler. Purchases are of one unit; claims, tips and the payer, which these
statements do not read, are left out.

### Accounts and TokenStore

`Accounts`: a session's `pending` login becomes a `login` in flight with the callback, whose
`Lookup` (`SELECT ... FOR UPDATE`, choice of the user, cap) and `Write` are two steps. A row that does not
exist cannot be locked. `Write` ends the request with a redirect: `tx_middleware` commits a 2xx only, so
the rows are rolled back and the session is saved. `WriteFails` is the foreign key of a user who was
rolled back earlier. A session is saved as a whole after a response that is not a 5xx (the session layer
is external). No step of the API creates a user or a linked character that stays, so `AccountsInit`
allows any rows. `owner` is the EVE account, `Transfer` its sale.

`TokenStore`: processes with a cache of clients. `heap` holds the client objects, `cache` points to
them, and a job keeps the one it got. A job goes through `LoadTokens`, `LookUpClient`, `RemoveStale`,
`InsertClient` (`authed_client_for`, whose look-up, removal and insertion are apart), `EndCalls` (or
`CallsFail`, after which the code does not persist), `PersistSwap` (the hash is swapped first) and
`PersistWrite` or `PersistFail`. `persist_rotations` holds its reference into the map until the
`UPDATE` is done, so no entry is removed or replaced meanwhile (`Persisting`). `strayed` is a history
variable: tokens of clients that are not in the cache. `Refresh` is the ESI client (external). It assumes
`CallsAreShort`: an access token, stored beside its refresh token, lasts 20 minutes, so that a database
call or a removal that began before a refresh has ended by the next one. A login only locks a row, for
its transaction is rolled back. `SweepScan` and `SweepWrite` are one row of `reencrypt_stale`. `Bounce`
restarts a process with the new primary key. That a revoked scope is dropped from the row after a 403
(`contracts.rs`) is left out.

### Corporations

A request of the API is `Start` (the extractor reads the role), then the statements whose
interleaving matters, then its commit. `tables` change at the commit; the rows a request has locked
are told from its position (`HoldsUser`, `CorpLocked`, `LinkLocked`, `AmbLocked`). `IsGroupMember` and
`IsCorpMember` are the row-level security functions, applied to what a statement reads and writes.
There is one corporation, since nothing relates two.

### CorpWallet

A run (`Tick`) takes the most overdue corporations and polls each through its usable ambassadors:
balances, then the journal of each division, then `PollDone`, which collects the contracts to verify
and moves the cursor. `Verify` is `verify_contract_against_journal`. `PollError` may leave some rows of
a journal inserted. `order` and `queue` are the orders by `wallet_next_poll_at` and by `last_used_at`, as
sets of pairs; `Later` is an `UPDATE` of the timestamp.
Every price entry pays one unit, so a payout is a count.
All corporations are enabled. A tick that finds no error budget does nothing and is not a step; the
budget itself is in `Citadels`.

### Citadels

One structure. `docks` and `listed` are the truth in EVE; `status` and `checked` (the order by
`checked_at`, as pairs) are the access rows, `Candidates` what `select_candidates` returns, `task` a
refresh under way in each dimension. A job's `Tick` asks the budget once; the structure then waits for a
permit, and `Start` selects its candidates without asking again. `Cool`, `Resume`, `AgeOrders` and
`AgeDetails` let a back-off or an interval pass. `remaining` is the gauge of `EsiBudgetGuard`, charged at
each error, also by `OthersFail`: the other structures of the tick (up to 50 in `citadel_orders`, 75 in
`citadel_details`) and the jobs of other modules, which share it.

## Runs

Runs that pass:

| Run | Shows |
|---|---|
| `list` | owner and member, a possible corporation payer, two items, a claim, purchases in parts, reversals, edits, archive: `TypeOK`, `ClaimsAgree`, `NothingShort`, `BillingExact`, `SettledItemsPaid`, `SettlementIsFinal` |
| `contract_links` | two contracts, confirm, reject, link, unlink, cancel, failing polls: `ContractInv` (`ContractTypeOK` and `BoundIsConfirmed`) |
| `contract_settles` | a contract that may finish, fail or be reversed after it finished, polled for ever: `NoLostSettlement`, `SettlementsAnnounced`, `FinishedSettles`, `SettlementIsFinal` |
| `webhooks` | two drainers, crashes, time: `WebhookTypeOK`, `LeaseExclusive`, `ImplementsOutbox`, `EventuallyDrained` |
| `settlement_rows` | requests and contract transactions statement by statement: `RowsTypeOK`, `SettledUnpaidInRace`, `PendingIsExact`, `MissedOnlyInRace`, `DeadlockNeedsContract`, `BillFrozen` |
| `tokens` | two jobs of a worker with clients that replace each other, logins, key rotation, another worker's sweep, failing calls and writes: `TokenNotLost`, `SweepKeepsToken`, `SweepConverges`, `RotationPersisted` |
| `corporations` | requests of two users on groups and a corporation: `GroupsTypeOK`, `QuotaHeld`, `ListsOvershoot`, `RevokesOwnOnly` |
| `wallet` | two corporations, lost roles, failures, a crash: `WalletInv` (`WalletTypeOK` and `MissedOnlyLate`), `CountedOnce`, `PaymentVerified`, `DueCorpPolled` |
| `citadels` | changing access and listing, errors, a budget others use up: `CitadelsTypeOK`, `SoftDisable`, `AccessRecovers`, `GoneStops` |

Some of these state what the code does *not* promise, as tightly as it can be said.
`MissedOnlyInRace`: a purchase can be left out of a settled reimbursement, or be reversed after it,
but only if its transaction overlapped the settlement. `SettledUnpaidInRace`: an item can be settled
while somebody is still owed for it, but only after a purchase of it was reversed while the bill it was
in was being settled. `MissedOnlyLate`: a reimbursement bound after
the wallet verification is never marked. `ListsOvershoot`: a limit tested without a lock is exceeded by
at most what was in flight. `TokenNotLost` names the ways a token is lost: a failed `UPDATE`, a process
that stops, and a client replaced in the cache.

Runs that end in a counterexample, each a disagreement between the code and what a comment
in the repository says (quoted under `findings`):

| Run | What happens |
|---|---|
| `races_stale_claim` | a second item is added to a claim released meanwhile; it stays claimed by a released claim (the first item again would break the primary key of `claim_items`) |
| `login_rolled_back` | the redirect that ends a first login rolls the new user back and the session keeps it; whoever is logged in has no account |
| `contract_crash` | the worker stops between storing a final status and acting on it; the settlement is lost |

### Known disagreements without a run

The models also show these. Where a formula is named, it is in the module and fails on the instance
given.

- `delete_item` (`lists/items.rs:283`: "Block until the item is back to 'open' — i.e. no active claim
  and no non-reversed fulfillments"): a partly bought, unclaimed item is `open` and can be deleted;
  the reimbursement keeps counting it. `NoStaleTotals`, with `list.cfg`.
- `unbind_contract` leaves the confirmed suggestion of a failed contract, and the unique index then
  refuses every other contract for the freed reimbursement. `ConfirmedIsBound`, with
  `contract_links.cfg`.
- `recompute_item_status` (`fulfillment.rs`: "Never demotes settled."): `reverse_fulfillment` does not
  lock the item, so it can write back a status computed before a contract settled the item.
  `SettledNeverDemoted`, with `settlement_rows.cfg`.
- `settle_via_contract` (`settlement/src/lib.rs:435`, of the same guard: "guarding against premature
  settlement when another pending reimbursement from a different hauler still covers the same item")
  flips items without the list lock, and its `NOT EXISTS` is answered by the rows of the statement's
  start. While a contract's flip waits for an item that `reverse_fulfillment` has locked, the reversal
  commits, a third hauler buys the freed unit, the item is complete again, and the flip settles it
  although the third hauler is owed. `SettledIsPaid`, with `settlement_rows.cfg` changed to
  `Items = Initial = {i2}`, three haulers and fulfillments, two contracts and one request;
  `SettledUnpaidInRace` holds there.
- `unlink_corp` (`corps.rs:388`: "If no other group links this corp, disable it (stop polling)."): the
  count runs under row-level security and sees only links of the caller's groups, and misses a
  link that is being made. `LinkedCorpEnabled`, with `corporations.cfg`. For the same reason a caller
  who is in no other linking group revokes no ambassador at all, since the link is marked first.
- `poll_one_corp_wallet` returns an error other than a 403 without moving the cursor: a corporation
  whose calls always fail stays the most overdue one and starves the rest of the slice.
  `DueCorpPolled`, with `Broken = {a1}`, `Losable = {}` and `MaxFailures = 0`.
- `authed_client_for` (`store.rs:92-138`) fills the cache without a second look. Two jobs of a worker
  that meet a cold cache each build a client; one replaces the other, whose job goes on using it, and a
  token refreshed there is never seen by `persist_rotations` ("Pull the latest tokens out of the cached
  client and, if the refresh token has rotated, write the new ciphertext back"). The row keeps a token
  EVE has revoked. `TokenNotLost` without `strayed` in `Gone`, with `tokens.cfg`.
- The error budget (`budget.rs:5`: "To keep workers from collectively blowing past it, batches consult
  this guard before kicking off"): after one test a tick of `citadel_orders` makes up to 50 * 5 = 250 calls
  and one of `citadel_details` 75 * 5 = 375, all of which may fail, against a ceiling of 100; `npc_hubs`
  refreshes all its pairs after one test. The gauge stops at 0, so the excess is not even seen. No bound
  is stated.
- `link_corp` never persists a rotation, and the token store's comment asks callers to.
  `RotationPersisted`, with an API job `j3` in `Jobs`.
- `patch_item` lowers the quantity of a partly bought, unclaimed item to what was bought; the item
  stays `open` and cannot be delivered.
- With the extractor's test apart from the lock, a list archived in between is still changed, and
  `patch_list_payer` changes the payer after the first reimbursement exists (`ArchivedIsFrozen`, which
  holds for `Spec`, and, with a corporation, `BillingExact` fail under `RaceSpec`).
- A callback rolled back by its redirect also keeps a relinked or upgraded character's new token and
  scopes out of the row, although `backend/SECURITY.md:115` counts "new logins, scope upgrades" among the
  writes that reach it.
- `settlement_delta_isk` is computed from an `expected_total_isk` that `set_list_tip` and
  `upsert_reimbursement` do not refresh.
- The `NOT EXISTS` of `settle_via_contract` (`HeldUp`) ignores whom the other hauler's pending
  reimbursement is owed by. A delivered item whose payers have all settled can stay delivered, and
  its list open, for ever.
- `auto_close_list_if_complete` may close a list on a snapshot older than an `add_items` that commits
  meanwhile.

### Bounds

An owner and a member are enough for every role: requester, hauler, creator, owner, and both at
once. Two haulers on one item need an item of two units and two purchases, two requesters two items
(`list`). `list` has one claim, one quantity and one tip; that competing claims, edits of the quantity
and changes of the tip make no difference is what the theorems add. `races_stale_claim`
needs one request in flight, since all others may run in between, and two items, one that the claim has
when it is released and one to add. The contract runs have no claims and
no corporation, which the settlement steps read only through `fulfillments` and `Covered`;
`contract_links` has two contracts, interchangeable, and one poller. `contract_settles` has one poller because of its
liveness property; its two invariants also hold with `Pollers = {p1, p2}` under `ContractSpec`. In
`webhooks` the batch is smaller than the table, so the rows are drained in several batches,
`MaxAttempts` is small enough that giving up happens, and every retry waits one tick.

`settlement_rows` has two haulers, so that an item can be shared, two purchases, a contract and
requests enough that a purchase, a settlement by hand and one by contract can overlap.
That three haulers and several contracts add only the exception that `SettledUnpaidInRace` makes is
what its theorem adds. `login_rolled_back` has
two sessions, characters and EVE accounts and three users; one login is enough for its counterexample.
`tokens` has one character (rows are independent), two jobs of one process, a client for each and one
more in the cache, and `MaxTokens` = 2 refreshes, so that a token can be rotated again by a client built
from a row that was just written. The second worker only sweeps; the theorems allow jobs anywhere.
`corporations` bounds the requests of a behaviour by `MaxRequests`, two in flight, and the invite codes by
`MaxRotations`. `wallet` polls one corporation a run (`Slice`) of two, so that one can keep the other
waiting; `MaxFailures` bounds failed calls and crashes together. In `citadels` `MaxMoves` bounds changes in
EVE and by users: losing and regaining access, or a listing that goes and returns, needs two, and a
listing that goes, returns and goes again three. `OthersFail` may empty the gauge, which is small, at any
time. With two characters and `Tried` = 2 every candidate is tried; that the cut to `Tried` starves nobody
was checked with three characters, `Tried` = 2 and `MaxMoves` = 2, where all properties hold. With
characters that always fail and are never denied (`Broken`) ranked first, `Tried` of them or more, it
does starve the others: such an error leaves their rank as it was.

Symmetry is never used in a run with a liveness property. Deadlock is checked in `settlement_rows`,
where waiting for ever would be a flaw, and in `wallet` and `citadels`, whose jobs never end. In the
others it is not: a deleted list, a drained table, used-up bounds or users who have nothing left to
do are ends the model may reach.

### Fairness

`FairSpec` has weak fairness of each poller, and no failures: `drive_slot` runs each job in a loop
for ever and survives its panics. Users and EVE owe no step. `WebhookFairSpec` has weak fairness of
each drainer, by the same loop, and of time. Crashes are finite in number there.

`StoreFairSpec`: jobs run to their end and are started again, calls made again and again do not fail
for ever (strong fairness of their success; without it nothing is ever persisted), a row lock that is
asked for again and again is granted, logins end, and the sweep comes round every hour and finds a row
unlocked at some time (strong, because of `SKIP LOCKED`). No process has to be restarted.
`WalletFairSpec`: the driver starts a run whenever none is under way,
polls go on, hours pass; failures are bounded in number. `CitadelsFairSpec`: what has started goes on
and time passes; a tick is strongly fair, because the budget comes back in every window and the tick
with it. EVE, users, errors and crashes owe no step.

## Proofs

Every invariant and every action property that a passing run checks is proved, for every value of the
constants that satisfies the assumptions of its module. The refinement of `Outbox` is proved too.
Liveness is left to TLC.

### Assumptions

The bounds of the runs are numbers and the sets that are counted are finite. `None` is no row, user,
process or record of another kind. Beyond that:

- `WebhookAssumption`: a batch of posts that all time out ends before its lease, as the constants of
  `pending_webhooks.rs` do.
- `KeysAssumption`: the keys of different tables are different, as UUIDs are.
- `CorporationsAssumption`: finitely many requests are in flight, as the pool has finitely many
  connections; their number is part of the bound of `ListsOvershoot`.
- `TokenStoreAssumption`: a login is not a process. They name holders of the same locks.
- `SidesAssumption`: a contract's price is one entry of a corporation's journal. EVE pays a contract
  once, and its sides are not the same corporation.
- `CitadelsAssumption`: the threshold is at least 1 and at most the ceiling (20 and 100 in
  `budget.rs`), so that `has_budget` both refuses and grants.
- `SettlementsAreNotLost` alone assumes that no poll is cut short (`~CanFail`); `contract_crash` shows
  that it has to.

### ListFulfillmentProofs

`ClaimsAgree` is inductive with `TypeOK`. The three about
money are not inductive alone. A purchase changes an item, the fulfillments and a reimbursement
together, so `SettledItemsPaid` needs `BillingExact` (the live purchases of a settled row are
exactly its subtotal, hence none can be added) and `NothingShort` (a settled item has no unit left
to buy); `BillingExact` needs that live fulfillments name existing items and their haulers. `ListInv` is
the conjunction and `ListInvariant` its proof: one lemma for each action, and under it one step for
each conjunct the action can disturb. Lemmas on `Units`, on `LiveOn` and on `LiveFor` carry the
effect of one insert, one reversal and one deletion. `SettledStays` is about steps: each handler's
guard and `ListInv` together forbid it to write a settled item, a settled row or a purchase in one.

### ContractSettlementProofs

`SettleInv` is `ListInv` with what pollers add. `PollersInv`: a poll that has begun follows a contract
and has its status, after the upsert the contract is a row, and only then can it have seen a change.
`SuggestionsInv`: a suggestion names a contract that is a row. `TipsInv`: every tip is one that a request
set, which the type of the expected total needs. The steps of the list are those already proved, so
`ContractsKeepTheList` carries the list's invariants over, and `SettledStaysUnderContracts` the action
property; new are the steps of polls and links. `SettlementsAnnounced` is inductive with them.
`NoLostSettlement` is preserved by a step from `SettleInv` as long as nothing fails: the poll that
changed the status holds `changed` until it has settled what is bound, and a link of a finished
contract settles it in the same transaction.

### PendingWebhooksProofs

The exclusion of leases is not inductive: what makes it so is `LeaseOutlasts`, that every row in a
drainer's batch waits longer than the rest of the batch can take, which decreases with each post by at
most `SendTimeout`. `Remembers` (a drainer's `seen` is the row's count) and `ResultsTrue` (an answer in
memory is backed by `received` or by `failures`) are what the refinement needs.
`TableImplementsOutbox` shows that initial states map to initial states and every step to a step of
`Outbox` or a stutter.

### SettlementRowsProofs

`RowsInv` joins the properties with `ProcInv`, which says of each transaction, by the statement it is
at: what it is about (`Shape`), which rows it holds (`Holds`), which it is waiting for and what it
computed before the wait (`Waits`), and what it has written and not committed (`Mine`). `RaceSeen`: a
purchase or reversal that is not committed is in `raced` as soon as its bill is settled by anybody,
committed or not. A sum that `Upsert` is about to write is exact because the list lock keeps other
requests out, and the row is tested again after the wait.
`DeadlocksNeedContracts` needs only that every request but a link holds the list before it waits for
anything else. `SettledIsPaid`, which the atomic model keeps, is not among the theorems: the attempt to
prove it led to the interleaving of three haulers described above, and `SettledUnpaidInRace` is what
is left of it.

### TokenStoreProofs

`NobodyEntersAnotherAccount` needs `ChosenInv`: a callback about to end has chosen a new user, the user
its session had, or the user of a row that its EVE account still owns. It is proved for overlapping logins,
sales and sessions of users who were rolled back, and says that the rollback, which leaves sessions
without an account, gives nobody another one.

`StoreInv` follows a refresh token through its life. A token that is not stored is in one client
(`OneNewest`), a cached client that has something to write has the token EVE accepts (`RotatedInv`), and so
has the call that is writing it (`WritingInv`). Until a token is gone, a cached client that has rotated
has rotated the stored token (`KnownInv`), so a job that compares hashes does not remove it, and the client
a job is about to remove has nothing to write (`RemovingInv`). The last two are where `CallsAreShort` is
used. A client that leaves the cache or rotates outside it is in `strayed`, which is the exception that
`TokenNotLost` makes. A row that is being swept is locked and unchanged (`SweepInv`), which gives
`SweepsKeepTokens`.

### CorporationsProofs

`QuotaHeld` is inductive with the fact that one request at a time holds a user's lock and that its
count is true until it inserts. For `ListsOvershoot` the lists and the requests that have counted and
not yet inserted are bounded together. `RevokeInv` says that what an unlink is about to revoke was
contributed by its group. `Owned` gives the one owner of a live group.

### CorpWalletProofs

`MissedOnlyLate` is inductive with the types of the tables. The orders of cursors and ambassadors need
`Polls`, that a poll under way holds ambassadors of its own corporation, and `LaterOrders`, that stamping
some members of a total order with the present leaves it total. `PaymentsAreCountedOnce`: two entries that
are both counted are of different corporations, which neither a payer nor a source admits.

### CitadelsProofs

`CitadelsInductive` adds to `CitadelsTypeOK` the types of the jobs' state, which is where `Candidates` has to be
shown to hold sequences of characters, and `PublicInv`: the counter of a public structure is the number
of answers in a row without it and below the threshold. `SoftDisable` follows from it.

### Only model-checked

The liveness properties (`FinishedSettles`, `EventuallyDrained`, `SweepConverges`, `RotationPersisted`,
`PaymentVerified`, `DueCorpPolled`, `AccessRecovers`, `GoneStops`): liveness under fairness is out of
the prover's reach. That `Candidates`, `Usable` and their like hold exactly one sequence needs induction
over finite sets, which is out of reach as well; no theorem depends on it. `RequestRaces` has only a
counterexample, and `Accounts` a counterexample and the theorem above, which no run repeats.

## Plan

1. Done: `ListFulfillment`, `RequestRaces`, `ContractSettlement`, `Outbox`, `PendingWebhooks`.
2. Done: `SettlementRows`, `Accounts`, `TokenStore`, `Corporations`, `CorpWallet`, `Citadels`.
3. Done: the proofs above.
4. A ledger as an abstract specification (every purchase is owed once and paid once), and the proof
   that the list, and the list with contracts, implement it.
5. `RaceSpec`: the invariants that survive requests whose test and lock are apart (`NothingShort`,
   `SettledItemsPaid`), reusing the lemmas on locked handlers.
6. Matching: `score_match` and `resolve_contract_parties` as operators checked against reference
   definitions. Market refresh, estimates, the multibuy parser.

## Not modelled

Principal resolution is a lookup whose result is a constant of the contract model. Pricing, list
detail and run planning are read-only queries; market data is a cache each refresh replaces. The
multibuy parser has no state. Cryptography, cookies, message texts, the data export and the frontend
are I/O or presentation and change none of the state above. The corporation contract poller rotates
its ambassadors as the wallet poller does and is modelled there only; its contracts enter
`ContractSettlement` as those of another poller.
