# Oubli in TLA+

Oubli is a mobile Bitcoin wallet on Starknet. Public wBTC is *funded* into the
Tongo confidential contract, moves there as encrypted balances, and leaves by
withdrawal, transfer or Lightning swap. A Rust core (`src/crates`) does all of
this; thin Android and iOS apps drive it over a UniFFI bridge.

The modules here are translated from that code. TLC checks them on small
instances and TLAPS proves the most important facts for every value of the
constants. `PROJECT.json` lists the runs, the source lines behind every
definition, the hazards, the theorems, and for each property a *mutant*: a
plausible bug of the mapped code which makes TLC find the property violated.

To check a run: `tlc -config MCWalletSpends.cfg MCWalletOps.tla`; to check the
proofs: `tlapm WalletOpsProofs.tla`.

## 1. The system

| Part | State | Operations | What is hard about it | Modelled by |
|---|---|---|---|---|
| `oubli-wallet/core.rs` money operations | `ActiveAccount` (balance, pending, nonce, ciphertext in memory), `wallet_state` | fund, rollover, transfer, withdraw, ragequit, send_token, refresh, auto-fund, auto-rollover, ensure_deployed | every proof is made against one nonce and one ciphertext; the chain moves while a handler awaits; answers get lost; the process may die with a transaction in flight | `WalletOps`, `PrivatePurse`, `WalletRefinement` |
| `oubli-wallet/operations.rs` | none | `execute_*`, fee calls, optimistic updates | the fee call of a withdrawal is proved against a state that does not exist yet | `WalletOps` |
| `oubli-wallet/submitter.rs`, `paymaster.rs` | none | deploy_account, ensure_deployed, submit | deploy-and-invoke when the account seems not deployed; an answer lost after acceptance | `WalletOps` (outcomes) |
| `oubli-wallet/rpc.rs` | client | balances, state, receipts, events | malformed answers read as 0 or "not deployed"; the events of one list come from several requests at several heads | `WalletOps` (answers), `ActivityCache` (events and receipts) |
| `oubli-wallet/denomination.rs` | none | satoshis to units and back, fee | rounding, overflow, zero | `Denomination` |
| life cycle (`core.rs`, `state.rs`, `oubli-auth/tier.rs`) | `wallet_state`, tier, keys in memory | onboarding, unlock, lock, restart, update_rpc_url | four keys stored one by one; errors read as "not stored"; the tier is raised before the seed is opened | `WalletLifecycle` |
| `oubli-auth/kek.rs`, `oubli-store/blob.rs` | none | KEK from the salt, AES-GCM blob | a blob opens under one salt only | `WalletLifecycle` (`StoredSeed`) |
| platform storage (`KeystoreStorage.kt`, `KeychainStorage.swift`) | the stored keys | secureStore, secureLoad, biometric prompt | every call may throw; the keychain deletes before it adds | `WalletLifecycle` |
| `oubli-bridge` | core mutex, `polling_active`, poll thread, price cache | one FFI call per operation, a 3 s poll, payment notifications | the flag is not guarded by the mutex; the poll and the UI both fill the activity cache | `BridgePolling`; its serialising mutex is in every module |
| activity list (`core.rs`, `rpc.rs`) | cached events, transfer amounts, birthday block | get_activity, optimistic entries | optimistic entries against chain events, truncation, failed stores | `ActivityCache` |
| Lightning and swaps (`core.rs`, `swap.rs`, `oubli-swap`, `oubli-swap-js/index.ts`, `signer.ts`) | the engine, `activeSwaps`, the SDK's swap objects and its store | init, four quotes, executeSwap, waitForIncomingSwap, getSwapStatus, getAllSwaps, pay_lightning | several remote steps with money in the middle, lost answers, expiries, a user who tries again, an engine that forgets | `SwapEngine`, `SwapPromise` |
| swap storage (`storage.ts`, `swap.rs`) | objects in memory, one platform item for all of them | init, saveData, removeData | two writes for one change; every write replaces the whole item; failures are only logged | `SwapStorage`, `DurableMap` |
| amounts of a Lightning payment (`index.ts`, `core.rs`) | none | parseBolt11Amount, btc_str_to_sats, rounding | fractions of a satoshi, two roundings in a row | `SwapAmounts` |
| JS runtime (`runtime.rs`, `polyfills.ts`) | timers, an in-memory IndexedDB | stand-ins for a browser | `runtime.rs` installs its own before the bundle loads, so `polyfills.ts` has nothing left to do | not modelled; the lifetime of the IndexedDB is in `SwapEngine` |
| `contacts.rs` | contact list | add, remove, find | one read-modify-write | planned |
| `oubli-backup` | seed display flow | word groups, verification prompts, cloud backup | pure | planned |
| `signing.rs` | none | typed-data validation and hashing | pure, over JSON | not modelled |
| `queue.rs` | an empty queue | only `clear()` is ever called | nothing is enqueued | not modelled |
| apps and view models | screens | call the bridge | they decide which calls are possible when | environment of the modules |

### How they interact

* The apps call the bridge from any thread. Every bridge call takes the core
  mutex for its whole duration and blocks on the async handler, so **handlers
  never interleave with one another**; the poll thread uses `try_lock`. What
  does interleave with a handler is the chain, the remote services, other
  people's payments, and the death of the process. In the models `pc` is the
  step at which the one running handler awaits.
* A handler that submits gets a transaction hash when the paymaster accepts;
  only auto-fund and auto-rollover wait for inclusion, for at most 30 s.
* The wallet's in-memory account is updated optimistically after a submission,
  and replaced by a snapshot of the chain on each fetch.
* The swap engine is a JavaScript context of its own inside the core. A swap
  call keeps the core mutex until it returns, up to two minutes for a payment
  and as long as the invoice lives for a receipt. What interleaves with it is
  Starknet, the provider, the payer and the SDK's event listener.
* The platform storage outlives the process; the account in memory does not.

### What makes each part correct

* Money: a proof the wallet submits is about a single state of the account, it
  lands while that state is current, the user's order is paid at most once and
  exactly, and what arrives gets spendable and displayed in the end.
* Amounts: the units charged cover the amount and no more, a sweep takes all
  whole units and no other, a fee is never below the configured percentage.
* Life cycle: the account in use is the stored one; keys are in memory only
  behind a biometric success; a wallet that worked once is never lost or taken
  for a new one; a locked wallet can be unlocked.
* Bridge and activity: what the list says of a transaction is so; nothing is
  missing below the block from which the next scan starts; a payment is
  notified once at most; an entry of the wallet's own closes in the end.
* Swaps: what an answer says of a payment is true and stays so; what is locked
  for the user gets claimed; every call returns; what was saved is found again.

## 2. The modules

    Denomination        sats, units, fees (pure)            DenominationProofs
         |
    SwapAmounts         invoices, quotes (pure)             MCDenomination
         |                                                  SwapAmountsProofs
    TongoChain          ledger, mempool, incoming payments (external)
         |
    WalletOps           the handlers                        MCWalletOps
         |    \                                             WalletOpsProofs
         |     WalletRefinement  ==>  PrivatePurse (abstract)
         |                                                  WalletRefinementProofs
    SwapEngine          swap calls  ==>  SwapPromise (abstract)
         |                                                  SwapEngineProofs
    SwapStorage         the item  ==>  DurableMap (abstract)
         |                                                  MCSwapStorage
         |                                                  SwapStorageProofs
    WalletLifecycle     onboarding, unlock, lock, restart   WalletLifecycleProofs
    ActivityCache       blocks, the list, get_activity
         |
    BridgePolling       mutex, poll thread, notifications   BridgePollingProofs

(`TongoChain` and `SwapAmounts` stand on `Denomination`, `BridgePolling` on
`ActivityCache`; the others stand alone.)

### Denomination

`SatsToTongoUnits` divides and rounds up, `Invalid` when the sum overflows the
machine word; `CalculateFeeSats` takes the percentage rounded up and rounds
that up to whole units. `Word` and `Rate` are constants. The properties are
about amounts whose sums fit the word: the run stays below its word (amounts
to 400, a word of 4096), and the theorems suppose `NoWrap`. The percentage is
a whole number in the model and an `f64` in the code.

### SwapAmounts

`ParseBolt11Amount` is the amount of an invoice for each multiplier. The code
multiplies doubles and then rounds. Each product is off by less than 2^-51 of
itself: three roundings, those of the factor and of two multiplications. Below
2^37 satoshis (1374 bitcoin) that is less than a ten-thousandth of a satoshi,
the smallest step of an invoice, so the error never crosses the point at which
`Math.round` turns, but at an exact half it decides: `15000p` comes out as
1.4999999999999998 and gives 1 satoshi, `5000p` gives 1 as well. `RoundedSats`
takes the error as its argument `short`, 1 when the product is below the half,
and the property holds for both, so that it says what the code can promise: a
nearest satoshi, with a half up or down. (In doubles only halves of `p` are ever
short; the model allows it for `n` too.)

The amount of a quote is a string of satoshis or of bitcoin: `InBtc` is one of
bitcoin with any number of digits (the SDK prints all eight), `BtcStrToSats`
how the core reads either, padding or cutting the fraction (`FracSats`). A
string that is no number is an error of the payment before anything has
happened, and left out.
`WithdrawnUnits` chains the core's rounding to tens, written out in the
code where `Denomination` has `Rate`, and the rounding to units.
`MCDenomination` visits the amounts one by one and carries the properties of
both modules.

### TongoChain

External: translated from how the wallet uses the contracts. `ledger` is the
wallet's slice of the chain: public satoshis, Tongo balance, pending units,
nonce and whether the account contract exists. A *cipher* is the pair of the
nonce at which the contract stored it and the value it encrypts; equality of
those pairs is what the zero-knowledge proofs of fund, transfer, withdraw and
ragequit establish, and a rollover is about the nonce alone. `mempool` holds
accepted transactions, which execute or revert in any order or are evicted.
A received transfer only raises `pend`; it changes neither nonce nor cipher.

### WalletOps

| Variable | Code |
|---|---|
| `acct` | `WalletCore::active_account` |
| `wstate` | `WalletCore::wallet_state` with the balances it shows |
| `pc`, `op`, `seen` | the await at which the running handler stands and its locals |

Requests go `StartRequest`, `Sync` (the re-sync of `sync_balance_for_proof`,
which rollover and send_token do not have), then `SubmitRequest`,
`RefuseRequest` (a check says no) or `FailRequest` (a remote call fails, with
the transaction in the mempool or not). Refresh and unlock go `Sync`,
`ReadPublic`, `DeployFirst`, `AutoFund`, `Refetch`, `AutoRollover`, `Refetch`,
`Finish`; each step has a failing twin that goes on as the code does, because
auto-fund and auto-rollover swallow their errors. `SyncFails` on a request
leaves `wallet_state` at Processing, as the code does. `Crash` is enabled in
every state. `SubmitRequest` of a withdrawal carries a second call, the fee, in
the same transaction.

The auto-fund branch for an empty paymaster URL (devnet) and
`DirectSubmitter` are not modelled.

### WalletLifecycle

`disk` is the platform storage (salt, blob, public key, address, birthday),
`owner` and `address` the copies in memory. Onboarding is one action per
`secure_store`; each store may fail (`StoreFails`), and on a failure or a
`Restart` the key may have lost its value (`AfterFailedStore`: the keychain
deletes the old item first; on Android `apply()` writes later, so that a
crash loses a suffix of the writes, which an earlier crash does as well).
The constructor reads with `.ok().flatten()`, so a failing load reads as "not
stored" (`Read`). `Fallible` and `Calls` choose which platform calls may fail
and which optional entry points are called. Onboarding starts only from the
Onboarding state and unlock only outside it, which is when the apps show the
screens that call them. `handle_background` and `check_expiry` have no
caller outside their crates and are left out.

### ActivityCache

The chain is a head and, for each transaction, its block (0: none yet) and
whether it reverted. A withdrawal may be executed in the block under way before
that is final (`underway`), or refused for good (`rejected`). `list` is the stored cache as a set of entries: the code
keeps a sorted sequence and cuts it off at 20, `Newest` keeps the entries with
fewer than `Limit` before them. The order inside a block is that of the
transactions; fetched and cached entries of one block may come in another
order in the code, which matters only when the cut goes through a block; no
proof uses the order inside a block.
`get_activity` is a chain of steps, because each request is answered at the
head of its moment: `StartFetch` loads the cache, `Query1` finds funds,
withdrawals and incoming transfers, `Query2` outgoing transfers, then fees are
merged and cached entries added, `Receipt` asks for one open entry at a time,
and the result is stored and returned (`Store` in `BridgePolling`, which knows
who asked). A query that fails ends the fetch with the cache; a receipt that
fails changes nothing. The pages of one query are one answer. A transaction is
a `TransferIn` of another, or a withdrawal with a fee, which emits a
`Withdraw` and a `TransferOut`; funds and ragequits go the same ways as these
do.

A receipt gives a status and a block, each on its own (`TxStatus`). Once the
block of a transaction is final it gives both. While the transaction is under
way a node may not find it, call it pre-confirmed or `ACCEPTED_ON_L2`, and name
the block or not: all of these are possible answers, so the list may hold a
`Confirmed` entry without a block, or a `Pending` one in a block above the head,
as it does in the code (rpc.rs:443). Two things are assumed of Starknet: final
blocks are never taken back, and a transaction that is executed in the block
under way stays in it with the effect it had. Amounts, times and transfer metadata are left out.

### BridgePolling

`step` is where the holder of the core mutex is, so that every other holder
waits for `"free"`; `polling` and `first` are the two atomic flags, which are
read and written without it: `StartLock` and `PollIdle` need no mutex.
`PollStart` takes the snapshot of known hashes, `AfterRefresh` ends the first
poll and the poll of a locked wallet, `Return` filters what was not known,
`Report` calls the app. `AppFetch` and `Withdraw` are the calls of the app
that touch the list. `notified` and `overtaken` are history variables:
`overtaken` says that some fetch has stored what came too late for its first
query: a block above the one that follows the head this query saw, or, from
that block on, a fee without its withdrawal.

### SwapEngine and SwapPromise

| Variable | Code |
|---|---|
| `engine` | `WalletCore::swap_engine` and its `signerWrapper` |
| `tracked` | `activeSwaps` of index.ts: a swap `"wrapped"` with its signer, or `"raw"` as the SDK's store returns it |
| `sdk`, `stored` | state of the SDK's swap object; the swaps in its store |
| `call` | the call that holds the core mutex, and the await it stands at |
| `escrow`, `invoice`, `tx` | Starknet, the provider and Lightning: external |
| `answer` | history: the last definite answer about a swap |

A quote is a member of `Pays`, `Receives` or `OnRamps`; the four create
functions differ in the kind and in who goes on: a Lightning payment continues
with its withdrawal (whose own steps are a withdraw request of `WalletOps`),
its confirmation and the execution. `executeSwap` commits (`CommitRefused`,
`CommitAnswered`, `CommitUnanswered`, then `CommitMined` or
`CommitReverted`) and waits for the payment; `waitForIncomingSwap` polls and
claims. Either may fail at any request (`WaitFails`). The paymaster sends what
it accepts whether or not its answer arrives. `ObserveChain` is the SDK's event
listener, which runs only while a call drives the runtime. `Forget` is a lock
or the death of the process. The SDK is in the repository as a minified bundle:
its swap states, the guards of `commit` and `claim`, the point at
which a swap is saved and what `waitForPayment` returns come from there.

Abstracted: the soft expiry of a quote; the SDK's expiry margin is the rule that
a provider's refund does not race a claim under way (`LpRefunds`); watchtowers,
which the code avoids. Left out, because no caller does it: `executeSwap` of a
receiving swap, `waitForIncomingSwap` of a paying one, a refund.

`SwapPromise` is what a swap promises, with no call, engine or transaction in
it: wBTC is locked once and for an open payment, taken only for a settled one,
and an answer is true when it is given and for ever after.

### SwapStorage and DurableMap

`data` is the managers' memory, `value` and `index` the one item of the
platform in which `swap.rs` keeps every object and every index. JavaScript runs
an operation to its end, so only a crash (`EndSession`) comes between
`WriteValue` and `WriteIndex`, but each of the two reads, changes and stores
the whole item, and each may find it unreadable (`WriteOverUnread`: everything
else in it is gone) or fail to store it (`StoreFails`, with the keychain's
delete-then-add). `damaged` is a history variable: the entries that a failed call
may have changed, until they are written again or a session has looked.
Not modelled: Android's `apply()`, which writes later than it returns.

`DurableMap` has neither items nor indexes: a change is seen at once and
settles in one step; failures damage entries, which may then change.

### PrivatePurse and WalletRefinement

`PrivatePurse` is what an owner may expect, with no nonce, cipher, handler or
transaction in it: orders are written, sent, and paid at most once at their
price or bounced; apart from that the purse only shields public wBTC and
claims pending units. `WalletRefinement` maps `ledger`, the request under way
and the spends in the mempool to it.

## 3. The runs

| Run | Shows | Bounds |
|---|---|---|
| `denomination` | units are the least cover, a sweep survives the string, the fee is the least whole number of units above the percentage, invoices give a nearest satoshi however the doubles err, a Lightning payment withdraws the least cover of its quote however that is written | amounts to 400 sats at rate 10 and 3 %: every residue of the rate and of 100/3, and fees of 0, 1 and 2 units; invoices of 1 above, 1 below and at every eighth of a satoshi, the halves among them; two digits to a bitcoin, so that fractions are padded, exact and cut |
| `spends` | what is in the mempool is true to some state of the account, coherent, and lands while that state is current; the inductive invariant of the proofs | two requests, two transactions in flight, one payment, one eviction |
| `purse` | `WalletOps` implements `PrivatePurse`; and `Settles`: under fairness public wBTC is shielded, pending units claimed and the display right, from a wallet whose account is not even deployed | one request of every kind, one payment, one eviction, and the wallet's own transactions beside it; crashes, failures and lost answers without bound |
| `swaps` | `SwapEngine` implements `SwapPromise`; the SDK is never ahead of the chain; every call returns; what is locked for the user is claimed in the end; the inductive invariant of the proofs | one payment, one receipt and one on-ramp, two of the three quoted, one lock or death; calls repeated and requests failing without bound |
| `swap_storage` | `SwapStorage` implements `DurableMap`; what no failed call has touched is what the next session finds; the inductive invariant of the proofs | two managers, two keys, two objects, up to symmetry; operations, failures and crashes without bound |
| `lifecycle` | the account in use is the stored one, and keys fit the tier, with every platform call failing | two seeds, two attempts at onboarding, two process deaths |
| `lifecycle_apps` | a wallet that was Ready is never lost, if loads answer and nothing locks it (the apps never call lock) | the same |
| `polling` | the list is true, and, unless a fetch was overtaken by a block, nothing is missing and a withdrawal is one entry with its fee; only payments of the chain are reported, and none twice; the wallet's own entries close; the inductive invariants of the proofs | two payments, a withdrawal that may revert, be refused or be answered for before its block is final, three blocks, one process death; locks, unlocks, fetches, failing requests without bound; a list of two, so that it overflows |
| `unlock` | a locked wallet gets unlocked by a user who tries again, when only prompts fail | the same |

The bounds in `spends` are enough for the interesting cases: two spends proved
against one state (the second reverts), a spend proved behind an auto-fund
that is in flight, evicted or confirmed, a transaction that survives the
process that sent it. More transactions in flight are permutations of those:
each is compared with the ledger alone, and the theorems of section 5 hold for
all numbers. Rate 2 and 50 % make a withdrawal of one satoshi round up and pay
a fee; an arrival of 5 leaves dust. In `lifecycle` two seeds and two attempts
give every mixture of an old and a new key; a third attempt overwrites the
same four keys. In `polling` three transactions in three blocks give every
order of the two event queries, the receipt (of a transaction waiting, under
way, refused or final) and the blocks, and a list of two
is one short, so that truncation happens.

In `swaps` the swaps share nothing but the engine and the call under way, so a
payment and a receipt in one session, each with every outcome, give all
interleavings of a pair; more of a kind repeat them, and the theorems
hold for any number. In `swap_storage` two managers and two keys tell apart
the entry that is written, its neighbour under the same index and one
under another index.

`NotifiedAtMostOnce` has two conditions, both real. Storage has to work: a
store that fails after a fetch, or a cache that cannot be read, makes the next
poll report again what it finds. And the list has to be `Roomy`: not full, or
not only of open entries and the entries of one block. "Fewer open withdrawals
than the list has room for" is not enough. With `Limit = 3`, two payments in
block 1 and two withdrawals of which one reverts in block 1, the second
withdrawal pushes a reported payment out of the full list; the receipt of the
first one then closes its entry in block 1, the cut goes through that block in
another place (with the model's order inside a block), and the scan, which
begins at block 1 again, finds the payment as a new one. In the run there is one withdrawal, which settles above what it
pushed out, and working storage; only requests fail. `ReportsRemembered` is
the step behind it, checked in the run as an action property since it
supposes a roomy list only in the state a step leads to.

Deadlock is checked where something can always happen (`swaps`,
`swap_storage`) and not elsewhere: a wallet may be idle for ever, and
the bounded counters end the money runs.

Runs that end in a violation, each a disagreement between code and a doc,
comment or test (details under "findings" in `PROJECT.json`):

| Run | What TLC finds |
|---|---|
| `skipped_payment` | a payment mined between the two event queries of a fetch, which goes on to store a higher block, is below the start of every later scan: the list never shows it and it is never notified (rpc.rs:341) |
| `whole_wallet` | a kill between storing public key and address leaves a wallet that starts as Locked and has no address, for ever (core.rs:278) |
| `swap_restart` | the engine that follows a restart or a lock does not know a swap that has wBTC in escrow, because the SDK's own store is in memory and only chain data reaches the persistent one (index.ts:129) |

Also seen and not runs of their own:

* A failing load at process start makes a wallet in use look like a first
  launch, and the onboarding that follows overwrites its seed (core.rs:141). A
  failing load during an unlock leaves the tier at T2 and the state Locked, and
  every later unlock is rejected until the process restarts (core.rs:350).
* Nothing in the app refunds the escrow of a payment that failed, although
  the answer says "Swap is refundable" (index.ts:523).
* `claim` is repeated after an error that says "not committed" (index.ts:597);
  the SDK has no such error, so it never is. Every swap status is `created`
  (index.ts:705): the SDK's states are numbers and the code looks for words.
  `exact_in` reaches JavaScript as a string, and "false" is true there
  (oubli-swap lib.rs:73). A BTC quote carries no address (index.ts:217), the
  SDK's on-ramp swap having no `getBitcoinAddress`.
* `getAllSwaps` lists only swaps that were begun, not quotes (index.ts:645).

The activity amount of a withdrawal, "the
total deducted" (core.rs:1081), forgets the rounding up to units and a missing
fee collector (1 satoshi at rate 10 shows 11, and 20 are deducted). The nonce
of a rollover is not "fetched from chain immediately before" the proof
(deep-dive:777) when the wait for the fund before it timed out. The
architecture document promises one
Tongo operation at a time and a FIFO queue (deep-dive:770). The queue is not
used, and a request can be submitted while another is in flight; that this is
harmless (the second may revert, and never lands against a state it was not
proved for) is what `CurrentSpendLands` and `ImplementsPurse` say.

## 4. Fairness

* `purse` (`Settles`): the poll thread calls `handle_refresh_balance` every 3 s as long
  as it finds the mutex free (oubli-bridge lib.rs:506-561), hence weak fairness
  of `StartRefresh`; a running handler goes on, as each await has a
  timeout or an answer (`Continue`, weak); the sequencer includes or
  rejects what it has (weak, per transaction). Strong fairness of
  `Sync`, `ReadPublic` with the real balance, `DeployFirst`, `AutoFund` and
  `AutoRollover` with a true answer on deployment says only that a remote call
  tried for ever is answered properly in the end. The property is conditional
  on the wallet staying unlocked (`<>[]acct.loaded`).
* `polling`: the thread that holds the mutex goes on, a lock gets the mutex,
  and a tick of the poll thread finds it free (all weak: the mutex is not fair,
  but the poll thread tries for ever and the app's fetches end). `Query1`,
  `Query2` and the receipt of a given withdrawal are answered when tried for
  ever (strong). `IncludedEntriesSettle` is conditional on the wallet staying
  unlocked.
* `swaps`: requests are answered or fail, so the step a call stands at is taken
  or the call ends (`Progress`, weak); a transaction is mined or dropped, an
  open quote expires (weak). For `LockedIsClaimed` a user who was told of an
  error waits again (`retryLightningReceiveWait` in WalletViewModel.kt:660),
  the listener hears of the lock, and not every claim that is tried is lost
  (strong, for `Wait`, `ObserveChain`, `PollLocked`, `ClaimAnswered` and `Mine`
  of a receipt). The property gives up when the engine is dropped or the
  provider takes the expired lock back.
* `unlock`: a running handler goes on, a user in front of a locked wallet
  asks again, and a prompt repeated for ever succeeds in the end (strong).

Nothing is assumed of crashes, locks, requests or payments.

## 5. What is proved

All theorems hold for all values of the constants that satisfy the named
`ASSUME`s: positive rate, natural amounts, disjoint markers, finitely many
transactions in an activity list's world. Those of `SwapAmountsProofs` also suppose that no sum overflows the machine word
(`NoWrap`), and for a Lightning payment that a unit is ten satoshis, which the
code writes out, and that powers of ten are positive (`PowersOfTen`), which the
provers cannot know without induction.

* `DenominationProofs`: `LeastCover`, `UnitsRoundTrip`, `FeeIsWholeUnits`. The
  nonlinear facts on `\div` and `%` come first, as lemmas of their own.
* `SwapAmountsProofs`: the five properties of the `denomination` run for every
  amount, by way of lemmas that name the quotient and the remainder, and
  `WithdrawalCovers`, the arithmetic of a Lightning payment alone.
* `SwapEngineProofs`: `EngineInvariance`, `SdkIsNeverAhead` and the refinement
  `EngineImplementsPromise`. An answer is given several steps after what it
  is about, so the SDK's states have to be facts about the chain
  (`SdkNeverAhead`), which is inductive with the kinds of states (`KindInv`), what
  provider and chain owe each other (`WorldInv`) and how far a call has come
  (`CallInv`: after `CommitMined` there is an escrow). Every action maps to one
  step of `SwapPromise` or to a stutter: most calls stutter, errors always do.
* `SwapStorageProofs`: `StorageInvariance`, `WhatIsSavedIsKept` and the
  refinement `StorageImplementsDurableMap`. The invariant says what an
  operation between its two writes knows (`OpCoherent`). The first write of a
  change is a `Settle` when the index already lists the entry and a stutter
  when it does not; the second is a `Settle`, which for a listed entry changes
  nothing more; a failure is a `Damage`.
* `WalletOpsProofs`: `Invariance` (`Spec => []IInv`), and from it
  `TypeCorrect`, `CiphersAreTrue`, `ProofsAreCoherent`, `SpendsLand`.
  The properties are not inductive on their own. `SpendProofsCoherent` is
  kept by `SubmitRequest` only because a spend is submitted right after a
  sync, when nonce and ciphertext belong together; that is a fact about `pc`
  (`HandlerInv`). `AutoFund` is proved coherent from the weaker fact that no
  sweep has moved the nonce before the "fund" step. That ciphertexts stay true
  when the ledger moves needs that each operation raises the nonce
  (`CipherTrue`: an older version says nothing, the current one is right), and
  that a fee transaction raises it by two needs the shape of a fee
  (`FeeShape`). Note that `acct.balance` and `acct.nonce` may be wrong
  between syncs; no conjunct says otherwise. `SpendsLand` follows from `IInv`
  without a step of its own: the current nonce gives the current ciphertext,
  coherence the rest.
* `WalletRefinementProofs`: `WalletImplementsPurse`, the refinement of
  `PrivatePurse`. On top of `IInv` it needs that no two transactions in flight
  share an id (else the payment of one order would take another off the list)
  and that only withdrawals and ragequits are to the wallet itself
  (`PurseInv`). A handler's step writes, sends or discards an order or is a
  stutter (`WalletMoves`); a transaction that executes is a `Pay`, a `Shield`,
  a `Claim` or, for a bare deployment, a stutter (`ExecuteRefines`), one that
  reverts or is lost a `Bounce`.
* `BridgePollingProofs`: `FeedInvariance` and from it `ListIsTrue`. That the
  list is true is not inductive: what is stored was read several steps before,
  so the same has to hold of everything a fetch has in hand (`ScanTrue`), and
  it stays so because blocks only add and what is under way keeps its place
  (`EntryStays`, which needs `ChainInv`: only what has been executed reverts,
  and what is under way goes into the next block). Unlike the run, the theorem
  covers stores and loads that fail, since `Fallible` is any set.
  `CoverInvariance` and from it `ListIsComplete`, under the same conditions.
  `CompleteUnlessOvertaken` speaks of the list alone and is not inductive. What
  makes a scan from the highest cached block sufficient is spread over the steps
  of a fetch: the first query finds all that there is up to its head
  (`FoundAll`), the merge loses no cached entry and no block of one, and a fee
  that is left without its withdrawal is above that head (`MergedInv`); the list
  it began with covers the blocks below (`Covered`). Truncation needs to keep
  exactly `Limit` entries when it drops any, and those before what it drops
  (`Truncated`). That is proved without induction: the order of the list is a
  strict order on a finite set, so the entries dropped have a first and the
  entries kept have a last (`FirstAndLast`, from the library's theorem that
  strict inclusion is well founded on finite sets).
  `ReportsAreTrue`, under the same conditions.
  `ReportsStay` and `ReportedOnce` need working storage (`StorageWorks`) and a
  roomy list, as section 3 says. A reported payment stays in the list or below
  its highest block (`Remembered`), so that no scan finds it without the cache
  saying that it is known; a list that is cut off while it is roomy keeps a
  block above whatever it drops (`RoomyTruncation`).
* `WalletLifecycleProofs`: `LifecycleInvariance`, and from it `AccountStored`
  and `KeysAndTier`; the strengthening says what onboarding has stored by
  each step (`OnboardingInv`) and which tier a handler runs in (`TierInv`).
  `TypesAreKept`. `KeptInvariance` and `ReadySeedsStay` need the two
  conditions they are stated with: loads answer, and nobody calls lock.
  Without the first, a wallet in use is taken for a first launch.

Only model-checked: liveness (`Settles`, `UnlockSucceeds`,
`IncludedEntriesSettle`, `CallReturns`, `LockedIsClaimed`), which needs
fairness and `ENABLED`. Every invariant and action property of the passing
runs is a theorem.

## 6. Not modelled, and why

* Cryptography: proofs, ciphers and blobs are the equalities they establish.
* Wording, formatting, logging, telemetry, price lookup, JSON encodings.
* `queue.rs`, `handle_background`, `check_expiry`, the SeedBackup and Wiped
  states: nothing calls or sets them.
* Generated bindings, vendored and native build code, assets, CI.
* The session timeout: `check_expiry` (oubli-auth tier.rs:70) computes it and
  nothing outside the crate asks.
* The JS runtime's stand-ins for a browser, and inside the SDK bundle:
  discovery, price checks, on-ramp states, watchtowers.
* The parts of section 1 marked as planned.

## 7. Plan

In this order, with the property that motivates each:

1. `Contacts`: `load_contacts` (contacts.rs) answers with an empty list when
   the storage fails or the item does not parse, and every change writes the
   whole list back, so a change after a failed load replaces the list. It is
   one item over `PlatformStorage`, so `DurableMap` is the specification to
   hold it against, as for `SwapStorage`. Then `SeedDisplay` and the validation
   in `signing.rs`: small reference definitions over bounded inputs.
2. The rest of the bridge: the price cache beside the mutex, the seed flow.
