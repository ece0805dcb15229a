# TLA+ models of MirrorMarkets

MirrorMarkets copies the trades of Polymarket *leaders* for *followers*. A worker
process watches the leaders and places orders; an API process serves users,
moves their money through a relayer and signs on their behalf through a
server-wallet provider; a Safe module on chain lets a backend session key act
within limits.

This directory holds TLA+ modules translated from that code, TLC
configurations that check them on small instances, and TLAPS proofs for every
value of the constants. `PROJECT.json` maps each definition to the source lines
it models and lists runs, mutants, findings, hazards and theorems.

## The system

| Component | Source | State it keeps | Operations | What makes it correct |
|---|---|---|---|---|
| Copy-trading worker | `services/workers/src/workers/copy-trading.worker.ts` | rows of `leader_events`, `leader.lastSyncedAt` | `poll` and `syncAllLeaderTrades`, each on its own `setInterval` and neither waiting for its previous activation | a trade is recorded once, and what is recorded is copied |
| Copy engine | `services/workers/src/engine/copy-engine.ts` | `copy_attempts`, `orders`; orders on the exchange | `processLeaderEvent`, `processCopiesForEvent`, `processCopyForUser` | one order per user and event; every order accounted for; attempts settle and stay settled |
| Guardrails | `services/workers/src/engine/guardrails.ts` | none (pure) | `evaluateGuardrails` | sizes and open markets within the profile |
| Copy circuit breaker | `services/workers/src/engine/circuit-breaker.ts` | state, failure count, last failure | `canExecute`, `recordSuccess`, `recordFailure` | nothing is posted while it is open |
| Copy funding | `services/workers/src/workers/position-sync.worker.ts`, the copy engine | `user:{id}:usdc_balance` in Redis | `sync`, `fetchUsdcBalance` | a copy costs no more than the wallet held when its balance was read |
| AutomationModule | `packages/contracts/src/AutomationModule.sol` | session keys with constraints and counters, four allowlists | register, revoke, update, allowlist setters, `executeFromSessionKey` | rate and notional limits hold over any sequence of calls |
| Safe automation | `services/api/src/services/safe-automation.service.ts`, its routes | `safe_automations`, `session_keys`, `withdrawal_allowlist` | enable, disable, register, revoke, settings, allowlist | one ACTIVE key per user, the one `activeSessionKeyId` names; none on a disabled module |
| Module-exec worker | `services/workers/src/workers/module-exec.worker.ts` | `module_txs` | `poll`, `processModuleTx` | each transaction executed at most once, its status true |
| Signing flow | `services/api/src/adapters/dynamic-server-wallet.provider.ts`, `services/signing-*.ts` | `signing_requests`, breaker and windows in memory | `signTypedData`, `signMessage`, `executeTransaction` | limits hold; a returned signature is on record; one transaction per request |
| Server wallet | same provider | `server_wallets`, `wallets` | `getAddress`, `rotate`, `revoke` | one wallet per user; an address handed out stays |
| Provisioning, migration, binding proofs | `services/provisioning.service.ts`, `routes/wallets.ts`, `admin.ts`, `binding-proof.ts`, `scripts/migrate-wallets.ts` | credentials, proxy wallet, copy profile, proofs | `provision`, `migrate`, the proof route | credentials, proxy and proof belong to the wallet that signs |
| Relayer adapter | `services/api/src/adapters/relayer.adapter.ts` | none of its own | `submitProxyTransactions` | success is reported of what was mined |
| Funds, claims | `services/api/src/routes/funds.ts`, `claims.ts` | `withdrawals`, `relayer_txs`, `isProxyDeployed` | withdraw, redeem, approve | money moves once per request, and is on record before it does |
| Idempotency | `services/api/src/plugins/idempotency.ts` | `idempotency_keys` | hook before and after a handler | a repeated request has one effect and one answer |
| Orders, reconciliation | `services/api/src/routes/orders.ts`, `admin.ts` | `orders` | place, cancel, reconcile | a live order is not declared dead |
| Event streams | `routes/copy.ts`, `routes/sync.ts`, the web's `useSSE.ts` | `lastId` per connection | a tick per interval | nothing is skipped |
| Sessions | `routes/auth.ts`, `plugins/auth.ts`, the web's `api-client.ts`, `providers.tsx`, `page.tsx`, `useApi.ts`, `WalletDropdown.tsx` | `auth_sessions`, `localStorage` | verify, authenticate, log out, a 401 | a tab without a session gets to ask for one |
| Workers' health | `services/workers/src/index.ts`, every worker, `routes/system.ts` | `worker:*:last-ping` in Redis | start, stop, ping, status | the status tells the truth |

They interact through the PostgreSQL tables (no table here has a lock or a
serializable transaction around a read and the write it decides), through Redis
caches, through `setInterval` loops that run in one process and interleave at
every `await`, and through HTTP calls whose effect and whose reply may be lost
separately. The hard behaviours are therefore: two activations of a loop between
each other's awaits; a row read before an await and used after it; an external
effect that happened while the code saw an error; a crash between two writes; a
counter or time stamp shared by flows that do not know of each other. `hazards`
in `PROJECT.json` lists them at their lines.

## Modules

| Module | Models |
|---|---|
| `CopyCircuitBreaker` | the copy breaker as pure functions on a record |
| `CopyEngine` | `CopyEngine`: one action per stretch of code between two awaits |
| `CopyLedger` | abstract: what `copy_attempts` promises its readers beside the exchange |
| `CopyTrading` | the worker's two loops around the engine, the routes that change what it reads, time, crashes; the properties; refines `CopyLedger` |
| `MCCopyTrading` | values of the constants for TLC |
| `CopyTradingProofs` | TLAPS proofs about `CopyTrading` |
| `Guardrails` | `evaluateGuardrails` as a function, in exact fractions |
| `CopyFunding` | how the balance a copy is sized by is read, cached and used |
| `AutomationModule` | the Safe module contract, one action per external function |
| `SlidingWindow` | lists of time stamps and how they are pruned |
| `SigningRateLimiter` | the API's rate limiter, with a specification of its own |
| `SigningCircuitBreaker` | the API's circuit breaker, with a specification of its own |
| `MCGuards` | limiter, breaker and contract in one specification for TLC |
| `SigningLedger` | abstract: what the table `signing_requests` promises its readers |
| `SigningFlow` | concurrent signing requests around limiter, breaker, table, provider and audit log; refines `SigningLedger` |
| `MCSigningFlow` | values of the constants for TLC |
| `SafeAutomation` | concurrent requests over the automation row, the session keys and the allowlist |
| `ModuleExec` | overlapping polls of the module-exec worker, composed with `SafeAutomation` and the chain |
| `MCModuleExec` | values of the constants for TLC |
| `ServerWallet` | concurrent creation, rotation and revocation of a server wallet |
| `Provisioning` | provisioning, migration and binding proofs on top of it |
| `RelayerAdapter` | one submission through the relayer, the relayer and the chain |
| `Funds` | the money routes behind the idempotency plugin, on top of the adapter |
| `Orders`, `EventStream`, `WebSession`, `WorkerHealth` | the component each is named for |
| `MCServices` | `Funds` and the four of the line above with `CopyFunding`, for TLC |
| `SigningGuardsProofs` | lemmas about pruned lists and TLAPS proofs about `SigningRateLimiter` and `SigningCircuitBreaker` |
| `SigningFlowProofs`, `AutomationModuleProofs`, `FundsProofs`, `ModuleExecProofs`, `ProvisioningProofs` | TLAPS proofs about the modules they are named for |
| `ServicesProofs` | TLAPS proofs about `Orders`, `WebSession`, `EventStream`, `WorkerHealth`, `Guardrails` and `CopyFunding` |

### CopyCircuitBreaker, CopyEngine, CopyTrading

`CopyTrading` EXTENDS `CopyEngine`, which EXTENDS `CopyCircuitBreaker`: they
share the state of one worker process.

*Activations.* `Polls` and `Syncs` are the activations of `poll()` and
`syncAllLeaderTrades()` that may be running at once; `pc[k]` says where each
stands and `ev`, `pend`, `usr`, `att`, `poly`, `since`, `todo`, `trade` hold its
locals. A step is the code between two awaits together with the effect of the
call it then awaits; JavaScript runs nothing else in between. A call that
fails before it has an effect is `ThrowInTry` (inside the try block) or
`Abandon` (outside it, where the error reaches the loop over leaders). A
failure noticed by the process is a later step than the failure itself
(`ThrowInTry` then `Catch`), since other activations may run in between.

*Tables.* `events`, `attempts`, `orders` are sequences, a row's id its position;
`book` is what the exchange accepted. No row is ever deleted by this code.

`CopyLedger` is what readers of `copy_attempts` may rely on beside the exchange:
an attempt opens PENDING or SKIPPED, gets at most one order and only while it is
PENDING, then settles for good. FAILED promises nothing about the order, since
the answer of the exchange may have been lost. `AttemptsKept` says that the worker
implements it, the followers being `Users`.

*One leader.* `poll` handles leaders one after the other, and leaders share only
the breaker and a user's open orders; several activations for one leader show
the same interleavings.

*Time.* `clock` ticks at will up to `MaxTime`; the breaker's `Date.now()` and
`lastSyncedAt` read it. Timestamps of one tick are equal, as two calls within a
millisecond are.

*Data.* Trades are model values with a side, a market and a hash. An undefined
hash is `NoHash`: Prisma drops an undefined filter, so it matches every event of
the leader (`Matching`). Prices, sizes and balances are left to `CopyFunding`:
here `GuardrailsSkip` may refuse any copy, and `GuardrailsAllow` requires the
position cap, which is exact. The exchange may accept or reject any order.

*The user's own orders.* The API process writes the same table: `PostOrder` is
`POST /orders`, which inserts an OPEN row and asks for no cap, and `CloseOrder` is
the cancel route and the reconciliation, which take any row, copied or not, out of
OPEN. Both may come between any two awaits of the worker. A row placed by hand
names no order of the engine (`poly` is 0, `ByHand`), and its market is the token
(`MarketOf`: the route stores `asset_id ?? tokenId` as `conditionId`). The guardrails
count every OPEN row (`OpenConditions`). `PositionCap` therefore speaks of the copies
alone: a BUY is copied only while the user's open *copies* cover fewer markets than
the cap. Orders by hand may use up what the guardrails have seen as free, so the
cap of all open orders does not hold (*Disagreements*). `HandTrades` bounds what is
placed by hand; a user places each of them once.

*Left out.* What the exchange does with an order after it took it, and what the
order routes tell it, which is `Orders`. `sync_logs`, the redis ping and logging
decide nothing.

### AutomationModule

Each external function is one atomic action for one Safe (storage is keyed by
Safe); a call that is refused, or whose execution the Safe reports as failed,
reverts, which undoes storage and events alike, and is no step. `executed` and `epoch` are history: every
execution with its window starts and the constraints in force. Counters keep
their widths through `MaxUint32` and `MaxUint256`: Solidity 0.8 reverts on
overflow (`CountersFit`). Re-entrant calls from the executed target are left
out. Two comments of the contract are not true of it, which one reading shows
and no run repeats: `TransactionBlocked` is emitted just before a revert that
undoes it, and `allowedTokens` is written and never read.

### SlidingWindow, SigningRateLimiter, SigningCircuitBreaker

Both classes keep lists of `Date.now()` and drop stale stamps from the front
(`Prune`). Neither awaits before it has decided, so `checkAndIncrement`,
`allowRequest`, `recordSuccess` and `recordFailure` are one step each, split by
outcome. `ReadWindows` and `ReadBreaker` are the statistics the status route
asks for, which also prune, and may turn an OPEN breaker HALF_OPEN. A restart
forgets everything. `LimiterSpec` and `BreakerSpec` let the operations come in
any order: that is all the two classes can assume of their callers.

The properties speak of full history (`admitted`, `admittedAll`, `failed`,
`trippedAt`, `probes`), which the code does not keep: a rate is bounded in
*every* stretch of one window, wherever it starts, and not only in the list that
happens to be left. `probes` stops counting one past the limit.

### SigningFlow, SigningLedger

`SigningFlow` EXTENDS both classes. A request stands at one of its awaits
(`pc[r]`); a step is the code up to the next one with the effect of the awaited
call, so requests interleave as they do in the API process. Labels up to
`create` are before the row exists. `announce` (audit), `send` (markSent),
`call` (the provider, inside `retryWithBackoff`), `succeed` (markSucceeded),
`report` (recordSuccess) and `log` (audit) are the main path; `fail`, `blame`
and `logFailure` the catch block. Signing checks limits, breaker and wallet in
that order, then looks for an earlier signature; `executeTransaction` checks the
wallet first and neither looks for an earlier row nor audits. No code in the
repository calls `executeTransaction`; it is modelled as an entry point of the
provider.

A row is kept per idempotency key, because the column is unique. The n-th effect
of the provider for a key is the number n: signatures of one payload are told
apart although the real ones may coincide, which makes `AnswersOnRecord`
stronger. Faults: the provider refuses, or acts and its answer is lost; a
database call fails before its effect (`DatabaseError`, thrown into the catch
block or to the caller, as the try block lies); the process dies.

`SigningLedger` is what readers of `signing_requests` may rely on: CREATED, then
SENT, then SUCCEEDED with one signature for ever, or FAILED for ever.
`LedgerKept` is `SigningFlow` implementing it under the mapping that reads
status and signature of each row. It holds while the database answers; with a
database error it fails (`SucceededIsFinal`, see *Disagreements*).

The workers sign through a provider of their own, with no limiter, breaker or
rows: everything here is per API process.

### Guardrails, CopyFunding

`EvaluateGuardrails` is the function line by line: odds, open markets, size cap,
balance, minimum. Prices and dollars are cents and a size is an exact fraction of
a hundredth of a share until `Rounded`; the code computes in binary floating
point and rounds with `toFixed(2)`.

`CopyFunding` is one follower's balance. A *reader* is an activation of
`syncUserPositions` or a copy of the engine; both call the two USDC
contracts at once, whose answers are separate steps in any order (`CallContract`)
and count 0 when a call fails. `AddUp` and `SaveBalance` are what follows, with
the difference that a sync saves a zero balance and a copy does not; `CacheHit`
says which entries a copy believes. The wallet may change between any two steps
(`ChangeUsdc`). `basis` holds the balance of the decision just made: one step
later it is empty, so it is an observation and not a state of the program.

### SafeAutomation, ModuleExec

All queries of the service are by `userId`, so one user is modelled. A request
stands at an await (`request[r].at`); its first await decides whether it goes on.
`registerSessionKey` is `CheckRegister`, `RotateActiveKeys`, `CreateSessionKey`,
`PointAtKey`; `disableModule` and `revokeSessionKey` likewise. `RequestFails` is a
database error or a crash anywhere. `lapsed` is the clock's view of `expiresAt`:
no code marks a key EXPIRED but the worker that meets it. `overlapped` is
history.

`ModuleExec` adds the worker. `poll()` reads up to `Take` PENDING rows, the
automation row and an ACTIVE key in one `Fetch` and then decides on what it read,
while requests go on revoking keys. An activation's `todo` is the set of rows it
still has; `Current` is the oldest. `Execute` covers the call and `wait()`: it
executes with a receipt or without one, it reverts, it never arrives, or the network
takes it and never mines it, and then `wait()`, which has no timeout, never returns:
the activation stands at `wait` for good (`Stuck`) and its row stays SUBMITTED.
`ExecDatabaseError` goes where the code's try blocks send it: into the catch
block of `processModuleTx`, into that of `poll()`, or out of the poll. A key
revoked after `Fetch` is still used; that the contract refuses it is a revert
like any other here and the subject of `AutomationModule` there. `recordModuleTx`
is called by no code of the repository and is an entry point of the model.

### ServerWallet, Provisioning

`Provisioning` EXTENDS `ServerWallet`: a call of any kind stands at one of its
awaits, and `provision`, `migrate` and the script run through the same creation
steps as `getAddress`. The provider mints address after address (`minted`), an
answer may be lost after it minted (`Mint`), and `WriteRow` updates the row by
the id that was read, or inserts. `MarkWalletFailed` is the catch block, which
marks the row whoever wrote it. `handed` is what callers of `getAddress` have
been told. `mock` is a row left by development, which counts as READY for some
readers and not for others. `DropCreds` and `DropRow` are migration.

Left out: the branch of `getAddress` for CREATING (no code writes that status),
the upsert of the DYNAMIC_EOA wallet, the copy profile that `revoke` pauses,
audit entries of rotate.

### RelayerAdapter, Funds

`RelayerAdapter` is `submitProxyTransactions`: payload with a nonce, signature,
submission, hash, receipt, each of which may throw. The relayer and the chain
are external: `Mine` takes the transaction with the wallet's next nonce, which
succeeds or reverts, and `Drop` loses it. So two requests that read one nonce
cannot both be mined, and a request may throw while its transfer goes through.

`Funds` are the three handlers around it (withdraw, redeem, approve), each
between `Lookup` and `Store` of the idempotency plugin. `Authenticate` comes after
the lookup and before the handler: a request it refuses is answered with no
`userId`, so `onSend` keeps nothing (`refused`). `stored[k]` names the
request whose response is kept; a second insert is ignored. `DatabaseError` goes
to the withdrawal's catch block from the steps inside its try block, to the
client elsewhere, and nowhere from `onSend`, which swallows it. `exposed` is
history: the keys that were in use twice at once or lost their response, for
which the plugin promises nothing. The expiry of a kept response is left out.

### Orders, EventStream, WebSession, WorkerHealth

`Orders` has rows and exchange side by side. `onExchange` changes by itself
(`LeaveExchange`); a cancel reads the row, tells the exchange and writes, in that
order; reconcile lists once and then writes row by row, whatever the rows are by
then. The exchange removes the order, throws, or answers that it did not cancel,
and the route ignores the answer: `refused` is history, the live orders whose cancel was
answered so. A row without an exchange id is cancelled without telling anybody, and the
properties therefore speak of orders that have one (`named`).

`EventStream` is one connection of `/copy/logs/stream` or `/sync/logs/stream`:
ticks overlap when a query is slow, an answer may come late, and `WriteRows` sets
`lastId` to the last row of *its* answer, back as well as forth. An answer is the
set of its rows, for a query returns them in the order of their ids. Rows appear in
any order of ids; with `cuid` ids that is an assumption of the code, and `inOrder`
records whether it held.

`WebSession` is the server's `auth_sessions` and a browser: tabs share one
`localStorage` and each holds a token of its own. A request carries the token it
was sent with (`call[t][c].token`), or none: the queries of `useApi` wait for a token,
its mutations and the logout of the wallet menu do not (`SendRequest`). A 401 clears
whatever token the client holds by then (`ClearStale`). `window.location.href` only
asks for another page: `leaving` are the tabs that have asked, whose page goes on
taking answers and sending requests until `Load`, which forgets what was in flight.
`GoToDashboard` is the router's way, without a load. `page` is home or any other page
("dashboard"). Left out: the user row, the two providers' tokens (accepted or
not), requests the server still serves after their page is gone, and the logout
handler of the home page, which no element of that page calls.

`WorkerHealth` is the ping each worker writes before its run and the route that
reads four pings in turn and then the clock. Redis may be away: with
`maxRetriesPerRequest: null` nothing fails, it waits. Time passes only when due
timers have run, since an event loop that is late by more than a tick is not
what the limits are about.

## Runs

Every constant of a run is in its `.cfg`; `PROJECT.json` says what each shows.

| Run | Instance | Checks |
|---|---|---|
| `copy_poll_and_sync` | 1 user, 2 trades (one without a hash), one poll, one sync, leaderboard refreshes, one order by hand, all faults | `TypeOK`, `OneOrderPerEvent`, `OpenMeansPaused`, `PositionCap` |
| `copy_overlap` | 1 user, 1 trade, two overlapping polls, copying switched, orders cancelled, all faults | `OrdersAccountedFor`, `SubmittedIsLive`, `AttemptsKept` |
| `copy_liveness` | 3 users (one without credentials, one without authority), one poll | `AttemptsSettle`, `FollowersServed` |
| `signing_faults` | 2 requests with one key, a transaction, all faults | `RowHeldByOne`, `SubmissionsBounded`, `AnswersOnRecord`, `AnswersLogged` |
| `signing_settles` | the same without database errors and crashes, fair | `LedgerKept`, `RowsSettle` |
| `guards` | limiter: 2 users, limits 2 and 3; breaker: threshold 3, two probes; contract: one key, two constraint sets, ERC20 transfers, one re-registration | `RatesKept`, `RefusedForCause`; `TripsInTime`, `QuietPeriod`, `NeverStuck`, `TripsForCause`; `HourlyRate`, `DailyBudget`, `RollingHour` |
| `module_exec` | 2 requests, 2 keys, 2 polls, 2 rows, up to two faults, three requests, rows and faults together, fair | `TypeOK`, `KeysInOrder`, `RowsTellChain`, `LonePollExecutesOnce`, `TxsSettle` |
| `wallets` | 3 calls of any kind, 2 minted addresses, one fault, a new user or one with a development wallet | `HandedAddressStays`, `PartsAgree` |
| `services` | one of six services per behaviour, see below | `TransfersWrittenAhead`, `RecordedIsMined`, `OneSubmissionPerKey`, `WithdrawalsSettle`; `OrdersTellExchange`; `NoGaps`; `NotStranded`; `WorkersTold`; `CopiesWithinMeans` |
| `copy_duplicate_order` | two overlapping polls, no fault | `OneOrderPerEvent` is violated |
| `copy_synced_event_lost` | one poll, one sync, no fault | `SyncedEventStillCopied` is violated |
| `provisioning_race` | as `wallets` | `ProvisionedOnce` is violated |

`MCGuards` and `MCServices` put components side by side that share nothing but a
clock, or nothing at all: each behaviour chooses one and the others stand still,
so the state space is the sum of theirs and not the product. The compositions
that do share state are modules of their own: `CopyTrading`, `SigningFlow`,
`ModuleExec`, `Provisioning`, `Funds`.

Each run that expects a violation is a finding. `copy_duplicate_order`:
overlapping polls place two orders for a user and event. `copy_synced_event_lost`:
an event the sync loop stored is never copied. `provisioning_race`: two calls each
read no usable wallet and make one, the later update replaces the address the first
has provisioned, and the user ends complete with credentials of a wallet that no
longer signs.

### Disagreements no run repeats

These are stated in the modules, fail in TLC when they are added to a `.cfg`, and
are described here because a reader of the code would want to know.

- `EventsUnique` (`CopyTrading`): poll and sync may both record one transaction
  (the lookup and the insert of `leader_events` have an await between them), and
  each copy is then made once per row.
- `SucceededIsFinal` (`SigningFlow`): an audit write that fails after
  `markSucceeded` turns a SUCCEEDED row into FAILED;
  `DOCS_VERIFICATION_CHECKLIST.md:97` lets nothing follow SUCCEEDED.
- `ProbesBounded` (`SigningCircuitBreaker`): half-open probes are counted when
  they report, so any number may be in flight; `PRODUCTION_RUNBOOK.md:156` says
  that 3 probe requests are allowed. A failure reported late, while the breaker is OPEN,
  restarts its recovery timeout: `QuietPeriod` allows it.
- `OneExecution` (`ModuleExec`): one instance of the worker executes a row twice
  when a poll outlives its interval, although a single instance is
  what `PRODUCTION_RUNBOOK.md:461` recommends "to avoid duplicate processing". `LonePollExecutesOnce` has the premise it needs.
- `KeysInOrder` without its premise `~overlapped`: two registrations leave two
  ACTIVE keys, and one that overlaps `disableModule` leaves an ACTIVE key on a
  disabled module.
- `PositionCapOfAll` (`CopyTrading`): an order placed by hand between the guardrails'
  reading and the copy's row is not counted, so the open orders together exceed
  `maxOpenPositions`, with a single poll; `evaluateGuardrails` refuses the copy with
  "Max open positions reached" only if it sees it.
- `CancelledIsGone` (`Orders`): the cancel route ignores what `cancelOrder` returns, and
  the exchange's client returns refusals instead of throwing (the copy engine
  says so of `postOrder`, `copy-engine.ts:239`), so a live order is called CANCELLED.
- A row of `module_txs` whose transaction is never mined stays SUBMITTED with no fault
  of the worker (`Stuck` in `ModuleExec`, allowed by `TxsSettle`): `wait()` has no timeout
  (`module-exec.worker.ts:171`) and no code reads SUBMITTED rows again.
- The idempotency key of a payload stays on a FAILED signing request: the
  payload can never be signed again, as the next insert violates the unique key
  (`RowHeldByOne` is why nobody else gets through).
- `GoodSessionKept` (`WebSession`): "Clear stale session on 401" (`api-client.ts:50`)
  clears the token held when the answer comes, not the one refused. In a single
  tab, a mutation that went out without a token while AuthSync was verifying is
  refused after the new token was stored, and clears it; with two tabs, a refused
  request of one removes the token the other has just stored. A logout also
  does not undo a verification in flight, whose token is stored after it.
- `WorkersTold` limits itself to workers whose interval fits their limit: the
  auto-claim worker runs hourly and is reported stopped ten minutes after each
  run. The status route waits as long as Redis is away.

Seen while reading, and outside every model: `useSSE` passes its token as a query
parameter while `authenticate` reads the header, so the streams answer 401;
`admin/retry-relayer` marks rows PENDING that no worker reads; a position that
was closed stays the newest snapshot of its market and is displayed on.

*Bounds.* `MaxAttempts`, `MaxEvents`, `MaxTime`, `MaxFaults`, `MaxExecutions`,
`MaxRegistrations` and their like cap unbounded counters in the guards of the
actions that raise them. Two activations, requests or calls suffice for a
read-then-write race, since each race is between one reader and one writer. One
fault per behaviour (two in `module_exec`) lets a crash, an abandoned poll or a database error fall
between any two steps, while refusals and lost replies are not counted at all.

- *Copy trading.* Two ticks open a breaker and let it recover, as the recovery
  time is one tick. The failure threshold is 1 in `copy_poll_and_sync` and
  `copy_overlap`, so that the breaker opens and recovers within the few attempts
  of a behaviour, and 2 in `copy_liveness`.
- *Guards.* `MaxAdmitted` and `MaxFailures` bound the history of the signing
  classes: about twice what the limits allow, over two window widths. An hour of
  the contract is shorter than its day, both expire within `MaxTime`, and three
  executions exceed a rate of one or two per window or lie on both sides of a
  boundary; `MaxUint32` and `MaxUint256` are small enough to be met.
- *Signing flow.* Both rate limits are 1 with two users, so that each refusal
  happens; one retry and one failure suffice for a retried, a failed and a
  half-open call.
- *Module execution.* Two rows are enough for a poll to be between two of its
  rows while another runs; `MaxInputs` lets requests, rows and faults be three together
  (`MaxExecFaults` two of them; an activation that waits for ever counts as one), and
  `MaxBusy` two of requests and polls be in flight, above one poll that may
  run when no other goes on. `Menus` splits what a user asks for: keys and the module, or
  settings and the allowlist, which no other step reads. `Take` exceeds the
  number of rows, as 10 does in practice.
- *Wallets.* Three calls are a migration or a failed creation between two
  provisionings; a third minted address would only be lost as the second may be.
- *Services.* Funds: two requests with or without the one key and one fault.
  Orders: two orders, two cancels and two reconciles. Streams: four rows in
  batches of two with two ticks under way, so that a late answer meets a newer
  `lastId`, and one reconnect. Sessions: one tab, two requests in flight (a verification
  or provisioning beside a refused request or a logout), three tokens, one database
  error; the theorem is about any number of tabs and requests. Health: a worker that
  runs often and one meant for the long limit, one outage, two starts. Funding: one sync and one copy, an entry
  that expires after one tick, two changes of the wallet; the offers include
  copies the balance cuts, copies the profile cuts, and each refusal.

*Fairness.* `FairSpec` of `CopyTrading` asks that an activation which can step
does (`PollStep`, `SyncStep`, `LoopStep` weakly fair): Node's event loop resumes
every settled promise, and each awaited call of this code settles, with a result
or an error. `SigningFlow` asks the same of each request in flight
(`InFlight(r) /\ Step(r)`), and of none that has not arrived; `Funds` of each
request, whose two polls of the relayer are bounded. `ModuleExec` asks it of the
worker as a whole (`\E a : Fetch(a) \/ PollStep(a)`): `setInterval` starts
`poll()` again and again, also while an earlier activation waits for ever, from which
nothing is asked: an activation that is `Stuck` has no step. Retries are bounded, so
no fairness is asked of a provider. Nothing is asked of users, the leader, the exchange, the clock, Redis
or faults. Where crashes break a promise the property says so in its premise
(`[](faults = 0)`, `[](execFaults = 0)`) or the run excludes them: an attempt in
flight when the process dies stays PENDING for ever, because no code revisits
PENDING rows; so does a row CREATED or SENT in `signing_settles`, where a
database error in the catch block has the same effect, and a SUBMITTED row of
`module_txs`.

*Deadlock* is checked in the copy, signing and guard runs. `module_exec`,
`wallets`, `services` and `provisioning_race` say `CHECK_DEADLOCK FALSE`: there
all requests of a behaviour end, and nothing is left to do. That none of them
ends in the middle is what `TxsSettle` and `WithdrawalsSettle` say.

## Proofs

TLAPS checks eight modules, with SMT (Z3), Zenon, and LS4 for temporal steps.
Each theorem of a specification has the same argument: an inductive invariant
holds initially, every action keeps it (one lemma or step per action), and it
implies the property.

### Copy trading

`CopyTradingProofs` is about any `Users`, `Trades`, `Polls`, `Syncs`, fault kinds and bounds that
satisfy `BreakerAssumption`, `EngineAssumption` and `WorkerAssumption`.

`IInv` is inductive. `OrdersAccountedFor` alone is not: an activation about to
post must know that its attempt exists, is its own and has no order yet. So
`IInv` follows an attempt from its creation: the activation that wrote it is the
only one to hold its id while inside the try block (`AttemptOwned`,
`AttemptNotShared`), it is PENDING until that activation settles it
(`StillPending`), nothing was posted for it before the post (`NotYetPosted`),
and between the exchange's answer and SUBMITTED the activation holds the id of
the order placed for it (`PostedOrderKnown`, `OrderRowsMatchBook`).

| Theorem | States |
|---|---|
| `InvariantHolds` | `Spec => []IInv` |
| `TypesHold` | `Spec => []TypeOK` |
| `OrdersAreAccountedFor` | `Spec => []OrdersAccountedFor` |
| `SubmittedOrdersAreLive` | `Spec => []SubmittedIsLive` |
| `AttemptsLedgerImplemented` | `Spec => AttemptsKept` |
| `SettledAttemptsStay` | `Spec => SettledAttempts` |
| `ClosedStaysBelowThreshold` | `Spec => []ClosedBelowThreshold` |
| `SinglePollOneOrder` | with `Polls = {p}`: `Spec => []OneOrderPerEvent` |
| `SinglePollPaused`, `SinglePollPositionCap` | with `Polls = {p}`: `Spec => OpenMeansPaused`, `Spec => PositionCap` |
| `OverlapBoundsDuplicates` | with `Polls` finite: `Spec => []OverlapBoundsOrders` |
| `OverlapBoundsPositions` | with `Polls` finite and not empty: `Spec => []OverlapBoundsMarkets` |

`AttemptsLedgerImplemented` maps each step to one of the ledger's or to a stutter:
writing a row opens an attempt, the exchange's acceptance places the order, and
the three final updates settle it. `IInv` gives the ledger's guards, above all that
the attempt is still PENDING when the call goes out, that it has no order then,
and that it has one when it becomes SUBMITTED. `SettledAttempts` is proved on its
own; the ledger says more, so TLC runs only that.

Most steps only move an activation and fall under `QuietStep`; each step that
writes a table has its own lemma. `ClosedStaysBelowThreshold` needs only the
breaker (`BreakerWrites`). `SinglePollOneOrder` adds to `IInv` that a pair of user
and event has one attempt that is not SKIPPED, and that between the duplicate
check and the row it guards no such row appears; with two activations the second
fact fails, which is the finding `copy_duplicate_order`. The breaker and the
position cap are asked long before the order too, and a single activation keeps
their answers true meanwhile (`BreakerStillAdmits`, `CapStillFree`). The cap's answer is
true of the user's copies only: the routes add rows by hand and close any row
(`ApiOrders`), which never makes the open copies more (`ApiOrdersStep`), and the count the
guardrails read, of all open rows, is at least that of the copies (`RoomForCopies`).

The last two theorems say how far overlap goes. A limit that is read first and
used up later is passed at most once by each activation: `OneForAnother` states
this of any two finite sets, those who have passed the check and those who have
written what it guards, whose sizes together never exceed the limit and the
number of activations. Applied to the attempts of a user and event, with limit
zero, it bounds the orders by `Cardinality(Polls)` (`Races`); applied to the markets
of the open BUYs among a user's copies, with limit `MaxOpenPositions - 1`, it bounds them by the cap
and the activations together (`Overshoot`). Both bounds are reached: TLC finds a
counterexample to each when it is one lower, with two overlapping polls. No run
repeats the two, since TLC only confirms for two polls what is proved for any
number of them.

### Signing

`SigningGuardsProofs` relates a list w to the full log of stamps: `IsWindow(w,
width, log, now)` says that w is the log without a prefix of stale stamps.
Pruning, appending and the passing of time keep it (`PrunedIsWindow`,
`AppendedIsWindow`, `LaterIsWindow`). From it follow the two facts about code
that has forgotten its history: if the list is within its limit after each
append, no stretch of the log exceeds it (`AtMostAfterAppend`), and a full
pruned list means that the log is busy now (`FullIsBusy`). None of this assumes
that stamps are ordered. `Prune` takes a minimum; that a set of numbers has one
(`LeastExists`) is derived from the well-foundedness of strict inclusion on
finite sets, applied to initial segments.

| Theorem | States |
|---|---|
| `LimiterTypeCorrect`, `UserRateHolds`, `GlobalRateHolds`, `RatesHold` | `LimiterSpec => []LimiterTypeOK`, `[]UserRate`, `[]GlobalRate`, `[]RatesKept`, which is the two together |
| `RefusalsHaveCause` | `LimiterSpec => RefusedForCause` |
| `BreakerTypeCorrect`, `BreakerTripsInTime`, `BreakerKeepsQuiet`, `BreakerNeverStuck` | `BreakerSpec => []BreakerTypeOK`, `[]TripsInTime`, `[]QuietPeriod`, `[]NeverStuck` |
| `BreakerTripsForCause` | `BreakerSpec => TripsForCause` |
| `FlowTypeCorrect`, `OneRequestHoldsRow`, `SubmissionsAreBounded`, `AnswersAreOnRecord`, `AnswersAreLogged` | `Spec => []FlowTypeOK`, `[]RowHeldByOne`, `[]SubmissionsBounded`, `[]AnswersOnRecord`, `[]AnswersLogged` |
| `LedgerImplemented` | with `"database" \notin FaultKinds`: `Spec => LedgerKept` |
| `FlowUsesLimiter`, `FlowUsesBreaker` | `Spec => LimiterSpec`, `Spec => BreakerSpec` |
| `FlowKeepsRates`, `FlowKeepsBreaker` | the theorems about the two classes, for concurrent requests |

`LimiterInv` adds to the types that every list is a window of its history and
that the history keeps its rate. `BreakerInv` says the same of the failures of a
CLOSED breaker, that the stamp an OPEN one recovers by is no older than its trip
(late failures only move it forward), and that no probe is ever counted as
failed, because the first failed probe opens the breaker. `NeverStuck` rests on
the last: the half-open limit then equals the number of successes that close it,
so the branch of `allowRequest` that refuses a probe is dead code.

`FlowInv` gives each request what it knows at each await. A request before
`create` is named by no row; one past it holds the only row of its key
(`Holds`), which is unsigned until the request records its signature
(`Unsigned`), and the provider has acted at most once per attempt begun
(`Attempts`). A step writes only the row of its own request (`Footprint`,
`OwnRowOnly`), so `OthersKeepInv` proves once that all other requests keep what
they know, and each action is left to show what it does to its own. For the
refinement `StatusKnown` adds the status of a row in progress; each step is then
a stutter or one of the four steps of the ledger (`RowStep`).

The proofs assume `ClockAssumption`, `LimiterAssumption`, `BreakerAssumption`
and `FlowAssumption`, and nothing of the sizes of sets or of the bounds.

### The contract

`AutomationModuleProofs` is about any keys, constraints, widths of windows and
counters that satisfy `ModuleAssumption`.

| Theorem | States |
|---|---|
| `ModuleTypeCorrect` | `ModuleSpec => []ModuleTypeOK` |
| `HourlyRateHolds` | `ModuleSpec => []HourlyRate` |
| `RollingHourHolds` | `ModuleSpec => []RollingHour` |
| `DailyBudgetHolds` | `ModuleSpec => []DailyBudget` |

The properties speak of every execution there has been; the contract keeps a
count and the start of a window. `RateInv` ties the two: `CountIsExact` says that
`hourlyTxCount` is the number of executions of the current window,
`InTheirWindows` that each happened within the window it is counted in, and
`InOrder` that the windows of a key follow each other without overlap, across
updates and re-registrations. `RollingHour` (any hour holds at most twice the
rate) then follows from `TwoWindows`: executions less than an hour apart lie in at
most two windows. A greatest window is found as a least number is in
`SigningGuardsProofs`, from the well-foundedness of strict inclusion.

For `DailyBudget` the contract keeps a sum. `BudgetInv` adds that
`dailyNotionalUsed` is the notional of the executions in the day being added up
(`SpentIsExact`), and that no execution of this registration belongs to a later
day (`DaysFollow`): an execution after a day is over starts from a day with
nothing in it. The sum of a set is a recursive function that takes elements out
one at a time, and the induction theorems of the library cannot be used. So the
lemmas about it argue by a smallest counterexample: `SmallestExists` gives a
smallest set on which something fails, from well-foundedness again; `SumExists`
says that the recursion defines a function, `SumsAgree` that two such functions
are equal on the subsets both know, and `AnyFirst` that the element taken out
first does not matter. `NotionalOfOneMore` is what the proof of `Execute` uses.

### Money

`FundsProofs` is about any number of requests, keys and faults (`RelayerAssumption`,
`FundsAssumption`).

| Theorem | States |
|---|---|
| `FundsTypeCorrect` | `Spec => []FundsTypeOK` |
| `TransfersHaveRows` | `Spec => []TransfersWrittenAhead` |
| `RecordsAreMined` | `Spec => []RecordedIsMined` |
| `RetriesAreReplayed` | `Spec => []OneSubmissionPerKey` |

`PlacesTell` gives each await what is known there: before the submission the
relayer has nothing of the request, after the receipt its transaction was mined,
and inside the adapter a withdrawal has its row. `KeysReplay` is the argument for
retries: while no response is kept for a key that was never in use twice at once,
one request has it beside those `Authenticate` refused, which submitted nothing;
afterwards every other one has it only to look it up, has submitted nothing and ends
with the answer kept, or refused.

### Module execution

`ModuleExecProofs` is about any number of requests, keys, polls, rows and faults
(`AutomationAssumption`, `ExecAssumption`).

| Theorem | States |
|---|---|
| `ModuleExecTypes` | `Spec => []TypeOK` |
| `KeysStayInOrder` | `Spec => []KeysInOrder` |
| `ExecTypeCorrect` | `Spec => []ExecTypeOK` |
| `RowsTell` | `Spec => []RowsTellChain` |
| `LonePollIsSafe` | `Spec => []LonePollExecutesOnce` |
| `OverlapBoundsRows` | `Spec => []OverlapBoundsExecutions` |

`FetchedTell` says that whoever stands past `MarkSubmitted` has a row that is no
longer PENDING, which no step makes PENDING again: enough for `RowsTellChain`
with any overlap. While activations never met (`LoneActivation`), the running one
is the only one, and the rows it still has to do have not executed, for they
were PENDING when it fetched them and nobody else touches them. Both need that
`Current` is a member of `todo` and that a fetch is never empty, which is where
the lemmas about minima and oldest rows come in.

`OverlapBoundsRows` is what is left of `LonePollIsSafe` when polls overlap: a row
executes at most once for each activation that may run at once. An activation
that fetched the row may execute it until it is past the call, and nobody fetches
a row that has executed, so the executions and those who may still execute are
never more than `MaxPolls` together (`ExecutionsLeft`). TLC finds the bound reached.

`KeysStayInOrder` is about requests that follow each other. `KeysInv` says what
the one request in flight has done by the place it stands at (`LoneRequest`): past
the rotation no key is ACTIVE, past the creation the new key is the only one, and
so on; `ArgsNamed` says which key a request names. A request that stops half-way
ends what is said of the key in the row and leaves what is said of a disabled module.

### Server wallet and provisioning

`ProvisioningProofs` is about any number of calls, wallets and faults
(`WalletAssumption`).

| Theorem | States |
|---|---|
| `WalletTypes` | `Spec => []TypeOK` |
| `HandedAddressesStay` | `Spec => []HandedAddressStays` |
| `PartsStayInAgreement` | `Spec => []PartsAgree` |

The code keeps the parts of a wallet together in two cases, and each has an
invariant of its own. `FirstInsertWins`: for a new user whose calls have not failed
the unique `userId` decides, every call past the creation has the address on
record, and one about to write has read that there was no row. `UsedStays`: when
calls follow each other, one that makes a wallet (`Making`) does so while nothing
was handed out or derived, and one past it (`Having`) has the READY address.
`CredsFollow` says the same of credentials alone through migrations, which drop
them before the row. `KindsTell` keeps a rotation or revocation from hiding, since
the kind of a call never changes.

### Orders, sessions, streams, health and funding

`ServicesProofs` is about any orders, cancels and reconciles; any tabs
and requests (`SessionsAssumption`); any number of rows and ticks
(`StreamAssumption`); any workers, intervals and limits (`HealthAssumption`); any
profile, holdings, offers and time to live (`FundingAssumption`).

| Theorem | States |
|---|---|
| `OrdersToldRight` | `OrdersSpec => []OrdersTellExchange` |
| `NoTabStranded` | `SessionsSpec => []NotStranded` |
| `StreamsHaveNoGaps` | `StreamSpec => []NoGaps` |
| `WorkersAreTold` | `HealthSpec => WorkersTold` |
| `GuardrailsBound` | what `EvaluateGuardrails` allows, for any profile, trade and balance |
| `CopiesStayWithinMeans` | `FundingSpec => []CopiesWithinMeans` |
| `OrdersTypeCorrect`, `SessionsTypeCorrect`, `StreamTypeCorrect`, `HealthTypeCorrect`, `FundingTypeCorrect` | each specification keeps its type invariant |

For orders, `RowsFollow`, `CancelsFollow` and `ReconcilesFollow` say that what a
request has read stays true until it writes: an order that is gone stays gone, one
that is stale stays stale, and one that is called CANCELLED is gone or was `refused`.

For sessions, `NotStranded` is inductive beside `AskedFromDashboard`: what is refused was
asked from a page that is left on a 401, since on the home page only AuthSync asks,
and that either lets AuthSync try again or loads the dashboard. A step of one tab
leaves the others alone (`Alone`) and changes what one call is for (`Becomes`).

For streams, `TicksContiguous` says that the rows of an answer leave out none that
was visible between the row asked from and the last of them, and that a tick asks
from a row already sent. Since `lastId` only ever names the latest row of an answer
that was sent, it may go back and the next tick repeats rows, but never past one
that was left out. While rows appear in order a row that shows up later is
later than everything sent.

For health, `PingsLeft` says that a ping left a run of a process that was up, which
gives the first half of `WorkersTold`. The second needs that runs are on time
while the process is up and Redis was never away (`RunsOnTime`), and that this is
still known of the pings a request read before it looked at the clock
(`ReadsFresh`): the four reads and the clock are one after the other.

For funding, `GuardrailsBound` is arithmetic on fractions: the size is cut to the
largest position and to the balance (`CopySizeCapped`, `AffordedCapped`) and rounding
to hundredths adds at most half the price of one hundredth (`RoundedCosts`). `FundingInv` is about the
balance: a reading that is not torn adds up to something between the least and
the most the wallet held while it lasted (`ReadingTrue`, `WithinRange`), which
stays true of what is cached (`CacheTrue`) and of what is decided on (`BasisTrue`).

### What is only model-checked

The liveness properties: `AttemptsSettle`, `FollowersServed`, `RowsSettle`, `TxsSettle`
and `WithdrawalsSettle` rest on fairness, which is out of the prover's reach. Every
safety and action property of a passing run is proved.

## Not modelled

- *Portfolio service, poly-proxy, pages and query hooks of the web application*:
  reads and layout. The cache of `useApi` is a library's. `useSSE`, the API client
  and the providers are in `EventStream` and `WebSession`.
- *External API adapters*: request building. What may come back is in the modules
  of their callers.
- *Shared types, validation, errors*: no state. The constants of
  `constants.ts` are CONSTANTS here.
- *The workers' own signing provider*: it signs and keeps nothing; none of the
  limits above apply to it.
- *Auto-claim*: a placeholder in the code; its ping is in `WorkerHealth`.
- `isWithinLimits`, `reset`, `markRetried`, the count functions: no caller outside
  the tests.

## Plan

Every component with state of its own has a module. What is left, in this order:

1. *API and worker composed*: `rotate` beside a copy that is signing.
2. *Larger instances*: two users of `CopyTrading` on one breaker with overlapping
   polls.
