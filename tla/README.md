# A specification of Umbra's matcher, ledger, auction and front end

TLA+ models of the parts of this repository whose correctness depends on order,
failure and rounding, TLC configurations that check them on small instances, and
TLAPS proofs for every size of the instance.  Paths are relative to the repository.
`PROJECT.json` maps every definition to the lines it models.

    tlc -workers 2 -config MCTaskStore_two.cfg MCTaskStore
    tlapm Indexer_proofs.tla

## 1. The system

Umbra is a dark pool.  Traders submit sealed orders to a DEX contract (an EVM
contract, whose Solidity source is not in the repository) or to a Midnight contract
(`contracts/midnight/src/umbra.compact`).  A Node process, the *matcher*, indexes
the DEX's events into Postgres, closes batches, decrypts and auctions the orders of
a closed batch, publishes the matches, writes audit transcripts to S3 and settles
matches after their dispute window.

| Component | State it keeps | Operations | What makes it correct |
|---|---|---|---|
| durable tasks (`matcher/src/tasks/store.ts`, `workers/retry-worker.ts`) | rows of `tasks`: status, attempts, nextRunAt, heartbeat, lease; per process the pass and sweep under way | runTask, createTaskIfMissing, complete, fail, lease, select due, sweep stale | a key runs once; attempts bounded; nobody runs a task beside its owner; no row falls between the loops; every retried task settles |
| batch matcher (`workers/batch-matcher.ts`, `batch-closer.ts`) | the in-flight set; rows of `batches` and `matches` | close, scan, onBatchClosed: auction, publish, transcript, insert, label | an auction sees every order; the label of a batch is true; a closed batch gets a label |
| settler (`workers/settler.ts`) | rows of `matches` and `orders` | poll, label, check proof, settle, mark | only audited matches settle; rows follow the chain |
| indexer (`chain/events.ts`, `workers/catchup.ts`, `orders/lifecycle.ts`) | rows of all of these; event log, checkpoint, commitments | listeners, confirmed replay, boot, reorg rollback, status reconciliation | rows never claim more than the chain and end up equal to it |
| audit (`audit/*.ts`) | S3 objects, audit keys, batch receipts, anchors | write, repair keys, rewrite legacy objects, build batch receipt, anchor, verify | a settled match is covered by an anchored proof of sound transcripts; nothing unsound is signed |
| reconciler and health (`ops/invariants.ts`, `workers/invariant-reconciler.ts`) | none of its own | counts rows, enqueues repair tasks, each key once | a repair's one task is not spent too early; "ok" is no false all-clear |
| relayer commitments and integrity (`relayer/*.ts`) | commitments, nullifiers | upsert, consume, report | a settled match has spent its order's nullifier |
| agent access and orders (`agent/*.ts`, `http/server.ts`, `http/x402-agent.ts`) | rows of tokens | issue, select and count, sweep; order through `runTask` | no more uses than granted; every order was paid for; a token retires |
| Midnight contract | order commitments, nullifiers, batch statuses, roots, counters | six circuits | nullifiers back cancellations; batches advance in sequence; results are final |
| deployment scripts (`contracts/midnight/*.mjs`) | `.env`, the saved transaction; the operator's one DUST coin | prove, broadcast, watch, write the address, resubmit, call | `.env` names a contract that was broadcast; a dry run stays one |
| Midnight front end (`frontend/midnight`, order form) | localStorage shared by tabs; each tab's React state and wallet API | connect, poll, sign, charge, register, seal a batch | balance and lists agree with the orders; a refusal is final |
| auction (`shared/auction/`) | none: a function of the orders | rank, cross, clear, fill | limit prices, funds, priority and volume hold after rounding |
| HTTP API (`http/server.ts`) | none | requests over the above | |
| market candles (`markets/candles.ts`) | rows of `matches` | fold settled rows into intervals | volumes and intervals are whole whatever wrote the rows |
| privacy redaction and scrub (`privacy/*.ts`) | private text in `tasks`, `task_events`, `errors` | redact, count residue, scrub in three statements | what is scrubbed stays so; no order loses its key; old text goes |
| market maker, session accounts | little | a plan of orders, an upsert | |
| pages, inspection scripts, infrastructure, landing page | | | |

**Interactions.**  All workers run in one event loop and interleave at every
`await`; operator scripts (`matcher/scripts/rematch-batch.ts`) call the same
functions from another process.  They share the database, without transactions, and
the chain.  The closer, the retry worker, the settler and the operator's routes wrap
their work in `runTask`; a failed task is run again by the retry worker.  Events
reach the indexer twice: from live listeners, at once and in any order, and from the
replay of confirmed logs.  Event handlers, the matcher, the settler, the repair
worker and the boot all write match and order rows.  The auction is called by the
matcher; `frontend/lib/auction` is a copy.  The Midnight front end and scripts talk
to the contract and the Lace wallet, not to the matcher.

**Hard behaviours.**  Steps between two awaits on a row someone else updates; leases
and heartbeats that expire under a handler that is still running; a crash or an
error after a transaction was mined; repeated, late and lost events; an update
decided from an earlier read; a bounded selection; a chain that reorganises while
its index is written; objects rewritten under a proof of them; tabs and scripts that
share state without a lock; rounding.  Every hazard is listed with its line in
`PROJECT.json`.

## 2. Modules

| Module | What | Proofs |
|---|---|---|
| `TaskStore` | durable tasks | `AgentApi_proofs` |
| `AgentApi` | agent tokens and orders; extends `TaskStore` | `AgentApi_proofs` |
| `BatchPipeline` | chain, events, matching and settlement together | `BatchPipeline_proofs` |
| `AuditOps` | from a published match to its settlement: transcripts, anchors, repairs, reconciler | `AuditOps_proofs` |
| `Indexer` | confirmed log, checkpoints, reorganisation and rollback, relayer commitments | `Indexer_proofs` |
| `Units` | the scales of prices and amounts, of the next module and of `Candles` | |
| `Auction` | uniform-clearing auction | `Market_proofs` |
| `BatchSequence` | abstract: what the contract promises about batches | |
| `UmbraLedger` | Midnight contract; implements `BatchSequence` | `Midnight_proofs` |
| `MidnightDeploy` | scripts that deploy and call the contract; extends `UmbraLedger` | `Midnight_proofs` |
| `MidnightApp` | the Midnight front end in several tabs | `Midnight_proofs` |
| `Candles` | the matches table, the candles' query and the fold | `Market_proofs` |
| `PrivacyResidue` | private text in the operational tables and its scrub | `PrivacyResidue_proofs` |
| `FiniteSums` | lemmas: sums over finite sets, least and greatest elements | itself |

`MC*` modules and configurations give the constants small values.  `AgentApi` and
`MidnightDeploy` are compositions: their actions contain those of the module they
extend, and it is proved that each of their behaviours is one of that module.  The
proofs of two modules share one where they share lemmas or constants: of `TaskStore`
and `AgentApi`, of the two halves of Midnight, of the auction and the candles.  That
is why the front end's specification is `AppSpec` and the candles' `TableSpec`.
`BatchPipeline` and `AuditOps` model the same settlement from two sides: the first
its races over rows, the second what it verifies first.

Operators named `...Bug` in the modules are slips of the neighbouring definition (a
dropped guard, a missing reset).  No specification uses them: each shows that a
property fails when the code has that slip.

Further work: the composition of `TaskStore` with the batch closer, whose key is used
once; what the stored settlement time of a match means for its candle.

## 3. TaskStore

**State.**  `row` is the `tasks` table without payloads; rows are numbered in the
order of `createdAt`.  `pc`, `job`, `want`, `seen`, `batch`, `passNow` and `sweep`
are the local variables of the calls under way.  Instants are kept relative to the
present, and `Tick` lets one unit pass, so time is unbounded while the state space
is finite; instants older than `Horizon` stop ageing, except that due rows keep
their order.

**Actions.**  A caller: `Lookup`, `CreateTask` (the insert, refused by the unique
index), `StartTask`.  The function's outcome: `CompleteTask`, or `FailRead` and
`FailTask` (two statements).  The worker: `BeginPass` (the bounded selection),
`SkipUnhandled`, `LeaseTask` (the guarded update), `CheckLease` (the re-read),
`EndPass`.  The sweep: `BeginSweep`, `RecoverTask`.  Faults: `Crash` of a process,
`DbError` of one call, and `CompleteUnlogged`, the insert of the completion's event
failing after the update.  A task's function itself is opaque: it returns or throws.

**Left out.**  Payloads and results; the limit of 25 rows of the sweep; the rows
being ordered within a pass and a sweep (any order is allowed, which includes the
code's); which repair tasks are enqueued is in `AuditOps`.  The `now` of the sweep's
select, which it writes as `nextRunAt`, counts as the present of the update.  The
worker id is `matcher-retry-<pid>`; `DistinctWorkersAssumption` says that two live
workers differ in it, which two containers need not.

**Runs.**

- `tasks_two` (one caller, two workers, one sweep, two processes, one fault, two
  attempts, under `FairSpec`): `BoundedExecutions` (which lets every disturbed task,
  see below, have one attempt more, though only a lease before the start is known to
  need it), `NoLimbo`, `Exclusive`, `CompletedIsFinal`.  The last two hold except for the tasks in the history
  variable `disturbed`: swept while a live executor had them, leased between a
  `runTask`'s insert and its `startTask`, or completed without their event.  These
  are the only ways in which two executions of one task overlap or a completed task
  reopens.  The exceptions are real: nothing renews a heartbeat, and no update
  checks who owns the row.  `EveryTaskSettles`: a task of a retried type ends
  completed or dead-lettered, from whichever step the fault left it in.
- `tasks_starved` (a violation): `docs/RUNBOOK.md:19` says that tasks with attempts
  left are for the retry worker "to pick them up".  A row whose type has no handler
  is due for ever once it failed; `runRetryOnce` skips it and leaves it first in its
  selection of `batchSize` rows (`workers/retry-worker.ts:51`).  With the selection
  full of such rows no later row is ever leased.  The run uses a selection of one
  row, the code's is 50.
- `KeyedOnce` is checked where keys come from, in `agent_orders` (section 4).

**Fairness.**  The loops are timers that fire again and again (`setInterval`), the
statements of a call return, time passes; callers and faults are not forced. That a
task's function returns or throws is an assumption: the code has no timeout around
it (a hazard with no property).

**Proved** in `AgentApi_proofs`, for all sets of rows, callers, workers, sweeps and
processes, any number of attempts and any faults: `TypeCorrect`,
`ExecutionsBounded`, `NothingLost`, `ExecutionExclusive`, `KeysOnce` and
`CompletionFinal`.  The invariants are not inductive alone: that two executors
never meet needs to know that a lease belongs to a running row, that no worker holds
a lease on a row of its batch it has yet to reach, and that a row an insert left
behind is still queued; that executions are bounded needs that a won lease is an
attempt not yet spent.  `IInv` (`HeldRowsExist`, `ReadsLag`, `NoLimbo`, `Ownership`,
`StartsPending`, `Accounted`, `BoundedExecutions`, `SoleExecutor`, `OncePerKey`)
adds this; there is one lemma per action and `InvStep` puts them together.
Assumptions: `SizesAssumption`, `NamesAssumption`, `DistinctWorkersAssumption`.

## 4. AgentApi

**State and actions.**  `grant` is the table of tokens; `phase`, `shown` and `read`
are a request's locals up to `runTask`, from where it is a caller (`Runner`) of
`TaskStore`. `Issue` inserts a token, `SettlePurchase` is the x402 settlement after
which the agent has it.  `Select` and `Count` are the two statements of
`consumeAgentAccessToken`; nobody looks at the outcome of the second.  `Answer` is a
request that ends before `runTask`, `SubmitOrder` enters it.  `Lapse` and
`SweepTokens` are expiry and its sweeper, `CrashAll` a process's death with its
requests.  A task of type `AGENT_SUBMIT_ORDER` has no retry handler, as in
`index.ts`.

**Run** `agent_orders`: two concurrent requests, one token of two uses, three rows,
one idempotency key, a worker and a fault, under `AgentFairSpec`.  Two requests for
the last of two uses are the smallest race for it; the third row lets them enter more
orders than uses were spent; one key lets both find nothing and insert.  `KeyedOnce`, with the index deciding; `Metered`:
a token counts every request, and admits more than its uses only if requests stood
between its select and its update together (`raced`), which is real: the update's
guard stops the count, not the request; `OrdersWerePaid`: the functions entered
never outnumber the uses spent (`used_count`), except that all requests but one that
share a `raced` token's last use get in without one (`Unspent`: in this run, three
orders on two uses); `TokensRetire` (liveness): a lapsed token ends up
retired although a late update may set it `ACTIVE` once more. What binds a key to an
agent is left out: the code does not.

**Fairness.**  Time passes, the sweeper is a timer, an admitted request goes on.

**Proved** in `AgentApi_proofs`, for any number of requests, tokens, tasks and
processes: `AgentImplementsLedger` (every behaviour is one of `TaskStore`, so
section 3's theorems hold here), hence `OrdersKeyedOnce`; `TokensMetered`, by an
invariant that adds what a request between its statements knows: its token had a use
left when it was read, and either it is the only request there or the token is
marked as raced for.  `OrdersPaid` is about sums: over all order tasks the runs, with
the requests and rows that still owe one (`Owed`), are never more than the requests
the tokens admitted; and a token admits no more than `used` and its `Unspent`, since
(`Sharing`) once its uses are gone, the requests it admitted and those still between
their select and their update stay within that sum.  An insert turns a request's debt into a row's, a start turns it
into a run, a fault drops it, and nothing else creates one; `FiniteSums` has the sums
over finite sets this counts with.

## 5. UmbraLedger and BatchSequence

The contract's ledger is the state, each circuit one action whose assertions are its
guards: a transaction applies whole or not at all.  No circuit checks its caller, so
every call may come at any time.  A cast to `Uint<64>` that does not fit and a
lookup of a missing key fail the call; `MaxUint` stands for 2^64 - 1.
`publishMatchResult` takes a vector of `Width` commitments (32 in the code,
repetitions allowed).

`BatchSequence` is what a caller may rely on, without the maps: batches are sealed
one after the other, each is published once and then settled once, nothing is taken
back.  The promise is void from the moment `openBatch` opens a number out of turn,
and so is the refinement mapping of `UmbraLedger` (`skipped`): `openBatch` of the
next number makes a later `closeBatch` leave the counter where it is or move it back
(`umbra.compact:134`), although the comment at `umbra.compact:122` speaks of
advancing it.

The properties are checked in `deploy_ledger` (section 6), where the ledger is one
that scripts deployed and that anybody calls: `CancellationsAreBacked` (the spent
nullifiers and the active orders together are never more than the orders submitted),
`BatchesInSequence` (the counter's batch is open, a matched batch has its root, and
the batches below the counter are the sealed ones) and `ImplementsBatchSequence`.
That a published result is final is a consequence of the last.  One commitment, one nullifier, two roots and the numbers
0 to 2 let every circuit meet its own and every other's outcome, and the batch
counter reach its end; what more commitments and wider vectors do is left to the
proofs.

**Proved** in `Midnight_proofs`, for every `MaxUint`, `Width` and set of
commitments, nullifiers and roots: all of these, and `ResultsAreFinal`
on its own.  For the cancellations the strengthening `Backed` adds that the sets are
finite; for the batches `Batches` combines the facts that need one another: that the
counter's batch is open is inductive only with the sequence of the batches around it,
and so is the refinement (`Implements`), whose steps need that a sealed number is below the
counter.

## 6. MidnightDeploy

**State.**  Where each run of a script is (`at`), its `--deploy` flag, the contract
it calls, the files `.env` and `proven_deploy_tx.bin` that all runs share, and of
the chain, which is external: the unspent DUST coin, the node's pool and the
contracts deployed.  `Home` is the deployment whose ledger is the `UmbraLedger` of
the module.

**Actions.**  `Start` (checks and the flag), one `Prove...` and one `Submit...` per
script, `Watch`, `Timeout` and `UpdateEnv` of those that wait, `GiveUp` for any
error before the broadcast, `Resubmit` for the three scripts that hand in the saved
proof.  `IncludeDeploy`, `IncludeOrder` and `Drop` are the chain's, `Call` anybody's
circuit.  `deploy.mjs` never gets beyond its dry run: it names `ZswapNetworkId`,
which it does not import (`deploy.mjs:642`).  The coin a script pays with follows
from the events written in its text: the funding coin, its change or the change of
that.

**Run** `deploy_ledger`: a `deploy-final`, a `deploy_synced`, a
`test_deploy_fixed_time` and a lifecycle run, side by side.  `deploy.mjs` has no
run: its steps are those of a dry `deploy-final`, without the file.  `Width` is 1
here; the proofs cover every width.  `EnvWasBroadcast`: the address in `.env` was
broadcast by the run that wrote it, and is on the chain unless that run stopped
waiting for it (the exception is real: `deploy-final.mjs:384`); `DryRunsStayDry`: at
most one transaction is paid with a coin, and a dry run is deployed only if somebody
hands in its proof.

**Proved** in `Midnight_proofs`, for any runs: `DeployImplementsLedger` (so
that section 5's theorems hold of a deployed contract), `EnvNamesBroadcast`,
`DryRunsDry`.

## 7. BatchPipeline

**State.**  The chain (orders, matches, expired windows, event log), the database
(batch, order and match rows, audit keys), the transcripts in S3, the handlers under
way and the replay's position, and the local state of `onBatchClosed` and
`settleOneMatch`.  The contract's part is external: what the matcher's calls and
handlers expect of it.

**Actions.**  `Submit`, `Cancel`, `Close`, `Dispute`, `Expire` happen on the chain.
`Deliver` hands an event to a live listener, at once, late or again, `Replay` to the
confirmed replay; `HandlerWrite` and `HandlerOrders` are a handler's statements and
use what it read before (`saw`).  `Begin` to `Finish` are `onBatchClosed`,
`Consider` to `SettleOrders` the settler, `Repair` the audit repair.  Faults fail
one step of a handler, a pair or a settlement; `Crash` kills a process, and `Boot`
replays and reconciles.

**Abstractions.**  An auction yields the matches of `Legs` whose orders it sees (the
`Auction` module has the arithmetic); legs of different matches are disjoint.  The
match delay is an arbitrary delay.  The anchoring of batch proofs, with the
settler's optional check of it, is in `AuditOps`; left out are the limits of rows
per scan.  The two statements of the boot's reconciliation are one step, as nothing
else runs yet.  There is no event handler for cancelled orders and none that
resolves a dispute.  Reorganisations of a confirmed log are in `Indexer`.

**Runs.**

- `pipeline_faults`: two concurrent matcher calls, a settler, one repeated live
  event, one cancellation and one failure.  `RowsFollowChain`: no row claims more than
  the chain; `SettledIsAudited`; `EmptyMeansEmpty`: a
  batch labelled `MATCHED_EMPTY` has no match on the chain, except those whose
  publisher failed between publishing and recording them.  This holds within one
  process only: with the operator's script beside the matcher, whichever finishes
  last writes the label, and an auction that saw no active order says empty.
  `AuctionSawEveryOrder`, although events come late.
- `pipeline_live` (fair): after one crash at any step, the rows of a match and its
  orders end up equal to the chain (`RowsConverge`), and a closed batch ends up
  labelled for good although the replay resets its row (`BatchesResolve`).  No
  cancellation: a cancelled order keeps its row active, every publication over it
  reverts and the batch stays `CLOSED`, a hazard with no property.

One batch, one pair and one match suffice for the races over a row: batches and
pairs share none.  `MaxLive`, `MaxCancels`, `MaxFaults` and `MaxCrashes` bound
repeated deliveries, cancellations, failures and crashes.  `pipeline_live` has
`MaxLive = 0`: there the replay, the matcher and the settler overlap, while deliveries
by listeners are in `pipeline_faults`.  Two processes and crashes
beside failures are covered by the proofs.

**Fairness.**  The replay polls, handlers and calls return, the scan of `CLOSED`
rows and the settler's poll are timers.  Listeners are never forced: the replay
alone must do.  The settler's look at a row is strongly fair as retries share its
slot in the model and not in the code. `PromptHandlers` (in the fair run): a live
handler ends before its event is confirmed, twelve blocks later.  Without it a
handler that hangs for longer could write a stale status after everything else.

**Proved** in `BatchPipeline_proofs`, for any orders, matches, pairs, batches,
threads, settlers and processes, and any number of repeated deliveries, failures and
crashes.  The chain only moves forward (`Grown`): an event stays in the log, an order
or match that has settled stays so.  What a handler, the settler or a matcher call
read earlier is therefore a lower bound of the chain, and `PipelineInv` says so of
every local variable that is written to a row later; `RowsFollow` and
`SettledAudited` follow.  `EveryOrderSeen` holds although an auction may start while
events are missing, because it starts only with as many indexed orders as the
contract counts.  `EmptyIsEmpty` needs `EmptyInv`, which ties a call that is about to
label a batch empty to every match on the chain that it has not recorded, and the
assumption `OneProcess`: beside the operator's script, whichever of the two calls
finishes last labels the batch by what it saw.

## 8. AuditOps

**State.**  The object of each match in S3 by what matters of it (signed, salted, a
v2 receipt or a legacy transcript), what was there first, the match rows and the
batches' anchors in the database, the chain's statuses and anchors and how far they
are indexed, the tasks by key, and the handler under way in the retry worker, the
settler and the matcher.  A receipt is the set of what its digests cover, so two
roots are equal when the receipts are.

**Actions.**  `Retry` starts a runnable task's handler, `Settle` and `Relabel` are
the settler's poll, `Republish` the matcher's own anchoring; `Ready`, `Collect`,
`ReadObject`, `SendSettle`, `SaveSettle`, `SendAnchor`, `SaveAnchor`,
`SelectObjects`, `Look`, `Rewrite` and `RepairKeys` are the statements of the
handlers, `RepairScan` the audit repair worker.  `Reconcile` is
`buildInvariantReport` and `enqueueInvariantRepairs`, with each key used once, for
good, whatever became of its task. `IndexPublished` and `IndexAnchored` are late
events, `Throw` and `Crash` the faults.

**Run** `audit_ops` (fair): one match, one fault, in the cases that differ: a
receipt, an altered one, an unsalted transcript without its key, and a legacy
transcript of a match the index has yet to hear of.  What several matches of a batch
do to one another (one receipt covers them all) is left to the proofs.
`SettledUnderAnchor`: nothing settles before its batch has on-chain roots that cover
it, of objects all sound and salted, whatever was rewritten, anchored twice or
retried in between; and a report that is ok means that every known match has
settled.  `NothingLaundered`: rewriting never makes an altered object a signed one.
`MatchesSettle`: a batch as the matcher writes it today settles, however late
its events and whichever task runs first, if no call fails (`MatchesSettle`): it
hinges on the reconciler asking for a settlement only after the anchor, since it
asks once.

Some things a reader should know.  A legacy transcript that is rewritten after its
batch was anchored changes its digest, and the batch can then only settle after it
is anchored again, which no automatism does.  A repair whose objects failed still
completes, and its key is spent.  A match known from its event alone has no fills
and never verifies. All of these delay settlement and none of them breaks the safety
above.

**Fairness.**  The timers of `index.ts` fire again and again, handlers return, the
retry worker gets to every runnable task (strongly fair, as one slot stands for its
pass over all of them), the catch-up delivers every event.

**Proved** in `AuditOps_proofs`, for any matches, batches, objects, tries, faults and
crashes: `SettlesUnderAnchor` and `EvidenceKept`, from `Inductive`.  The invariant
says what each half-done handler holds: an object it read is the one in the bucket or
one that a rewrite turned into it, a receipt it collected covers only sound and salted
objects if it is about to be anchored, and what the chain has anchored was such a
receipt.  Rewriting keeps salted objects salted, which is why an old anchor still
counts.

## 9. Indexer

**State.**  The chain with the fork of every block, one order, its match, commitment
and nullifier as rows, `indexed_chain_logs`, the stamped `indexed_blocks`, the
cursor, and the locals of a pass.

**Actions.**  `Mine` and `Reorg` are the chain's.  `Check` to `Rewind` are the
statements of the rollback: the common block, the logs above it, the deletion of
orders and matches, the reset of settlements, the logs' `REORGED`, the blocks, the
cursor.  `Scan` to `Advance` are a chunk: the logs of its blocks (one call per kind of
event in the code, one atomic read here), each stored and
replayed into its handler, the stamp, the cursor. `Live` is a listener's call for an
event of any age.  `Fault` ends a pass anywhere.

**Run** `indexer_reorg`: three blocks, a depth of zero, chunks of two, two
transactions that may submit the order, and two troubles (reorganisations, listener
calls and faults together).  Only reorganisations deeper than the depth reach the
index, so that a larger depth adds blocks on top and no new case.  That is enough for
a rollback that is interrupted and taken up again, for a submission that comes back in
another block or is replaced by another, and for chunks that end inside a fork.  When the index is at rest,
`NothingMissed` says that every confirmed event has its row, `NoPhantoms` that no
row names a transaction of an abandoned branch, `IntegrityAtRest` that the integrity
report is clean: a replay that sets a commitment `ACTIVE` again does not unspend its
nullifier.

The history variables name what the code really misses:

- `torn`: a rollback that ended between the deletion of the blocks and the cursor;
- `buried`: a change of the chain that a stamp was put over, since a chunk's logs and
  the hash of its last block are two calls, or that a cursor passed without a stamp;
- `refiled`: a log stored again at another height keeps its first block number, which
  the next rollback goes by: it may leave rows of an abandoned branch, or delete those
  of an event that still stands, and nothing is claimed of the index (`AtRest`) while a
  log is filed so;
- `heard`: a listener brings back the row of a log that is marked `REORGED` or not
  yet on file, and no rollback knows of it;
- `pending`: a pass that failed after it had stored a log must be repeated, since no
  stamp above that log tells whether its block still stands.

The last two were found by a run with three troubles, which refuted a `NoPhantoms`
without them; two troubles suffice for every mutant, and the theorems hold for any
number.

**Proved** in `Indexer_proofs`, for chains of any height, any depth and chunk size,
any transactions that submit the order and any number of reorganisations, faults and
listener calls: `NothingIsMissed`, `IntegrityIsClean`, `NothingLeftBehind`, from
`Inductive`.  That the index is right when it rests says nothing of a pass under way,
so `IInv` says what each statement of a pass leaves.  Its pivot are the stamps that
still stand, those that have the hash the chain has: what was read up to one is the
chain (`ViewInv`, from the forks in `ForkInv`), and the rollback goes back to the
newest (`UndoInv`).  A height is `Done` when a stamp that stands is at it, or when
every block from such a stamp up to it was read as the chain has it and its logs are
replayed; `IndexInv` says that the events up to a height that is done, if their logs
are filed where they are, have row, commitment and nullifier, and `HeadInv` the same
of the log under way.  Conversely (`PhantomInv`) a row that was replayed, and a log
on file, are `Sound`: filed below the cursor or pending, and where the chain has them
if a stamp that stands is above; `UndoneInv` says which of them a rollback has already
removed.  `ChainInv` (one submission, before the publication, before the settlement)
is why a replay below a settled event does not take its row back.

## 10. MidnightApp

**State.**  localStorage (balance, deductions, batch id, lists, demo flag), shared
by the tabs; of each tab its `activeLaceApi`, its React state and the order form;
the extension outside.  An action is the code between two awaits of one tab.

**Actions.**  `HandleSubmit` to `Confirm` are the form: it connects if it has to,
tries the ways of signing in turn until one signs or the user declines, charges,
proves, registers. The wallet connects, polls, syncs at a button (`Sync`), refills
and disconnects; a tab mounts again (`Mount`); `PressClose` and `HandleCloseBatch`
seal a batch with the number the tab was rendered with.  `declined` has the orders the
user refused at a prompt of the extension, for a connection or for a signature.

A read of localStorage and the write that follows it (`wallet.ts:43-53`,
`batch.ts:119-126`) are one step, as if tabs took turns.  No lock of the code makes
them so: browsers that run tabs in several processes may let two tabs read before
either writes, and then a deduction or a listed order is lost.  `NetOfOrders`,
`PaidOnce` and `OrdersKept` say nothing of that case.

**Run** `midnight_app`: two tabs, two orders of different cost, two batches, two
ways of signing and three other clicks; balances the wallet reports are below or
above what the orders cost.  `NetOfOrders`: the stored balance is the last reading
less all deductions, none twice or dropped; `PaidOnce`: the deductions are those of
the charged orders, and only a charged one is listed; `OrdersKept`: a registered
order is on the list of its batch and on no other; `DeclineIsFinal`: an order in
`declined` is never handed to the extension, and neither charged nor listed unless it
is in `overruled`.  These are real: with the demo wallet active and the extension
there, `signOrderWithLace` asks for a connection, and a refusal falls through to the
demo wallet (`wallet.ts:463-472`), which signs whatever it is given, so the order is
charged and listed and the form reports it as approved (seven steps of the run).  A
refused signature has no such exception.  An order lost
between its charge and its listing keeps its deduction (`fate` is `lost`), and one
confirmed after its batch was sealed is on the sealed batch's list: the code
promises no more.  The button answers from what the wallet reports; a demo wallet
reports the balance it was made with, of which earlier orders were already deducted,
so that `SyncDemo` deducts them once more.

**Proved** in `Midnight_proofs`, for any number of tabs, orders, batches and
balances: `NetBalance`, `ListsKept`, `Declined`, `ChargedOnce`.  Steps are first abstracted to what
they do to an order (entered, walked on, ended, paid, registered, forgotten); the
invariant `Fates` then says that an order under way is in one form and on no list.
`Declines` adds that the form of a declined order has the demo wallet's API and is past
the connection, or is about to fail for want of an API.
For `ChargedOnce` the sum of the costs of the charged orders grows by one order's
cost exactly when that order is charged, which it is once.

## 11. Auction

One behaviour is one call of `runAuction`.  The orders are chosen freely; `Rank`
filters and sorts, with any order among equal prices since the comparator never
returns 0 and the rows come without `ORDER BY`; `Cross` is an iteration of the
crossing loop, `Clear` fixes the clearing price, `Fill` is an iteration of the fill
loop.  `i` and `j` of the code are always equal and are one variable.  All divisions
round down as in the code.

**Run** `auction_fills`: every book of three buyers and two sellers over the amounts
0, 1, 2 and 5, a price scale of 10 and assets of twice the unit of cash.  The scale
is small so that every rounding loses something; five orders give chains of partial
fills on both sides and orders beyond the crossing prefix.  It shows that no fill is
above a buyer's limit and no buyer spends more than the deposit (`BuyersCovered`),
although both price and quote are rounded; that the cap on the quote at
`auction.ts:31` is never needed; that a seller loses at most a unit of cash per fill
and a unit of the scaled price against the limit (`SellersGetTheirPrice`); that
every order that trades accepts the clearing price; priority; and that the prefix is
exhausted, so that the fill loop ends.

**Proved** in `Market_proofs`, for any finite books, amounts and units, and any order
among equal prices: `TypeCorrect`, `CashSuffices`, `SellersArePaid`,
`OnePriceForAll`, `BestPriceFirst`, `NothingLeftToTrade`.  The inductive invariant
(`IInv`) says what the fill loop has done with every order of the prefix: those it
has passed have all they asked for or have nothing left, the pair being filled has
what the matches say, those beyond are untouched, and both sides have traded the same
total.  That the cap on the quote is never needed is arithmetic with division: the
cash a buyer has left, scaled, is at least what the rest of the request costs at the
clearing price (`CashLasts`), and rounding down each fill keeps it so.  The
assumptions are that the sides are finite, and the amounts and units what bigints and
powers of ten are.

Two things a reader should know: the crossing loop compares the n-th buyer with the
n-th seller, not volumes, so a large order that would cross several on the other
side is served only within the prefix; and with equal prices the result depends on
the order of the rows.

## 12. Candles

**State and actions.**  `Candles` has the rows of `matches` and a clock.  `Record`
(`onBatchClosed`), `Publish`, `Settle` (the event or the settler), `Label` (the
settler finds a match settled) and `Rollback` are the statements that write a row, so
that the query sees every table they can leave: rows without price and amounts, rows
settled without a `settled_at`, rows stamped again later.  An earlier release wrote
the two amounts of a row in reverse; its rows are there at the start.  `Selected` is
the query, with any choice among rows that tie; `Buckets` is the loop over the sorted
rows, as a fold that takes the last row (`LastRow`) last, and `BuildCandles` the answer.

**Run** `candles_fold`: three matches of one listed pair, two prices, intervals of
one and two seconds, limits of one and two candles with one row read per candle and
two at most (the code's factors are 100 and 5000).  Amount, prices and units are such
that cash is rounded and that a reversed row differs from a direct one.
`VolumesRecovered`, with the table's types, and `CandlesAreTrue`: only the oldest candle
can lack matches, all others are what the definition of a candle says (`WholeCandles`),
and no interval with a match lacks its candle (`NoHoles`).  A late or replayed
`MatchPublished` leaves a settled row without `settled_at` until the next
`MatchSettled`.  Postgres sorts it before all others, so it is read however old it is,
and if the bound on the rows is reached it takes the place of another.  The properties
say what it cannot spoil: how far back the answer reaches is told by the oldest *stamped*
row read, and from there on candles are whole and without holes in such tables too.

**Proved** in `Market_proofs`, for any matches, amounts, prices and units:
`TradedRecovered`, that the volumes are recovered and the table keeps its types.
`TableInv` says that a row with a price has the cash and the asset of one trade, one way
round or the other.  `DirectIsNearer` is the reason that the comparison of errors picks
the right one: the cash, rounded down, is off by less than one unit of the scale, while
the reversed pair is off by at least as much, and by more unless the two amounts are the
same.

`AnswersAreTrue`, that the answers are true, for any matches, pairs, intervals, limits
and bounds on the rows, in four steps.  `OneMoreRow`: folding a row that comes after
all others into the candle of a set of rows gives the candle, by its definition, of
the set with that row; the first price stays and the last is replaced only because of
the order, ties by id included.  `HeldBucketsStep` and `FoldsRowsOnce`: so the function
from sets of rows to the candles they define satisfies the recursion of the fold, which
has one solution at most; this is the induction over the rows, on a smallest set for
which it fails (`SmallestFailure` of `FiniteSums`).  `UnreadIsOlder`: a row
that was not read is not newer than any stamped one that was, whichever rows the
database takes from a tie, since those without a stamp are read before it.  `BucketBegins` and `NewestUpward`: a row at or after the start of a candle
falls in that or a later bucket, and the limit keeps a later one with an earlier.  That
a bucket is never mistaken for a missing one needs `None` not to be a candle, which
`CandlesAssumption` says.

## 13. PrivacyResidue

**State and actions.**  An order task's row by its kind of key, whether its payload
or result holds private text, and its status; whether events and errors hold any; the
scrub task, and the next statement of each run of `scrubPrivateTaskResidue`.
`Submit`, `Complete`, `Abandon` and `RecordError` write the tables as the present
release does; the tables start as any earlier release may have left them, whose
processes are gone, so that a task it left running can only be given up.  `RunTask`
to `FinishTask` are the retry worker, `RunScript` the operator's script, `Count` and
`Enqueue` the reconciler.

**Run** `privacy_scrub` (fair, an old row and a new one, two crashes):
`ScrubbedForGood`, with the types of the state: after one complete scrub no private text
is left or comes back, however its three statements interleave with requests and another
scrub.  `AnswersKept`: a client that repeats a request finds the order it was told of
under its hashed key (`answered`), which the replacement of keys must not break; the
one an earlier release told it of under its own id (`former`) it never finds, before
the scrub or after it, as only the hashed key is looked up: its repeated request places
another order.  `PrivateTextGoes`: with fewer failures
than the task has attempts, the text of earlier releases goes.  One row of each kind is
enough, as rows meet only in the look-up by key.

**Proved** in `PrivacyResidue_proofs`, for any rows, clients, scrubs and crashes:
`ResidueGoneForGood` and `SameOrderAnswered`.  `TaskInv` keeps the scrub task's row and
its attempts within what the retry worker allows; `Cleared` says what each run of the
scrub has cleared up to its next statement, and that the requests of today's release
do not undo it; `KeysFit` that a key names one row, a replaced one the row it was
made of, and that a row has a result exactly when it is complete; `FormerKeys` that an
order told of under a client's own id never gets a hashed key.

One thing the code's own documentation does not say: the warning stays after a
complete scrub.  A scrubbed row whose key was null, or was replaced by
`agent:scrubbed:<id>`, is still counted as residue (`scrub.ts:29`), as is every order
sent without a `clientOrderId`, and the scrub's one task is then spent.

## 14. What is proved and what is only checked

Proved: every safety property that the runs check, and the refinement of
`BatchSequence`.
The assumptions on constants are the named `ASSUME`s of the modules; each is
evaluated by a run.  `EmptyIsEmpty` adds the assumption that the matcher is one
process.

Checked only: liveness (`EveryTaskSettles`, `TokensRetire`, `RowsConverge`,
`BatchesResolve`, `MatchesSettle`, `PrivateTextGoes`), which with `ENABLED` is beyond
the proof system.  So are the library's induction theorems, whose parameter is an
operator; what is proved of sums and of the candles' fold is proved by the smallest
counterexample instead, one operator at a time.

## 15. What is not modelled

- The market maker: `maker/strategy.ts` imports `buildOrderAmounts` and `toUnits` from
  `agent/orders.ts`, which exports neither, so it cannot be loaded.
- Session accounts: one upsert of a row that nothing waits for.
- How error texts are redacted; the market page's polling, statistics and chart.
- `frontend/midnight/contract.ts`, an in-memory mirror of the Compact contract
  without its asserts, and the two demo orders batch 1 is seeded with.
- The operator's read-only verification route, parsing, authentication, rendering.
- The polling of `test_live_lifecycle.mjs`, which reports CONFIRMED whenever the
  contract's state is answered at all: nothing follows from it.
- The Solidity contract, which is not in the repository: `BatchPipeline`, `AuditOps`
  and `Indexer` take of it what the matcher's calls and handlers expect.
- Pages, inspection scripts, infrastructure and the landing page.
