# TLA+ models of the analytics indexer store, the GraphQL address scalar and the paged RPC readers

Most modules model the subsystem of `crates/sui-analytics-indexer` that
turns the ordered checkpoint stream into range-named files in an object
store and tracks progress (`src/store/`). The code is in
`src/crates/sui-analytics-indexer/src/store/{mod,live,migration,uploader}.rs`.
`AddressParse.tla` models the `RtdAddress` GraphQL scalar of the two
GraphQL services (`crates/rtd-graphql-rpc/src/types/rtd_address.rs` and
`crates/rtd-indexer-alt-graphql/src/api/scalars/rtd_address.rs`) and the
`owner` parser of the consistent store's balance service
(`crates/sui-indexer-alt-consistent-store/src/rpc/consistent_service/address_balances.rs`):
three implementations of the one piece of request parsing in the
repository with an algorithm of its own.
`CursorPage.tla`, `OwnedObjectsReader.tla` and `BridgeTxPolling.tla`
model cursor pagination: the page `ReadApi::get_checkpoints` serves
(`crates/rtd-indexer/src/apis/read_api.rs`), the SDK's loop that reads
all pages of `getOwnedObjects` (`crates/rtd-sdk/src/lib.rs`,
`DataReader::get_owned_objects`), and the bridge indexer's task that
polls `queryTransactionBlocks` forever
(`crates/rtd-bridge-indexer/src/rtd_transaction_queries.rs`);
`BridgeFeed.tla` is that task's abstract promise, which it refines.
Every definition below is translated from those files; `PROJECT.json`'s
`map` names the lines behind each one.

## 1. The system

| Part | State it keeps | Operations that change state |
|---|---|---|
| `Batch` (mod.rs) | checkpoints (with rows and epoch), `row_count` | `add` |
| `LiveStore` (live.rs) | `object_store`, per-pipeline config | `split_framework_batch_into_files` (cut at epoch, then `Rows(n)` before adding or `Checkpoints(n)` after adding), `committer_watermark` (max `end` of the latest epoch directory − 1), `write_to_object_store` (plain `put`) |
| `MigrationStore` (migration.rs) | `file_ranges` (a `FileRangeIndex` per pipeline), `watermark_versions` (cached etag), `adjusted_start_checkpoints` | `find_starting_checkpoint`, `init_watermark` (GET or `Create`), `committer_watermark` (GET and cache the etag), `update_watermark` (conditional PUT; Precondition becomes `ConcurrentWriter`), `split_framework_batch_into_files` (cut at existing file ends, `assert!`, final flush), `write_to_object_store` (conditional PUT with the index's startup etag) |
| `FileRangeIndex` (migration.rs) | `start -> {end, epoch, etag}` | `load_from_store`; lookups `find_containing`, `find_next_boundary`, `snap_to_boundary` |
| `UploadWorker` (uploader.rs) | `rx`, `next_seq`, `serializing`, `pending_upload`, `next_upload_seq`, `latest_watermark`, `last_watermark_update` | the `select!` loop: receive and `spawn_serialization`, a finished serialization then `drain_and_upload`; a serialization error stops the worker; `upload_with_retry` (retries every error forever, sets `latest_watermark`, rate-limited watermark write); `update_watermark_with_retry` (panics on `ConcurrentWriter`); the final drain and flush |
| `ReadApi::get_checkpoints` (rtd-indexer) | none | one page: ask the store for `limit + 1`, `has_next_page = len > limit`, truncate, `next_cursor` = last item kept |
| `DataReader::get_owned_objects` (rtd-sdk) | `result`, `cursor`, `has_next` of one call | `while has_next`: fetch a page, extend, `cursor = next_cursor`; `?` returns an error |
| `start_rtd_tx_polling_task` (rtd-bridge-indexer) | `cursor` | loop: query (the retry macro, then `continue`), convert (sleep, `continue`), empty page (sleep), `tx.send` of the page with its `next_cursor` into a channel of 100, then `cursor = next_cursor` |
| `AnalyticsStore` / `AnalyticsConnection` (mod.rs) | `pending_by_pipeline`, `uploader_senders`, `worker_handles` | `commit_batch` (split, lazily `get_or_create_uploader`, `send` each file, which blocks when the channel is full, then `set_pending_batch`), `shutdown` (clear senders, await handles), `init_watermark` |

How the parts interact. For each pipeline, the ingestion framework calls
`commit_batch` with the next checkpoints. The active mode splits them
against the pending batch. Complete batches travel over a bounded mpsc
channel to the pipeline's `UploadWorker`. The worker serializes them in
parallel and uploads them strictly in channel order. After each upload it
records the watermark, which in migration mode it persists at a limited
rate. On restart, the framework resumes after `init_watermark`:

- **Live mode** derives the resume point from file names.
- **Migration mode** reads it from the watermark file.

Migration mode relies on the object store's conditional PUT (compare and
swap on an etag) to keep two processes with the same `migration_id` from
clobbering each other.

What is hard, and what a test rarely reaches:

- Serialization finishing out of order.
- A crash between a file's upload and the next one.
- Rate-limited watermarks.
- A PUT applied although the client sees an error.
- Two processes racing on one migration.
- Shutdown racing the task that registers the worker.
- Cuts in the middle of a commit.
- Gaps in the existing file layout.

`PROJECT.json` lists each hazard at the line where it bites.

What makes each part correct:

- **Splitting.** No checkpoint is lost, duplicated or reordered. A file
  never spans epochs. Size thresholds and existing boundaries are met
  exactly.
- **Upload.** The store always holds a gap-free prefix, whose derived
  watermark is its end. Queued files are eventually uploaded. Shutdown
  waits for the worker and terminates.
- **Migration protocol.** The watermark never goes back and never claims
  an unrewritten file. A `ConcurrentWriter` panic means there really is
  another writer. A single process eventually completes. A data-file or
  watermark conflict is fatal, as the spec requires. A fresh watermark
  carries the epoch of the checkpoint before the start.
- **Paged reads.** A reader that follows `next_cursor` while pages say
  there is more gets, while the data changes under it, every item that
  stayed for the whole read, each once and in order, and the loop ends.
  The bridge poller hands each bridge transaction after its stored
  cursor to the processing loop exactly once, in order, and in the end.
- **Address parsing.** All three parsers accept exactly `0x` and 1..64 hex
  digits, decode short input as the left-padded number, print 66
  characters that parse back, point a `BadHex` error at the bad
  character, and never panic on any input string.

## 2. Modules

The modules are listed with the most important behaviour first.

1. **`Batching.tla`** covers `Batch` plus both split algorithms and the `FileRangeIndex` lookups.
   - The chain (`epochOf`, `rowsOf`) and, in migration mode, the existing
     file layout (`index`) are fixed in `Init`. They range over every
     epoch-respecting assignment and every layout live mode could have
     written.
   - `Split` is a `FoldLeft` of `LiveStep` or `MigrationStep` over the
     delivered checkpoints, followed by `MigrationFinalFlush`. This mirrors
     the `for` loop and the flush after it.
   - `CommitBatch` is `commit_batch` seen from the batching side: it hands
     over any 1..`MaxCommit` next checkpoints.
   - The start of the run is any requested checkpoint passed through
     `SnapToBoundary` (`find_starting_checkpoint`).
   - `LookupEpochForCheckpoint` is the linear search of
     `lookup_epoch_for_checkpoint` (a `RECURSIVE` operator) over
     `EpochsJson(epochOf)`, the `epochs.json` the chain defines. It gives
     the epoch `init_watermark` writes into a fresh migration watermark.
2. **`UploadPipeline.tla`** is one live-mode pipeline end to end.
   - It composes `Batching` through `INSTANCE Batching WITH Mode <- BatchPolicy, ...`
     and reuses its `Split`.
   - Actions:
     - `CommitBatch`, `SendFile`, `SetPendingBatch` (the steps of
       `commit_batch`, with the bounded channel);
       `CommitBatch` is disabled once shutdown has started. The code
       would instead spawn a fresh worker if a commit arrived after
       `shutdown()` cleared the sender map. `indexer.rs` calls
       `store.shutdown()` as a shutdown signal of the service, and the
       model assumes no commit follows it;
     - `RegisterHandle` (the spawned push of the `JoinHandle`);
     - `WorkerReceive`, `SerializeDone`, `SerializeFails`, `UploadSucceeds`,
       `WorkerExit` (the `select!` loop, `drain_and_upload`,
       `upload_with_retry`);
     - `StartShutdown`, `ShutdownComplete` (`AnalyticsStore::shutdown`);
     - `Restart` (the process dies, all memory is lost, and the framework
       resumes after `LiveWatermark(store)`).
   - The object store maps a path `[epoch, lo, hi]` to the number of times
     it was written.
3. **`MigrationStore.tla`** covers the conditional-write protocol of migration mode for one pipeline and a set of `Writers`, the processes with the same `migration_id`.
   - The existing files are `0..NumFiles-1`, each rewritten as one batch.
     `Batching` checks separately that batches follow the index.
   - Every object has a version (its etag). `dataVer` and `wmObj` are the
     store; `idx`, `cached`, `pos`, `latest` and `limited` are each
     process's memory.
   - Actions:
     - `LoadIndex` (`load_from_store` in `find_starting_checkpoint`);
     - `InitWatermark` and `CreateWatermark` (`init_watermark`);
     - `UploadFile` (`upload_with_retry`, `write_to_object_store`,
       `put_conditional`, the rate-limit decision);
     - `WriteWatermark` (`update_watermark`), whose result `WatermarkRetry` hands to `update_watermark_with_retry`: return, panic on `ConcurrentWriter`, or retry;
     - `FinishRun` (the channel closes and the final flush follows);
     - `Crash`.
   - `Ambiguous` lets any PUT be applied by the store while the client sees
     an error (a timeout after the write committed).
   - A PUT that fails without being applied changes nothing and is retried.
     It is therefore stuttering, and a retry that can never succeed shows up
     as a worker with no enabled step.

4. **`AddressParse.tla`** covers `FromStr`, `Display` and `ScalarType::parse` of both `RtdAddress` scalars, and the consistent store's `owner`.
   - A string is its sequence of UTF-8 bytes, the unit `str::len`, the
     length check and slicing use. The alphabet is the hex digits `0`
     and `f`, the non-hex `g`, and one two-byte character (bytes `e1`,
     `e2`), which is enough to tell every branch apart.
   - `RpcFromStr`: strip `0x`, the length check, `Pad` (the `format!`
     padding, which counts characters), and `DecodeToSlice`
     (`hex::decode_to_slice`: its length errors are the code's
     `unreachable!()` arms, so a panic; then the first non-hex byte,
     reported at its padded index + 2).
   - `AltFromStr`: the same checks, then `FillFrom`, a `RECURSIVE`
     rendering of the back-to-front `while j > 2` loop and the `j == 2`
     branch, with `HexAt` for the `hex(i)` closure: a panic when
     `s[i..=i]` is not on character boundaries, else a digit or
     `BadHex(i + 2)`.
   - `OwnerFromStr`: the same checks, then `0x` and the body padded to 64
     characters (unless it already has 64 bytes), handed to
     `SuiAddress::from_str`, which lives outside this repository and is
     modelled by what it does: exactly `0x` and 64 hex digits decode, any
     other string is `InvalidOwner`.
   - The state is the last request's input and the three results; `Request`
     is one GraphQL request with any input. Properties compare the
     results with a reference: `NumberOf`, the number the digits spell.

5. **`DurablePrefix.tla`** is the abstract promise of a pipeline to its framework.
   - Delivered checkpoints (`frontier`) become durable as a growing prefix
     `0..durable-1`, never past what was delivered.
   - A restart resumes delivery exactly at `durable`.
   - `UploadPipeline` instantiates it as `Abstract` with
     `frontier <- next` and `durable <- PrefixEnd(store)`: the end of the
     longest run of checkpoints from 0 covered by uploaded files.
   - `ImplementsDurablePrefix == Abstract!Spec` is checked in `upload_live`.

6. **`CursorPage.tla`** is one page of a cursor-paginated read.
   - `InnerQuery(items, cursor, n)` is the store behind the handler
     (`IndexerReader::get_checkpoints`, and the `getOwnedObjects` and
     `queryTransactionBlocks` servers), none of which is in this
     repository: the items after the cursor in ascending order, at most
     `n`. An item is its sort key.
   - `Page` is `ReadApi::get_checkpoints`: `InnerQuery` with `limit + 1`,
     `HasNextPage`, the truncation, `NextCursor`. The other two servers
     are assumed to page the same way.
7. **`OwnedObjectsReader.tla`** is the SDK's `get_owned_objects` loop.
   - `owned` is the chain: `Transfer(i)` moves object `i` to or away from
     the owner, up to `MaxChanges` times, at any point of a call.
   - `GetOwnedObjects` starts a call (`has_next = true`, no cursor),
     `FetchPage` is one iteration of the `while`, `FetchFails` an RPC or
     conversion error returned by `?`.
   - `kept` and `seen` are history: the objects owned since the call
     began, and those owned at some point of it.
8. **`BridgeTxPolling.tla`** is `start_rtd_tx_polling_task` and its
   channel.
   - Bridge transactions `1..produced` exist; `NewBridgeTx` adds one.
     `Init` takes the start cursor from the progress store, `None` or a
     transaction already on chain (`main.rs`). That caller,
     `start_processing_rtd_checkpoints_by_querying_txns`, is
     `#[allow(unused)]` and `main()` never calls it: in this binary the
     task is a public library function without a caller.
   - `QueryFails` (the retry macro gives up) and `ConvertFails` keep the
     cursor; `Poll` is a successful query with a non-empty page (an empty
     page sleeps and changes nothing); `Send` waits for room in the
     channel, sends the page with its `next_cursor`, then moves the
     cursor. `Process` is `handle_rtd_transactions_loop`, not in this
     repository, taking the oldest batch.
   - `Feed == INSTANCE BridgeFeed WITH from <- FirstAfterStart,
     handed <- Forwarded` maps the task onto its promise:
     `ImplementsBridgeFeed == Feed!Spec`.
9. **`BridgeFeed.tla`** is what the polling task promises its processing
   loop, with no pages, cursors, retries or channel. `Hand` hands over the
   next transactions after the last ones handed, as many as exist on
   chain. `Take` passes a longer prefix of what was handed to the loop.
   Both are weakly fair. Under the mapping, `Poll` is a `Hand`,
   `Process` is a `Take`, and failed polls, `Send` and empty pages are
   stuttering steps.

Each of the first four modules has an `MC` module that extends it; the `.cfg` files give the
constants. `MCBatchingModes.tla` instead instantiates `Batching` three
times, once per policy (`Rows(2)`, `Checkpoints(3)`, migration), and picks
the policy in `Init`: a pipeline keeps its mode and `batch_size` for its
whole life; two more instances run `Rows(0)` and `Checkpoints(0)`, which
`PipelineConfig::validate` accepts. `MCBatching.tla` remains for the gap
layouts. `MCMigrationStoreModes.tla` likewise instantiates
`MigrationStore` three times: two writers with an exact store, two
writers with a lossy one, and a single writer under fairness.
`MCOwnedObjectsReader` and `MCBridgeTxPolling` extend their modules.

An abstract specification still worth stating: a single-writer register
with compare-and-swap for the migration watermark. `MigrationStore` would
refine it only while one writer exists.

## 3. Runs

| Run | cfg | Expect | What it shows |
|---|---|---|---|
| batching_modes | `MCBatchingModes.cfg` | pass | One model for all three policies, chosen in `Init`. `Rows(2)`: every epoch layout of 5 checkpoints, 0..2 rows each, commits of 1..2. `Checkpoints(3)`: 7 checkpoints, commits of 1..3. Migration: every contiguous layout of existing files over 6 checkpoints and every snapped start. Order is preserved (`OrderPreserved`), no file spans an epoch (`FilesWellFormed`), live files are cut exactly at the threshold or an epoch boundary (`SizeThresholdRespected`), each migration batch is exactly one existing file and the `assert!` never fires (`FollowsIndex`), and the epoch `lookup_epoch_for_checkpoint` finds for `start - 1` is that checkpoint's epoch (`InitialWatermarkEpoch`). |
| batching_migration_gap | `MCBatching_migration_gap.cfg` | violation | With gaps between files, `FollowsIndex` fails. The trace has files `[0,1)` and `[3,6)`; after a commit of 0..1, the pending batch starts at 1 in the gap and is never cut. |
| upload_live | `MCUploadPipeline_live.cfg` | pass | Covers 4 checkpoints over up to 2 epochs, `Checkpoints(1)`, channel capacity 1, serialization that may fail, one crash and a shutdown. The store is always a gap-free prefix (`StoreIsDurablePrefix`). `latest_watermark` matches it (`LatestIsDurable`). Every queued checkpoint becomes durable (`QueuedEventuallyDurable`), and shutdown completes (`ShutdownTerminates`). The pipeline refines `DurablePrefix` (`ImplementsDurablePrefix`). |
| upload_shutdown | `MCUploadPipeline_shutdown.cfg` | violation | `ShutdownWaitsForWorker` fails. The trace: `CommitBatch` spawns the worker, then `StartShutdown`, then `ShutdownComplete` runs before `RegisterHandle`. |
| migration_modes | `MCMigrationStoreModes.cfg` | pass | Exact store: two writers, 3 files from file 1, two crashes or reruns; `PanicOnlyOnRealConflict`, `WatermarkOnlyCoversRewritten`, `WatermarkMonotonic`. Lossy store (applied-but-failed PUTs), one crash: the watermark stays monotonic and behind the data. Single writer, 3 files from 0, two crashes, under fairness: it eventually rewrites every file and persists the last watermark (`MigrationCompletes`). |
| migration_ambiguous | `MCMigrationStore_ambiguous.cfg` | violation | `PanicOnlyOnRealConflict` fails. A watermark PUT is applied but reported failed, the retry uses the stale etag, and the single writer panics with `ConcurrentWriter`. |
| migration_conflict | `MCMigrationStore_conflict.cfg` | violation | `ConflictIsFatal` fails. A conflict caused by the other writer is retried forever: a data-file PUT that meets Precondition, or (in the trace TLC prints) a watermark `Create` that meets `AlreadyExists` after both processes started without a watermark. |
| address_parse | `MCAddressParse.cfg` | pass | Every input of a prefix (`0x`, `1x`, none) and up to 5 bytes, for 2-byte addresses. All three parsers accept exactly the well-formed inputs and decode them to the number the digits spell (`ParsesToNumber`); `Display` has 2 + 2·length characters and parses back in both (`DisplayRoundTrip`); alt's `BadHex` offset is the bad byte (`AltBadHexPointsAtInput`). |
| address_badhex | `MCAddressParse_badhex.cfg` | violation | `RpcBadHexPointsAtInput` fails: for `0xg` rpc reports position 5 (65 at the real width), past the end of the input. |
| address_panic | `MCAddressParse_panic.cfg` | violation | `ParseNeverPanics` fails for `0x` followed by a two-byte character: both parsers panic. |
| owned_objects_reader | `MCOwnedObjectsReader.cfg` | pass | Four possible objects, pages of two, up to three transfers during calls, calls repeated and failing. A completed call holds every object kept throughout, sorted without repeats, and only objects owned during the call (`ResultIsConsistentRead`); every call returns (`CallReturns`). |
| bridge_tx_polling | `MCBridgeTxPolling.cfg` | pass | Five bridge transactions appearing over time, every start cursor, pages of two, a channel of two batches, two failed polls. What reaches the processing loop is the transactions after the start cursor, each once and in order, and each batch carries its own last transaction as cursor (`PagesInOrderOnce`); every transaction is processed in the end (`EveryTxProcessed`); and the task refines `BridgeFeed` (`ImplementsBridgeFeed`), so no step of it, whatever the failures and the channel do, rewrites or reorders what it has handed over. |

Every property of a passing run has a mutant in `PROJECT.json`: a plausible
bug in the definition it names that TLC shows breaks the property. Examples:

- `>` for `>=` in the row threshold;
- no epoch cut;
- uploading any serialized file rather than the next in sequence;
- caching the etag that was sent instead of the one returned;
- resuming one file too far;
- no final flush;
- `<` for `<=` in the epoch search;
- padding on the right, an error offset of `i + 1`, `{:x}` without zero padding;
- a next cursor taken from the untruncated page, or one past the last item;
- a loop that does not move its cursor, a send that keeps the old cursor.

### Findings

1. **Gaps between existing files stall migration** (`migration.rs:387`). The
   spec declares gaps legal, but the split cuts only when the pending batch
   starts inside a known range. The file after a gap is never rewritten.
2. **Shutdown can return before the worker finishes** (`mod.rs:309`). The
   `JoinHandle` is pushed by a separately spawned task, and `shutdown`
   drains `worker_handles` without waiting for it.
3. **A lost response to a watermark PUT is reported as a concurrent
   writer** (`migration.rs:338`, `uploader.rs:333`). The etag cache is
   updated only on `Ok`, so the retry meets Precondition and the worker
   panics, although there is no second writer.
4. **A data-file conflict is not fatal** (`uploader.rs:287`,
   `migration.rs:485`). The spec says it is. The code retries it forever
   with the same startup etag, so the worker hangs without failing.
5. **A watermark `Create` conflict is retried forever** (`migration.rs:344`).
   With no cached etag `update_watermark` uses `PutMode::Create`; an
   `AlreadyExists` from another process's create falls into the
   `other => Transient` arm. Spec section 7 (lines 112-113) makes a
   concurrent writer on the watermark fatal and lists precondition and
   already-exists failures as not retryable. Section 4.5 says concurrent
   creation in `init_watermark` is surfaced as an error, but also calls
   any other `update_watermark` error Transient, so the watermark half
   rests on section 7; the data-file half is required by both.
6. **rpc's `BadHex` position counts the padding** (`rtd-graphql-rpc
   rtd_address.rs:146`). For input shorter than 64 digits the index is
   into the padded string: `0xg` reports position 65. The message says
   "at position" and `test_parse_invalid_characters` expects the
   position in the input (it only tests a full-length input).
7. **Both address parsers panic on a multibyte character**
   (`rtd-graphql-rpc rtd_address.rs:148`, `rtd-indexer-alt-graphql
   rtd_address.rs:69`). rpc pads to 64 *characters* and then decodes
   *bytes*, so `hex::decode_to_slice` returns `OddLength` or
   `InvalidStringLength`, whose arms are `unreachable!()`. alt slices
   `s[i..=i]` with byte indices, which panics inside a character.
   `test_unicode_gibberish` has no `0x` prefix and never gets that far.

### Bounds

Each bound is the smallest that still lets the interesting case happen:

- **Batching.** 5–7 checkpoints and 3 epochs allow two epoch boundaries
  inside one commit, a threshold reached mid-commit and at a commit's end,
  and files of length 1 and longer.
- **UploadPipeline.** Four checkpoints with `Checkpoints(1)` and capacity 1
  give up to four files in flight. That is enough for serializations to
  finish out of order, for a commit to block on a full channel, and for a
  crash between uploads.
- **AddressParse.** Addresses of 2 bytes (4 digits) and bodies of up to
  5 bytes give empty, short, odd, full and too-long inputs, and a
  two-byte character at every offset. Nothing in either parser depends
  on the width except through `2 * RTD_ADDRESS_LENGTH`.
- **MigrationStore.** Three files give rate-limited and unlimited
  watermark writes, a crash between a file and its watermark, and a
  rerun. Two writers give every race of load, create and update.
- **Paging.** Pages of two over four objects or five transactions give
  a full page with a next page, a last page of one and of exactly
  `limit`, and an empty page; three transfers put an insertion and a
  removal before and after the cursor within one call. A channel of two
  batches fills up. Larger ids or pages repeat the same shapes.

The checks take a few seconds each.

### Fairness

The following are weakly fair, because tokio keeps polling a task that
can proceed and the store is not down forever:

- the worker's steps;
- the commit's sends;
- the handle-pushing task;
- shutdown's completion;
- in `MigrationStore`, each process's steps;
- the SDK loop's `FetchPage`, and the bridge task's `Poll` and `Send`
  and the processing loop: each is a tokio task that is polled again.
  The bridge model bounds failed polls by `MaxFailures`, that is, it
  assumes the fullnode answers in the end; a transaction that never
  converts stalls the task for good, which the code accepts (its TODO).

A retried upload therefore eventually succeeds when it can. Restarting a
crashed process is fair in `MigrationStore`: a supervisor reruns it.
Delivering checkpoints, starting shutdown and crashing are the
environment's choice and are not fair.

`CHECK_DEADLOCK FALSE` is used by every store model and by the bridge
poller because the modelled stream is finite (`AddressParse` and
`OwnedObjectsReader` always have a next request or call and check
deadlock): the process stops once the last checkpoint is delivered and
uploaded, or once it has shut down.

## 4. Not modelled

- **Several pipelines on one store.** They share nothing except
  `shutdown`.
- **File-name formatting and parsing.** A path is a record.
- **The epoch of later migration watermarks.** `MigrationStore` tracks
  checkpoints; the epoch is informational and only the initial one is
  checked (in `Batching`).
- **The `min_epoch` skip of `load_from_store`.**
- **Backoff timing.**
- **CSV and Parquet serialization.** Only success or failure is modelled.
- **Configuration parsing.**
- **Snowflake monitoring.**
- **The other crates of the repository.** Apart from the address
  scalar, they are RPC and GraphQL type conversions (`From`/`TryFrom`
  between native and API types), request handlers that forward to a
  database or a node, CLI tools, tests and examples. They keep no state
  of their own across calls, run no protocol between processes, and
  their logic is field-by-field copying, so a model would restate the
  code without a property to check. The address `from_bytes` and
  `From` conversions are such re-wrappings, and so are the balance
  service's handlers around `owner` (they forward to the database and
  the pagination code, neither of which is in this repository).
- **Descending pages.** `get_checkpoints` passes `descending_order` to
  the store; every caller modelled reads ascending.
- **The bridge's processing loop and progress store** (`postgres_manager`
  and `handle_rtd_transactions_loop`) are not in this repository; the
  model's consumer takes batches in order and nothing more.
- **The bridge indexer's `DataMapper::map`** (`rtd_bridge_indexer.rs`)
  turns the events of one checkpoint transaction into token-transfer and
  governance records. It is a pure conversion; the framework that calls
  it and decides what a failed map means is `rtd-indexer-builder`, not
  in this repository. Its all-or-nothing `?` is listed as a hazard.
- **The bridge server's `BridgeRequestHandler`** (`rtd-bridge`) parses a
  request, reads one action from a client, and signs it. It keeps no state
  between requests. The bridge `events.rs` conversions and
  `rtd_system_state`'s version dispatch are field copies of the same kind.
- **The indexer's `TransactionBuilderApi::get_owned_objects`** reads a
  single page of 50 with no cursor: there is no loop and no state.
