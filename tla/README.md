# TLA+ model of the Keystone storage stack

This directory holds the formal model of `tpt-pantheon`: TLA+ modules written
from the source, TLC configurations that check them on small instances, and
TLAPS proofs of what matters most for every instance. It starts with the part
everything else rests on, the storage stack of Keystone
(`crates/keystone/tpt-keystone/src/storage`). `PROJECT.json` lists every run,
theorem, hazard and the source lines behind each definition.

## The system

tpt-pantheon is one Rust workspace (about 118,000 lines) and a vendored Go
service. Its parts, and how far the model has got:

| Part | State and operations | Hard behaviour | Here |
|---|---|---|---|
| LSM engine (`lsm.rs`, `sstable.rs`, `internal_key.rs`, `manifest.rs`) | memtable, frozen memtable, SSTable list, sequence counter, open snapshots, manifest; write_batch, read, scan, begin/finish/commit of flush and compaction, open, refresh | overlapping flushes and compactions, lock-free readers, crash at any point, failed uploads | `LsmEngine` (all but refresh) |
| Write-ahead log (`wal.rs`, `io_backend.rs`) | file, append offset; append, replay, truncate | torn tails, failed appends | in `LsmEngine` |
| Transactions (`database/txn.rs`, `database/mod.rs`, `wire/session.rs`) | handle, snapshot, staged writes; BEGIN, COMMIT, ROLLBACK, autocommit, COPY, cursors | two-step commit, abandoned connections, reference-counted snapshots, statements that bypass the handle | `Transactions` |
| Object-store guard (`guard.rs`) | in-flight counter, condition variable, circuit breaker | wake-ups, half-open races, late outcomes | `Guard` |
| Lease (`lease.rs`), manifest CAS (`manifest.rs`, `objectstore.rs`) | lease record, fencing token, manifest etag | takeover, a late writer, lost answers | effect on one writer only (a lease that lapses, a CAS that fails or loses its answer); planned |
| Reader nodes (`LsmEngine::refresh`) | SSTable list, watermark | compaction between manifest load and fetch | planned |
| Cache (`cache.rs`) | cached objects, sizes | miss racing a delete | planned |
| Catalog, B-tree indexes (`database/catalog.rs`, `storage_engine.rs`, `btree.rs`) | schemas, index entries | backfill racing writes | planned |
| Flux (`flux.rs`) | partitions, offsets, retention | offsets across retention | planned |
| Mirror audit chain, spine audit log | hash chain | append races, verification | planned |
| Synapse | actors, coordination locks | lock expiry | planned |
| Vector, geo, graph, time-series indexes; SQL; wire encoding; MCP | derived data, pure functions, I/O | – | not modelled |
| Harbor, Canvas, operator, SDKs, CLI, AppFront, Telos, Identity, telemetry, sandbox | separate programs | – | not modelled (see `PROJECT.json`) |

How they interact: a session turns SQL into transaction operations; a
transaction reads the engine at its snapshot and hands it one batch at COMMIT;
the engine appends the batch to the WAL, inserts it into the memtable and, when
that is full, uploads an SSTable and swaps the manifest through the object
store, which is reached through the cache and the guard; the lease says whether
the node may still do so.

## Modules

- `LsmEngine` – one writer node. Its state is `WriteState` (`nextSeq`,
  `sstableId`, `openSnapshots`), `EngineView` (`memtable`, `immutable`,
  `sstables`), the WAL file (`wal` below the append offset, `walTail` above it),
  the store (`objects`, `manifest`), whether the manifest's etag in memory is
  still the store's (`etagStale`), and per session what it is in the middle of.
  The write mutex makes each critical section one step, except where a reader
  without the lock or a crash can see the middle: a batch is appended
  (`WriteBatch`), inserted row by row (`InsertRow`) and ended (`EndWrite`);
  `commit_flush` is split between the published view and the WAL truncation.
  The manifest CAS succeeds, fails, or takes effect with an error for an answer
  (`FlushUnanswered`, `CompactUnanswered`), after which every CAS of the process
  conflicts. `Restart` is a crash at any step followed by `LsmEngine::open`. The
  constant `Faults` says which I/O may fail.
- `MvccStore` – what the engine promises: a map changed by whole batches,
  snapshots that stay, and the map a crash would leave.
- `LsmRefinement` – the mapping from `LsmEngine` to `MvccStore`: the abstract
  map is what `read_at` returns, the durable one what it would return after
  `open`. A batch counts as committed when `write_batch` releases the mutex.
  `LoneSpec` is the engine without the crashes that leave a batch cut short in
  the log.
- `Transactions` – clients over `MvccStore`. COMMIT is two steps
  (`TakeStaged`, `WriteStaged`) because the snapshot is released and the staged
  writes are taken before the batch is written. `DropHandle` is the `Drop` of
  `TransactionState`. COPY FROM (`CopyLine`), COPY TO and DECLARE CURSOR
  (`DirectRead`) do not use the handle. The module rests on the engine being
  `MvccStore`, which `lsm_refinement` shows of one writing session;
  `lsm_frozen_table` and `lsm_overlapping_flushes` show that two sessions
  whose flushes overlap break it. `Writing` is therefore the set of clients whose
  writes reach the engine, one in the runs; the others read, stage and abandon.
- `Guard` – callers of `GuardedObjectStore::run`, one step per critical section
  of its two mutexes. The metrics it publishes are left out.
- `MCLsmEngine` – symmetry for TLC. `MCServing` – `Transactions` and `Guard` in
  one run: they share no state, so a behaviour follows one of them (`focus`).
- `LsmTypeProofs`, `LsmStoreProofs`, `LsmSeqProofs` – proofs about `LsmEngine`;
  `GuardProofs` – proofs about `Guard`.

Definitions marked "Mutant" are variants of the definition that follows them,
with a plausible bug. Each shows that the property it is paired with in
`PROJECT.json` notices that bug; no specification uses them.

### Abstractions

- The value of a row is the `commit_seq` of its batch: reads returning
  different rows return different values. `Absent` is no row.
- `immutable = {}` stands for `None` as well as for an empty frozen memtable:
  reads cannot tell them apart.
- A memtable is full at `MemtableMax` rows (bytes in the code).
- SSTable and WAL bytes are sets and sequences of versions; a batch in the WAL
  is whole or cut short, in a record or already in its header (`Junk`, which has
  no sequence number to recover). `parse_record` does not know where a batch
  ends, so the bytes appended behind a cut could complete a record by chance;
  the model drops the batch from the cut on, and only `lsm_torn_tail` has
  anything behind a cut. Its violation needs no such completion.
- The shipped copy of a WAL segment is left out: no code reads it back. WAL
  segment ids and the manifest's fencing token are not state here, and of the
  etag only whether it is stale: with one writer the CAS conflicts only with a
  write of its own whose answer was lost.
- Deletes of consumed SSTables are best effort: under the `upload` fault any of
  them may be left, which is also what a crash before them leaves.
- `BreakerState.failures` saturates at the threshold: it is only compared with
  it and reset. Time is the number of ticks since `opened_at`.
- `TruncateFails` leaves the log as it was. A truncation that fails after its
  `set_len(0)` is not modelled: `StdWalIo` then keeps its old offset, and the
  next append would land behind a hole of zeros (listed as a hazard).
- A COPY that fails on one line ignores the rest: here the client simply sends
  no more lines. COPY outside a transaction is an autocommit write.
- A panic inside a backend call is not modelled. Nor is index maintenance after
  a commit.

## Runs that hold

| Run | Bounds | Shows |
|---|---|---|
| `lsm_refinement` | 2 keys, 1 session, 3 batches, 1 crash, 1 snapshot, compaction at 2 tables; appends and truncations fail; whole batches in the log at a crash | the engine implements `MvccStore` (`ImplementsMvcc`): a failed batch is invisible while the process is up, and a later append overwrites what it left; what was acknowledged survives (`Durable`); `SnapshotReads`; `CommitSeqFresh` with a snapshot open |
| `lsm_concurrent` | 1 key, 2 sessions, 3 batches, 1 crash, no snapshots; everything but appends fails | `ListedObjectsExist` and `CommitSeqFresh`, and the inductive invariants `StoreInv`, `SeqInv` |
| `serving` | 3 clients, 1 of them writing, 1 key, 2 commits; 3 callers, 2 slots, threshold 2 | `RepeatableReads`, `HoldersExact`; `SlotsExact`, `NoLostWakeup`, `ProbeAtThreshold`, and `WaitersServed` (liveness) |

Why the bounds are enough to be interesting: with two keys a batch has two rows
and can be torn; three batches fill two memtables, which reaches the compaction
threshold and leaves one batch in the memtable or in the WAL; one crash meets
every intermediate state, and recovery after it is followed by further writes.
With three clients two share a snapshot or hold different ones while the third
commits. With three callers on two slots a slot changes hands while another is in use and someone waits.

Fairness is assumed only in `Guard`: threads inside `run` are scheduled, a
backend call returns, and time passes. That a backend call returns is an
assumption about the environment: the code under `storage/` sets no timeout for
these calls and relies on the file system and on the defaults of the S3 client. Arrivals of
new calls are fair only in `BusySpec`, where that is the point. Waiters are
promised service once arrivals stop, because a condition variable promises no
order among waiters and newcomers.

## Runs that show a disagreement

Each states what a comment, test or document says, and TLC finds the behaviour
of the code that violates it. The quotations are in `PROJECT.json`.

- `lsm_overlapping_flushes` (`Durable`) – `commit_flush` truncates the whole
  WAL, including batches that are in no SSTable yet. Session A's write fills
  the memtable; while A uploads, B writes; A commits and truncates; a crash
  loses B's acknowledged batch.
- `lsm_frozen_table` (`LatestReads`) – there is one `immutable` slot. A second
  flush overwrites it, or the first to commit clears it, and rows disappear
  from reads until their table is committed.
- `lsm_oldest_first` (`TablesOldestFirst`) – SSTables are listed in the order
  their flushes commit. A flush that overtakes an earlier one is listed below
  it, although `manifest.rs` says "oldest first" and lookups trust the order.
- `lsm_torn_tail` (`CommitSeqFresh`) – after a crash in the middle of an append
  the engine appends behind the torn bytes, where replay never gets to; the
  next restart loses those batches and reuses their numbers.
- `lsm_torn_batch` (`NoTornBatch`) – autocommit reads use snapshot `u64::MAX`
  and see half a batch.
- `lsm_unregistered_read` (`UnregisteredReads`) – `read` and `scan` take a
  sequence number without registering it; a compaction before the lookup drops
  the version they need.
- `guard_one_probe` (`OneProbe`) – a half-open breaker admits everybody.
- `guard_recovers` (`Recovers`) – each shed request restarts the open period,
  so steady traffic keeps the breaker open although the backend is back.
- `txn_isolated_reads` (`IsolatedReads`) – DECLARE CURSOR and COPY TO inside a
  transaction read the latest state: not its own staged writes, and whatever
  was committed since BEGIN. `RepeatableReads` is the part of the promise that
  holds, for the statements that read through the handle.

The same lines have further consequences without a run of their own. A failed
upload leaves the frozen rows in the WAL only, and the next flush truncates it
(`Durable` with one session and the `upload` fault). A compaction that commits
after a flush also leaves the list out of age order. Because a shed request
counts as a failure, one that reports after a success closed the breaker can trip it again. The guard takes a slot
before it asks the breaker, so while slow calls hold every slot a request that
would be shed waits instead of failing fast.

This is why `lsm_refinement` has one session, no upload or CAS faults and no
crash with a torn batch in the log: with them the refinement is false, and the
runs and the paragraph above say how. In the same way `CommitSeqFresh` is proved
for appends that do not fail.

## Proofs

The theorems hold for every value of the constants that `EngineConstants` and
`GuardConstants` allow: any keys, sessions, bounds, number of crashes and
faults for the engine, and any finite set of callers, number of slots, failure
threshold and open period for the guard.

- `LsmTypeProofs!TypeCorrect`: `Spec => []TypeOK`.
- `LsmStoreProofs!StoreConsistent` and `ManifestLoadable`: every SSTable the
  manifest lists is in the store, at every step. `ListedObjectsExist` is not
  inductive: that a commit lists an object that exists needs the upload to
  still be there, which needs that no compaction deletes it and no other job
  overwrites it. `StoreInv` adds that the manifest lists the tables of the view
  unless the answer to a CAS was lost, that those tables are in the store
  (`ViewMatchesStore`), that an SSTable id belongs to one job and is in neither
  list yet (`IdsExclusive`), and that uploads are kept until they are
  committed (`UploadsKept`). `lsm_concurrent` checks it first.
- `LsmSeqProofs!SequenceNumbersFresh`, assuming appends do not fail: no
  `commit_seq` is assigned twice, across crashes. `SeqInv` adds that every
  number in use is at or below the manifest's `max_commit_seq` or the sequence
  number of a batch in the WAL, and that the WAL has no torn batch, so what
  `open` recovers is an upper bound.

- `GuardProofs!SlotsAreExact`, `NoWakeupIsLost`, `ProbesAreAtThreshold`. Types
  and `SlotsExact` are inductive together: `release` counts down without
  looking, and only a caller that holds a slot gets there. The other two are
  inductive given the types. For `NoLostWakeup` the argument is a sum that no
  step lowers while anyone waits: a slot given back is a wake-up due, the
  wake-up due becomes a woken caller, the woken caller takes a slot or finds
  them all taken. The lemmas `MoveIn`, `MoveOut` and `MoveWithin` say how one
  caller's move changes a count.

Only model-checked: what reads return (`SnapshotReads`,
`Durable`), the refinement, and `Transactions`. Liveness
(`WaitersServed`) is beyond TLAPS.

## Plan

1. Done: the engine, its abstract specification and refinement, transactions,
   the guard, the first proofs.
2. `Cluster`: lease acquisition, renewal and takeover, two writers on one
   manifest (fencing, a CAS that succeeds late, SSTable id collisions), and
   reader nodes with `refresh`.
3. `Cache`: cache-aside reads against deletes and overwrites, and eviction.
4. Catalog and B-tree indexes: backfill against concurrent writes, deletes.
5. Flux partitions: offsets, retention, recovery.
6. The audit chains (Mirror, spine) and Synapse coordination.
7. Proofs: `HoldersExact` and `RepeatableReads` from it; `Durable` for a
   single session; the step simulation behind `ImplementsMvcc`; fencing in `Cluster`.
