------------------------------ MODULE LsmEngine ------------------------------
(***************************************************************************)
(* The storage engine of Keystone (storage/lsm.rs with its write-ahead log,*)
(* storage/wal.rs, and its SSTables) on one writer node: concurrent client *)
(* sessions write batches, drive the flushes and compactions their writes  *)
(* trigger, and read at registered or unregistered snapshots; the process  *)
(* may crash and reopen at any step, and the I/O named in Faults may fail. *)
(*                                                                         *)
(* A version is one row of one batch.  Its value is abstracted to the      *)
(* batch's commit sequence number, which no other batch shares, so reads   *)
(* that return different rows return different values here.                *)
(***************************************************************************)
EXTENDS Integers, Sequences, FiniteSets

CONSTANTS
  Key,                  \* composite table\0key byte strings
  Session,              \* threads calling into the engine
  Writer,               \* those of them that write, the others only read
  U64Max,               \* u64::MAX: above every commit_seq (bounds the writes)
  MemtableMax,          \* rows at which MemTable::is_full holds
  CompactionThreshold,  \* compaction_sstable_threshold()
  MaxRestarts,          \* bound on crashes
  MaxSnapshots,         \* bound on the sequence numbers held open at once
  MaxHolders,           \* bound on the holders of one of them
  ManualFlushes,        \* whether Database::flush is called
  Faults                \* which I/O may fail, see FaultKinds

(* "append": a WAL append fails or is cut short by a crash;                *)
(* "upload": the put of an SSTable fails; "cas": shipping the WAL segment  *)
(* or the manifest CAS fails, or the CAS takes effect and its answer is an *)
(* error all the same; "truncate": truncating the WAL fails;               *)
(* "lease": a lease renewal fails, so LeaseHandle::is_valid turns false.   *)
FaultKinds == {"append", "upload", "cas", "truncate", "lease"}

ASSUME EngineConstants ==
  /\ Writer \subseteq Session
  /\ U64Max \in Nat \ {0}
  /\ MemtableMax \in Nat \ {0}
  /\ CompactionThreshold \in Nat
  /\ MaxRestarts \in Nat
  /\ MaxSnapshots \in Nat /\ MaxHolders \in Nat
  /\ ManualFlushes \in BOOLEAN
  /\ Faults \subseteq FaultKinds

VARIABLES
  memtable,         \* EngineView.memtable
  immutable,        \* EngineView.immutable; {} stands for None
  sstables,         \* EngineView.sstables; pos is the place in the list
  nextSeq,          \* WriteState.next_commit_seq
  sstableId,        \* WriteState.sstable_id
  openSnapshots,    \* WriteState.open_snapshots, a count per commit_seq
  wal,              \* batches in wal.log below the tracked append offset
  walTail,          \* bytes a failed append left above that offset
  objects,          \* SSTable objects in the store: a set of [id, data]
  manifest,         \* manifest.bin: live SSTable ids and max_commit_seq
  etagStale,        \* WriteState.manifest_etag is not that of manifest.bin
  leaseValid,       \* LeaseHandle::is_valid
  pc, batch, flush, compaction,   \* what each session is in the middle of
  readSeq,          \* the current_seq() an unregistered read captured
  history,          \* every version ever made visible (ghost)
  restarts          \* crashes so far (bound)

view == <<memtable, immutable, sstables>>
jobs == <<pc, batch, flush, compaction, readSeq>>
vars == <<view, nextSeq, sstableId, openSnapshots, wal, walTail, objects,
          manifest, etagStale, leaseValid, jobs, history, restarts>>

Tag == {"put", "delete"}
Version == [key : Key, seq : Nat, tag : Tag]
Table == [id : Nat, data : SUBSET Version]
Batch == [seq : Nat, rows : SUBSET Version, torn : BOOLEAN]
PC == {"idle", "insert", "flush", "uploaded", "truncate", "compact",
       "merged", "reading"}

TypeOK ==
  /\ memtable \in SUBSET Version
  /\ immutable \in SUBSET Version
  /\ sstables \in SUBSET [id : Nat, data : SUBSET Version, pos : Nat]
  /\ nextSeq \in Nat \ {0}
  /\ sstableId \in Nat
  /\ openSnapshots \in [0 .. U64Max -> Nat]
  /\ wal \in Seq(Batch)
  /\ walTail \in Seq(Batch)
  /\ objects \in SUBSET Table
  /\ manifest \in [ids : SUBSET Nat, maxSeq : Nat]
  /\ etagStale \in BOOLEAN
  /\ leaseValid \in BOOLEAN
  /\ pc \in [Session -> PC]
  /\ batch \in [Session -> SUBSET Version]
  /\ flush \in [Session -> Table]
  /\ compaction \in
       [Session -> [id : Nat, inputs : SUBSET Table, watermark : Nat]]
  /\ readSeq \in [Session -> Nat]
  /\ history \in SUBSET Version
  /\ restarts \in Nat
-----------------------------------------------------------------------------
(* Reading versions.                                                       *)

Absent == 0   \* no row; a commit_seq starts at 1

Visible(V, k, s) == {v \in V : v.key = k /\ v.seq <= s}

(* MemTable::get_at, SSTable::read_at, first_visible_per_key: the newest   *)
(* version the snapshot sees, a tombstone being an absent row.             *)
Newest(S) == CHOOSE v \in S : \A w \in S : w.seq <= v.seq

Resolve(S) ==
  IF S = {} \/ Newest(S).tag = "delete" THEN Absent ELSE Newest(S).seq

(* What the key holds at sequence s if every version in V is considered.   *)
ValueAt(V, k, s) == Resolve(Visible(V, k, s))

(* The newest SSTable of the list T with a version of k visible at s.      *)
TopTable(T, k, s) ==
  CHOOSE t \in T :
    /\ Visible(t.data, k, s) # {}
    /\ \A u \in T : Visible(u.data, k, s) # {} => u.pos <= t.pos

(* LsmEngine::read_at and scan_at on a view: memtable, then immutable,     *)
(* then the tables from the last of the list to the first; the first       *)
(* source with any visible version of the key answers.                     *)
Lookup(mem, imm, T, k, s) ==
  IF Visible(mem, k, s) # {} THEN ValueAt(mem, k, s)
  ELSE IF Visible(imm, k, s) # {} THEN ValueAt(imm, k, s)
  ELSE IF \E t \in T : Visible(t.data, k, s) # {}
  THEN ValueAt(TopTable(T, k, s).data, k, s)
  ELSE Absent

ReadAt(k, s) == Lookup(memtable, immutable, sstables, k, s)

CurrentSeq == nextSeq - 1
-----------------------------------------------------------------------------
(* The write-ahead log file.                                               *)

(* A stretch of bytes Wal::replay cannot read past.                        *)
Junk == [seq |-> 0, rows |-> {}, torn |-> TRUE]

(* Wal::replay stops at the first batch that is cut short and applies the  *)
(* batches before it; the header it stops at still counts for the maximum. *)
(* parse_record knows no boundary between batches and may take the bytes   *)
(* that follow a cut for the rest of a record; here such a batch is lost   *)
(* from the cut on, as it is whenever the lengths do not fit.              *)
Replayed(log) == {i \in DOMAIN log : \A j \in 1 .. i : ~ log[j].torn}
Replay(log) == UNION {log[i].rows : i \in Replayed(log)}
ReplaySeqs(log) ==
  {log[i].seq : i \in {j \in DOMAIN log : \A h \in 1 .. (j-1) : ~ log[h].torn}}

(* SSTable objects a reopened engine loads: an object the manifest lists   *)
(* and the store lacks is skipped with a warning; sorted by id.            *)
Loaded ==
  {[id |-> o.id, data |-> o.data, pos |-> o.id] :
     o \in {x \in objects : x.id \in manifest.ids}}

PutObject(o) == objects' = {x \in objects : x.id # o.id} \cup {o}
-----------------------------------------------------------------------------
NoTable == [id |-> 0, data |-> {}]
NoCompaction == [id |-> 0, inputs |-> {}, watermark |-> 0]

Init ==
  /\ memtable = {} /\ immutable = {} /\ sstables = {}
  /\ nextSeq = 1
  /\ sstableId = 1
  /\ openSnapshots = [s \in 0 .. U64Max |-> 0]
  /\ wal = << >> /\ walTail = << >>
  /\ objects = {}
  /\ manifest = [ids |-> {}, maxSeq |-> 0]
  /\ etagStale = FALSE
  /\ leaseValid = TRUE
  /\ pc = [s \in Session |-> "idle"]
  /\ batch = [s \in Session |-> {}]
  /\ flush = [s \in Session |-> NoTable]
  /\ compaction = [s \in Session |-> NoCompaction]
  /\ readSeq = [s \in Session |-> 0]
  /\ history = {}
  /\ restarts = 0

(* The write mutex is held between the steps of write_batch and between    *)
(* the manifest CAS and the end of commit_flush.                           *)
WriteLockFree == \A s \in Session : pc[s] \notin {"insert", "truncate"}

Goto(s, p) == pc' = [pc EXCEPT ![s] = p]
-----------------------------------------------------------------------------
(* Writing.                                                                *)

Rows(f, seq) == {[key |-> k, seq |-> seq, tag |-> f[k]] : k \in DOMAIN f}

(* Mutant: the batch goes to the end of the file, not to the offset.       *)
WriteBatchAtEnd(s, f) ==
  /\ s \in Writer
  /\ pc[s] = "idle" /\ WriteLockFree
  /\ nextSeq < U64Max
  /\ nextSeq' = nextSeq + 1
  /\ wal' = wal \o walTail \o <<[seq |-> nextSeq, rows |-> Rows(f, nextSeq),
                                 torn |-> FALSE]>>
  /\ walTail' = << >>
  /\ batch' = [batch EXCEPT ![s] = Rows(f, nextSeq)]
  /\ Goto(s, "insert")
  /\ UNCHANGED <<view, sstableId, openSnapshots, objects, manifest,
                 etagStale, leaseValid, flush, compaction, readSeq, history,
                 restarts>>

(* write_batch up to the durable WAL append.  A successful append starts   *)
(* at the tracked offset, over whatever a failed one left there; if that   *)
(* was longer, its end stays behind as junk.                               *)
WriteBatch(s, f) ==
  /\ s \in Writer
  /\ pc[s] = "idle" /\ WriteLockFree
  /\ nextSeq < U64Max
  /\ nextSeq' = nextSeq + 1
  /\ wal' = Append(wal, [seq |-> nextSeq, rows |-> Rows(f, nextSeq),
                         torn |-> FALSE])
  /\ walTail' = << >> \/ (walTail # << >> /\ walTail' = <<Junk>>)
  /\ batch' = [batch EXCEPT ![s] = Rows(f, nextSeq)]
  /\ Goto(s, "insert")
  /\ UNCHANGED <<view, sstableId, openSnapshots, objects, manifest,
                 etagStale, leaseValid, flush, compaction, readSeq, history,
                 restarts>>

(* append_batch fails: the sequence number is spent, and the bytes above   *)
(* the tracked offset hold nothing new, a batch cut short inside or after  *)
(* its header, or all of it.                                               *)
(* Followed by Restart this is also a crash in the middle of the append.   *)
WriteBatchFails(s, f) ==
  /\ s \in Writer
  /\ "append" \in Faults
  /\ pc[s] = "idle" /\ WriteLockFree
  /\ nextSeq < U64Max
  /\ nextSeq' = nextSeq + 1
  /\ \/ UNCHANGED walTail
     \/ walTail' = <<Junk>>
     \/ walTail' = <<[seq |-> nextSeq, rows |-> {}, torn |-> TRUE]>>
     \/ walTail' = <<[seq |-> nextSeq, rows |-> Rows(f, nextSeq),
                      torn |-> FALSE]>>
  /\ UNCHANGED <<view, sstableId, openSnapshots, wal, objects, manifest,
                 etagStale, leaseValid, jobs, history, restarts>>

(* One turn of write_batch's loop over the rows: readers hold no lock and  *)
(* see the memtable between any two of them.                               *)
InsertRow(s, v) ==
  /\ pc[s] = "insert"
  /\ v \in batch[s]
  /\ memtable' = memtable \cup {v}
  /\ history' = history \cup {v}
  /\ batch' = [batch EXCEPT ![s] = @ \ {v}]
  /\ UNCHANGED <<immutable, sstables, nextSeq, sstableId, openSnapshots, wal,
                 walTail, objects, manifest, etagStale, leaseValid, pc,
                 flush, compaction, readSeq, restarts>>

IsFull == Cardinality(memtable) >= MemtableMax

(* Mutant: the SSTable id is read but not advanced under the mutex.        *)
BeginFlushSameId(s) ==
  /\ memtable' = {}
  /\ immutable' = memtable
  /\ flush' = [flush EXCEPT ![s] = [id |-> sstableId, data |-> memtable]]
  /\ Goto(s, "flush")
  /\ UNCHANGED <<sstables, sstableId>>

(* begin_flush past its lease check: freeze the memtable, whatever         *)
(* `immutable` held before; nothing is pending if it was empty.            *)
BeginFlush(s) ==
  /\ memtable' = {}
  /\ immutable' = memtable
  /\ IF memtable = {}
     THEN /\ Goto(s, "idle")
          /\ UNCHANGED <<flush, sstableId>>
     ELSE /\ flush' = [flush EXCEPT ![s] = [id |-> sstableId,
                                            data |-> memtable]]
          /\ sstableId' = sstableId + 1
          /\ Goto(s, "flush")
  /\ UNCHANGED sstables

(* The end of write_batch: release the mutex and return, or start a flush. *)
(* Fenced off, a full memtable is an error to the caller and stays active. *)
EndWrite(s) ==
  /\ pc[s] = "insert" /\ batch[s] = {}
  /\ \/ /\ IsFull /\ leaseValid
        /\ BeginFlush(s)
     \/ /\ ~ (IsFull /\ leaseValid)
        /\ Goto(s, "idle")
        /\ UNCHANGED <<view, flush, sstableId>>
  /\ UNCHANGED <<nextSeq, openSnapshots, wal, walTail, objects, manifest,
                 etagStale, leaseValid, batch, compaction, readSeq, history,
                 restarts>>

(* LsmEngine::flush: a flush nobody's write triggered; only tests call it. *)
ManualFlush(s) ==
  /\ s \in Writer
  /\ ManualFlushes
  /\ pc[s] = "idle" /\ WriteLockFree
  /\ leaseValid
  /\ BeginFlush(s)
  /\ UNCHANGED <<nextSeq, openSnapshots, wal, walTail, objects, manifest,
                 etagStale, leaseValid, batch, compaction, readSeq, history,
                 restarts>>
-----------------------------------------------------------------------------
(* Flushing.                                                               *)

(* finish_flush: upload the SSTable, with no lock held.                    *)
FinishFlush(s) ==
  /\ pc[s] = "flush"
  /\ PutObject(flush[s])
  /\ Goto(s, "uploaded")
  /\ UNCHANGED <<view, nextSeq, sstableId, openSnapshots, wal, walTail,
                 manifest, etagStale, leaseValid, batch, flush, compaction,
                 readSeq, history, restarts>>

(* The upload fails, or commit_flush fails without changing the manifest,  *)
(* as it always does with a stale etag: the error returns to the caller    *)
(* and the pending flush is dropped.                                       *)
FlushFails(s) ==
  /\ \/ "upload" \in Faults /\ pc[s] = "flush"
     \/ ("cas" \in Faults \/ etagStale) /\ pc[s] = "uploaded" /\ WriteLockFree
  /\ flush' = [flush EXCEPT ![s] = NoTable]
  /\ Goto(s, "idle")
  /\ UNCHANGED <<view, nextSeq, sstableId, openSnapshots, wal, walTail,
                 objects, manifest, etagStale, leaseValid, batch, compaction,
                 readSeq, history, restarts>>

(* The list with t pushed at its end.                                      *)
Push(T, t) ==
  \E last \in {0} \cup {u.pos : u \in T} :
    /\ \A u \in T : u.pos <= last
    /\ sstables' = T \cup {[id |-> t.id, data |-> t.data, pos |-> last + 1]}

Ids(T) == {t.id : t \in T}

(* Mutants: the new table is left out; max_commit_seq is not advanced.     *)
ManifestWithoutNew(T, id) == [ids |-> Ids(T), maxSeq |-> CurrentSeq]
ManifestOldSeq(T, id) == [ids |-> Ids(T) \cup {id}, maxSeq |-> manifest.maxSeq]

(* The manifest both commits write: the tables kept and the new one.       *)
NewManifest(T, id) == [ids |-> Ids(T) \cup {id}, maxSeq |-> CurrentSeq]

(* commit_flush up to the published view: the manifest lists the current   *)
(* tables and the new one, and the frozen memtable leaves the view.        *)
CommitFlush(s) ==
  /\ pc[s] = "uploaded" /\ WriteLockFree /\ ~ etagStale
  /\ manifest' = NewManifest(sstables, flush[s].id)
  /\ Push(sstables, flush[s])
  /\ immutable' = {}
  /\ flush' = [flush EXCEPT ![s] = NoTable]
  /\ Goto(s, "truncate")
  /\ UNCHANGED <<memtable, nextSeq, sstableId, openSnapshots, wal, walTail,
                 objects, etagStale, leaseValid, batch, compaction, readSeq,
                 history, restarts>>

(* The CAS of commit_flush takes effect but an error comes back (a lost    *)
(* answer, or the conflict a retried request meets): the new manifest is   *)
(* in the store, and nothing in memory follows it.                         *)
FlushUnanswered(s) ==
  /\ "cas" \in Faults
  /\ pc[s] = "uploaded" /\ WriteLockFree /\ ~ etagStale
  /\ manifest' = NewManifest(sstables, flush[s].id)
  /\ etagStale' = TRUE
  /\ flush' = [flush EXCEPT ![s] = NoTable]
  /\ Goto(s, "idle")
  /\ UNCHANGED <<view, nextSeq, sstableId, openSnapshots, wal, walTail,
                 objects, leaseValid, batch, compaction, readSeq, history,
                 restarts>>

OpenSeqs == {q \in 0 .. U64Max : openSnapshots[q] > 0}

(* Mutant: open snapshots are not consulted.                               *)
NoWatermark(w) == w = U64Max

(* The oldest open snapshot, u64::MAX if there is none.                    *)
IsWatermark(w) ==
  /\ w \in OpenSeqs \/ (OpenSeqs = {} /\ w = U64Max)
  /\ \A q \in OpenSeqs : w <= q

(* begin_compact, called from commit_flush once the threshold is reached.  *)
BeginCompact(s) ==
  /\ \E w \in 0 .. U64Max :
       /\ IsWatermark(w)
       /\ compaction' = [compaction EXCEPT ![s] =
            [id |-> sstableId,
             inputs |-> {[id |-> t.id, data |-> t.data] : t \in sstables},
             watermark |-> w]]
  /\ sstableId' = sstableId + 1
  /\ Goto(s, "compact")

WantCompaction ==
  /\ Cardinality(sstables) >= CompactionThreshold
  /\ Cardinality(sstables) >= 2
  /\ leaseValid

(* The end of commit_flush: truncate the whole WAL, then maybe compact.    *)
TruncateWal(s) ==
  /\ pc[s] = "truncate"
  /\ wal' = << >> /\ walTail' = << >>
  /\ \/ WantCompaction /\ BeginCompact(s)
     \/ ~ WantCompaction /\ Goto(s, "idle") /\ UNCHANGED <<compaction, sstableId>>
  /\ UNCHANGED <<view, nextSeq, openSnapshots, objects, manifest, etagStale,
                 leaseValid, batch, flush, readSeq, history, restarts>>

(* Wal::truncate fails: the WAL stays and no compaction starts.            *)
TruncateFails(s) ==
  /\ "truncate" \in Faults
  /\ pc[s] = "truncate"
  /\ Goto(s, "idle")
  /\ UNCHANGED <<view, nextSeq, sstableId, openSnapshots, wal, walTail,
                 objects, manifest, etagStale, leaseValid, batch, flush,
                 compaction, readSeq, history, restarts>>
-----------------------------------------------------------------------------
(* Compaction.                                                             *)

AllVersions(T) == UNION {t.data : t \in T}

(* finish_compact: per key, every version at or above the watermark and    *)
(* the newest one below it, a tombstone among those being dropped when no  *)
(* snapshot was open.                                                      *)
Merge(T, w) ==
  LET all == AllVersions(T)
      floor(v) == /\ v.seq < w
                  /\ \A u \in all : u.key = v.key /\ u.seq < w => u.seq <= v.seq
  IN {v \in all : \/ v.seq >= w
                  \/ floor(v) /\ ~ (w = U64Max /\ v.tag = "delete")}

MergedTable(s) ==
  [id |-> compaction[s].id,
   data |-> Merge(compaction[s].inputs, compaction[s].watermark)]

FinishCompact(s) ==
  /\ pc[s] = "compact"
  /\ PutObject(MergedTable(s))
  /\ Goto(s, "merged")
  /\ UNCHANGED <<view, nextSeq, sstableId, openSnapshots, wal, walTail,
                 manifest, etagStale, leaseValid, batch, flush, compaction,
                 readSeq, history, restarts>>

(* finish_compact or the CAS of commit_compact fails; the tables stay.     *)
CompactFails(s) ==
  /\ \/ "upload" \in Faults /\ pc[s] = "compact"
     \/ ("cas" \in Faults \/ etagStale) /\ pc[s] = "merged" /\ WriteLockFree
  /\ compaction' = [compaction EXCEPT ![s] = NoCompaction]
  /\ Goto(s, "idle")
  /\ UNCHANGED <<view, nextSeq, sstableId, openSnapshots, wal, walTail,
                 objects, manifest, etagStale, leaseValid, batch, flush,
                 readSeq, history, restarts>>

(* Mutant: the consumed tables stay listed.                                *)
AllSurvive(s) == sstables

(* The tables of the current view the compaction did not consume.          *)
Survivors(s) ==
  {t \in sstables : t.id \notin Ids(compaction[s].inputs)}

(* commit_compact: the tables that were not consumed survive, the merged   *)
(* one is pushed last, and the consumed objects are deleted, each delete   *)
(* being best effort.                                                      *)
CommitCompact(s) ==
  LET consumed == Ids(compaction[s].inputs)
  IN /\ pc[s] = "merged" /\ WriteLockFree /\ ~ etagStale
     /\ manifest' = NewManifest(Survivors(s), compaction[s].id)
     /\ Push(Survivors(s), MergedTable(s))
     /\ \E kept \in SUBSET consumed :
          /\ "upload" \in Faults \/ kept = {}
          /\ objects' = {o \in objects : o.id \notin consumed \/ o.id \in kept}
     /\ compaction' = [compaction EXCEPT ![s] = NoCompaction]
     /\ Goto(s, "idle")
     /\ UNCHANGED <<memtable, immutable, nextSeq, sstableId, openSnapshots,
                    wal, walTail, etagStale, leaseValid, batch, flush,
                    readSeq, history, restarts>>

(* The CAS of commit_compact takes effect but an error comes back: nothing *)
(* is deleted.                                                             *)
CompactUnanswered(s) ==
  /\ "cas" \in Faults
  /\ pc[s] = "merged" /\ WriteLockFree /\ ~ etagStale
  /\ manifest' = NewManifest(Survivors(s), compaction[s].id)
  /\ etagStale' = TRUE
  /\ compaction' = [compaction EXCEPT ![s] = NoCompaction]
  /\ Goto(s, "idle")
  /\ UNCHANGED <<view, nextSeq, sstableId, openSnapshots, wal, walTail,
                 objects, leaseValid, batch, flush, readSeq, history,
                 restarts>>
-----------------------------------------------------------------------------
(* Snapshots and unregistered reads.                                       *)

(* snapshot_now, from Database::begin_txn.                                 *)
SnapshotNow ==
  /\ WriteLockFree
  /\ Cardinality(OpenSeqs \cup {CurrentSeq}) <= MaxSnapshots
  /\ openSnapshots[CurrentSeq] < MaxHolders
  /\ openSnapshots' = [openSnapshots EXCEPT ![CurrentSeq] = @ + 1]
  /\ UNCHANGED <<view, nextSeq, sstableId, wal, walTail, objects, manifest,
                 etagStale, leaseValid, jobs, history, restarts>>

(* Mutant: a release of a snapshot nobody registered still counts down.    *)
ReleaseUnchecked(q) ==
  /\ WriteLockFree
  /\ openSnapshots' = [openSnapshots EXCEPT ![q] = @ - 1]
  /\ UNCHANGED <<view, nextSeq, sstableId, wal, walTail, objects, manifest,
                 etagStale, leaseValid, jobs, history, restarts>>

(* release_snapshot, when a transaction finishes or is dropped.            *)
ReleaseSnapshot(q) ==
  /\ WriteLockFree
  /\ q \in OpenSeqs
  /\ openSnapshots' = [openSnapshots EXCEPT ![q] = @ - 1]
  /\ UNCHANGED <<view, nextSeq, sstableId, wal, walTail, objects, manifest,
                 etagStale, leaseValid, jobs, history, restarts>>

(* LsmEngine::read and scan: current_seq() under the mutex, and only then, *)
(* with nothing registered, the read of the view.                          *)
BeginRead(s) ==
  /\ pc[s] = "idle" /\ WriteLockFree
  /\ readSeq' = [readSeq EXCEPT ![s] = CurrentSeq]
  /\ Goto(s, "reading")
  /\ UNCHANGED <<view, nextSeq, sstableId, openSnapshots, wal, walTail,
                 objects, manifest, etagStale, leaseValid, batch, flush,
                 compaction, history, restarts>>

EndRead(s) ==
  /\ pc[s] = "reading"
  /\ readSeq' = [readSeq EXCEPT ![s] = 0]
  /\ Goto(s, "idle")
  /\ UNCHANGED <<view, nextSeq, sstableId, openSnapshots, wal, walTail,
                 objects, manifest, etagStale, leaseValid, batch, flush,
                 compaction, history, restarts>>
-----------------------------------------------------------------------------
(* LeaseHandle::renew fails in the background.                             *)
LoseLease ==
  /\ "lease" \in Faults
  /\ leaseValid
  /\ leaseValid' = FALSE
  /\ UNCHANGED <<view, nextSeq, sstableId, openSnapshots, wal, walTail,
                 objects, manifest, etagStale, jobs, history, restarts>>

(* Mutant: manifest.max_commit_seq is ignored.                             *)
RecoveredFromData(log) ==
  {0} \cup ReplaySeqs(log) \cup {v.seq : v \in AllVersions(Loaded)}

(* Every commit_seq LsmEngine::open finds in use.                          *)
RecoveredSeqs(log) ==
  {manifest.maxSeq} \cup ReplaySeqs(log)
    \cup {v.seq : v \in AllVersions(Loaded)}

(* The process dies and LsmEngine::open runs again on the same directory.  *)
Restart ==
  LET log == wal \o walTail
      seqs == RecoveredSeqs(log)
      ids == {0} \cup manifest.ids
  IN /\ restarts < MaxRestarts
     /\ restarts' = restarts + 1
     /\ memtable' = Replay(log)
     /\ immutable' = {}
     /\ sstables' = Loaded
     /\ \E n \in seqs : (\A m \in seqs : m <= n) /\ nextSeq' = n + 1
     /\ \E n \in ids : (\A m \in ids : m <= n) /\ sstableId' = n + 1
     /\ openSnapshots' = [s \in 0 .. U64Max |-> 0]
     /\ wal' = log /\ walTail' = << >>
     /\ leaseValid' = TRUE
     /\ etagStale' = FALSE
     /\ pc' = [s \in Session |-> "idle"]
     /\ batch' = [s \in Session |-> {}]
     /\ flush' = [s \in Session |-> NoTable]
     /\ compaction' = [s \in Session |-> NoCompaction]
     /\ readSeq' = [s \in Session |-> 0]
     /\ history' = history \cup Replay(log)
     /\ UNCHANGED <<objects, manifest>>
-----------------------------------------------------------------------------
Edits == UNION {[K -> Tag] : K \in SUBSET Key \ {{}}}

SessionStep(s) ==
  \/ \E f \in Edits : WriteBatch(s, f) \/ WriteBatchFails(s, f)
  \/ \E v \in batch[s] : InsertRow(s, v)
  \/ EndWrite(s)
  \/ ManualFlush(s)
  \/ FinishFlush(s)
  \/ FlushFails(s)
  \/ CommitFlush(s)
  \/ FlushUnanswered(s)
  \/ TruncateWal(s)
  \/ TruncateFails(s)
  \/ FinishCompact(s)
  \/ CompactFails(s)
  \/ CommitCompact(s)
  \/ CompactUnanswered(s)
  \/ BeginRead(s)
  \/ EndRead(s)

Next ==
  \/ \E s \in Session : SessionStep(s)
  \/ SnapshotNow
  \/ \E q \in 0 .. U64Max : ReleaseSnapshot(q)
  \/ LoseLease
  \/ Restart

Spec == Init /\ [][Next]_vars
-----------------------------------------------------------------------------
(* Properties.                                                             *)

(* Snapshot isolation (register_snapshot, read_at): whatever was flushed,  *)
(* compacted or written since, a registered snapshot reads exactly the     *)
(* newest version at or below its commit_seq.                              *)
SnapshotReads ==
  \A q \in OpenSeqs, k \in Key : ReadAt(k, q) = ValueAt(history, k, q)

(* Autocommit reads (txn_read at u64::MAX): outside a write_batch, every   *)
(* key reads as the newest version ever committed.                         *)
LatestReads ==
  WriteLockFree =>
    \A k \in Key : ReadAt(k, U64Max) = ValueAt(history, k, U64Max)

(* Crash safety (Wal::truncate's callers): if the process died now, the    *)
(* reopened engine would show every committed batch, and of a batch in the *)
(* middle of write_batch all rows, since its WAL append has returned.      *)
Durable ==
  LET log == wal \o walTail
      promised == history \cup UNION {batch[s] : s \in Session} \cup Replay(log)
  IN \A k \in Key :
       Lookup(Replay(log), {}, Loaded, k, U64Max) = ValueAt(promised, k, U64Max)

(* Manifest.sstable_ids are "oldest first", and read_at trusts the order:  *)
(* where two tables hold a key, the later one has its newest version.      *)
TablesOldestFirst ==
  \A t, u \in sstables : t.pos < u.pos =>
    \A v \in t.data : LET same == {w \in u.data : w.key = v.key}
                     IN same = {} \/ \E w \in same : v.seq <= w.seq

(* What the manifest lists can be loaded (LsmEngine::open skips a missing  *)
(* SSTable with a warning, refresh fails on it): uploads precede the CAS,  *)
(* deletes follow it.                                                      *)
ListedObjectsExist ==
  \A i \in manifest.ids : \E o \in objects : o.id = i

(* The engine holds in memory the very bytes the store has for the id.     *)
ViewMatchesStore ==
  \A t \in sstables : [id |-> t.id, data |-> t.data] \in objects

(* A session between allocating an SSTable id and committing it; the id.   *)
HasId(s) == pc[s] \in {"flush", "uploaded", "compact", "merged"}
IdOf(s) ==
  IF pc[s] \in {"flush", "uploaded"} THEN flush[s].id ELSE compaction[s].id

InUse == Ids(sstables) \cup manifest.ids

(* Ids are handed out under the mutex but used long after it is released:  *)
(* still no pending flush or compaction has the id of a live or listed     *)
(* table, of another one, or of a table some compaction will delete.       *)
IdsExclusive ==
  /\ \A i \in InUse : i < sstableId
  /\ \A s \in Session : HasId(s) =>
       /\ IdOf(s) < sstableId
       /\ IdOf(s) \notin InUse
       /\ \A r \in Session : HasId(r) /\ r # s => IdOf(r) # IdOf(s)
  /\ \A r \in Session : pc[r] \in {"compact", "merged"} =>
       \A t \in compaction[r].inputs :
         /\ t.id < sstableId
         /\ \A s \in Session : HasId(s) => IdOf(s) # t.id

(* What a flush or compaction uploaded is still in the store, byte for     *)
(* byte, when its commit comes to list it.                                 *)
UploadsKept ==
  \A s \in Session :
    /\ pc[s] = "uploaded" => flush[s] \in objects
    /\ pc[s] = "merged" => MergedTable(s) \in objects

(* The inductive invariant behind ListedObjectsExist: the view follows the *)
(* manifest until the answer of a CAS is lost, and even then every listed  *)
(* or live table is in the store and no pending upload can overwrite it.   *)
StoreInv ==
  /\ etagStale \/ manifest.ids = Ids(sstables)
  /\ ListedObjectsExist
  /\ IdsExclusive
  /\ UploadsKept
  /\ ViewMatchesStore

(* WriteState.next_commit_seq: no number of a committed version or an open *)
(* snapshot is issued again, across restarts.                              *)
CommitSeqFresh ==
  /\ \A v \in history : v.seq < nextSeq
  /\ \A q \in OpenSeqs : q < nextSeq

(* The inductive invariant behind CommitSeqFresh when no append fails: a   *)
(* number in use is found again at open, in the manifest or in the WAL.    *)
Covered(q) == q <= manifest.maxSeq \/ \E i \in DOMAIN wal : q <= wal[i].seq

SeqInv ==
  /\ walTail = << >>
  /\ manifest.maxSeq < nextSeq
  /\ \A i \in DOMAIN wal :
       /\ ~ wal[i].torn
       /\ wal[i].seq < nextSeq
       /\ \A v \in wal[i].rows : v.seq = wal[i].seq
  /\ \A v \in history \cup UNION {batch[s] : s \in Session} :
       v.seq < nextSeq /\ Covered(v.seq)
  /\ \A q \in OpenSeqs : q < nextSeq
  /\ \A s \in Session : pc[s] = "truncate" => manifest.maxSeq = CurrentSeq

(* read and scan (read_at at a current_seq() nobody registered): the view  *)
(* the read gets to see still has the rows of the number it captured.      *)
UnregisteredReads ==
  \A s \in Session : pc[s] = "reading" =>
    \A k \in Key : ReadAt(k, readSeq[s]) = ValueAt(history, k, readSeq[s])

(* A reader at u64::MAX sees of every batch all rows or none.              *)
NoTornBatch ==
  \A s \in Session : pc[s] = "insert" =>
    \/ batch[s] = {}
    \/ \A v \in memtable, w \in batch[s] : v.seq # w.seq
=============================================================================
