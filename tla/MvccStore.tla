------------------------------ MODULE MvccStore ------------------------------
(***************************************************************************)
(* What the storage engine promises its callers (the public methods of     *)
(* LsmEngine, storage/lsm.rs): a map from keys to values that changes one  *)
(* whole batch at a time, snapshots that keep showing the map as it was    *)
(* when they were taken, and the map a crash would leave behind.  There is *)
(* no memtable, SSTable, WAL or compaction.  A value is the commit_seq     *)
(* that wrote it, Absent if there is no row.  LsmRefinement says for which *)
(* behaviours of the engine the promise is kept.                           *)
(***************************************************************************)
EXTENDS Integers

CONSTANTS
  Key,
  MaxSeq            \* above every commit_seq (bounds the writes)

ASSUME MvccConstants == MaxSeq \in Nat \ {0}

VARIABLES
  clock,            \* current_seq(): the last commit_seq assigned
  latest,           \* what a read of the latest committed state returns
  durable,          \* what it would return after a crash and a reopen
  holders,          \* registered snapshots, a count per commit_seq
  pinned            \* what read_at returns at a registered commit_seq

mvccVars == <<clock, latest, durable, holders, pinned>>

Absent == 0
Seqs == 0 .. MaxSeq
Image == [Key -> Nat]
Empty == [k \in Key |-> Absent]
Edits == UNION {[K -> {"put", "delete"}] : K \in SUBSET Key \ {{}}}

MvccTypeOK ==
  /\ clock \in Seqs
  /\ latest \in Image
  /\ durable \in Image
  /\ holders \in [Seqs -> Nat]
  /\ pinned \in [Seqs -> Image]

MvccInit ==
  /\ clock = 0
  /\ latest = Empty
  /\ durable = Empty
  /\ holders = [q \in Seqs |-> 0]
  /\ pinned = [q \in Seqs |-> Empty]

(* The map with the edits f applied under the next commit_seq.             *)
Written(f) ==
  [k \in Key |-> IF k \notin DOMAIN f THEN latest[k]
                 ELSE IF f[k] = "put" THEN clock + 1 ELSE Absent]

(* write_batch has appended its batch to the WAL: a crash keeps it.        *)
Log(f) ==
  /\ clock + 1 < MaxSeq
  /\ UNCHANGED <<clock, holders>>
  /\ durable' = Written(f)
  /\ UNCHANGED <<latest, pinned>>

(* write_batch returns: every row is visible, under one commit_seq.        *)
Commit(f) ==
  /\ clock + 1 < MaxSeq
  /\ clock' = clock + 1
  /\ latest' = Written(f)
  /\ durable' = Written(f)
  /\ UNCHANGED <<holders, pinned>>

(* write_batch fails: its commit_seq is spent, nothing is visible, and a   *)
(* crash brings up nothing new, all of it, or an earlier failed batch.     *)
Fail(f) ==
  /\ clock + 1 < MaxSeq
  /\ clock' = clock + 1
  /\ durable' \in {durable, latest, Written(f)}
  /\ UNCHANGED <<latest, holders, pinned>>

(* A flush empties the WAL and with it what a failed batch left there.     *)
Settle ==
  /\ UNCHANGED <<clock, holders>>
  /\ durable' = latest
  /\ UNCHANGED <<latest, pinned>>

(* snapshot_now.                                                           *)
Snapshot ==
  /\ holders' = [holders EXCEPT ![clock] = @ + 1]
  /\ pinned' = [pinned EXCEPT ![clock] = latest]
  /\ UNCHANGED <<clock, latest, durable>>

(* release_snapshot; the last holder lets the old versions go.             *)
Release(q) ==
  /\ holders[q] > 0
  /\ holders' = [holders EXCEPT ![q] = @ - 1]
  /\ pinned' = IF holders[q] = 1 THEN [pinned EXCEPT ![q] = Empty] ELSE pinned
  /\ UNCHANGED <<clock, latest, durable>>

(* Mutant: the clock restarts one past what was recovered.                 *)
ReopenPast ==
  /\ holders' = [q \in Seqs |-> 0]
  /\ pinned' = [q \in Seqs |-> Empty]
  /\ latest' = durable
  /\ \E q \in Seqs : (\A k \in Key : durable[k] <= q) /\ clock' = q + 1
  /\ UNCHANGED durable

(* A crash and reopen closes every snapshot and shows the durable map; the *)
(* clock is at or above every number in it.                                *)
Reopen ==
  /\ holders' = [q \in Seqs |-> 0]
  /\ pinned' = [q \in Seqs |-> Empty]
  /\ latest' = durable
  /\ \E q \in Seqs : (\A k \in Key : durable[k] <= q) /\ clock' = q
  /\ UNCHANGED durable

MvccNext ==
  \/ Settle
  \/ \E f \in Edits : Log(f) \/ Commit(f) \/ Fail(f)
  \/ Snapshot
  \/ \E q \in Seqs : Release(q)
  \/ Reopen

MvccSpec == MvccInit /\ [][MvccNext]_mvccVars
=============================================================================
