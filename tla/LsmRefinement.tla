--------------------------- MODULE LsmRefinement -----------------------------
(***************************************************************************)
(* The engine implements MvccStore: the abstract map is what read_at finds *)
(* through memtable, frozen memtable and SSTables, the durable one what it *)
(* would find after LsmEngine::open.  A batch counts as committed when     *)
(* write_batch releases the mutex.                                         *)
(***************************************************************************)
EXTENDS MCLsmEngine

(* Every batch in wal.log is whole: appends succeeded, or failed with all  *)
(* of their batch in the file, or with nothing of it, or have since been   *)
(* overwritten.                                                            *)
WholeBatches == \A i \in DOMAIN (wal \o walTail) : ~ (wal \o walTail)[i].torn

(* The engine without the crashes that leave a batch cut short in the log. *)
LoneNext ==
  \/ \E s \in Session : SessionStep(s)
  \/ SnapshotNow
  \/ \E q \in 0 .. U64Max : ReleaseSnapshot(q)
  \/ LoseLease
  \/ WholeBatches /\ Restart

LoneSpec == Init /\ [][LoneNext]_vars

InFlight == \E s \in Session : pc[s] = "insert"

CommittedSeq == IF InFlight THEN nextSeq - 2 ELSE nextSeq - 1

(* Outside write_batch u64::MAX, the snapshot of an autocommit read.       *)
Horizon == IF InFlight THEN nextSeq - 2 ELSE U64Max

ImageAt(q) == [k \in Key |-> ReadAt(k, q)]

RecoveredImage ==
  [k \in Key |-> Lookup(Replay(wal \o walTail), {}, Loaded, k, U64Max)]

Mvcc == INSTANCE MvccStore WITH
  MaxSeq <- U64Max,
  clock <- CommittedSeq,
  latest <- ImageAt(Horizon),
  durable <- RecoveredImage,
  holders <- openSnapshots,
  pinned <- [q \in 0 .. U64Max |->
               IF openSnapshots[q] > 0 THEN ImageAt(q) ELSE [k \in Key |-> Absent]]

(* Whatever a lone session writes, fails to write, flushes, compacts,      *)
(* reads, loses in a crash and recovers, its callers cannot tell the       *)
(* engine from MvccStore: no batch is lost, torn, or visible to a snapshot *)
(* taken before it.                                                        *)
ImplementsMvcc == Mvcc!MvccSpec
=============================================================================
