---------------------------- MODULE Transactions -----------------------------
(***************************************************************************)
(* Client transactions over the store (storage/database/txn.rs, the        *)
(* transaction methods of storage/database/mod.rs, and the BEGIN, COMMIT,  *)
(* ROLLBACK, COPY and DECLARE CURSOR handling of wire/session.rs).  COMMIT *)
(* is two steps: take_staged releases the snapshot, write_batch applies    *)
(* the batch, and other clients run between.                               *)
(*                                                                         *)
(* The storage engine is what MvccStore says it is.  That is so while one  *)
(* client's batches reach it at a time up to the end of the flush and the  *)
(* compaction they start (LsmRefinement) and no longer when two clients'   *)
(* flushes overlap, hence Writing.                                         *)
(***************************************************************************)
EXTENDS MvccStore, FiniteSets, TLC

CONSTANTS
  Client,       \* connections, one session each
  Writing       \* those whose writes reach the engine

ASSUME ClientConstants == Writing \subseteq Client

VARIABLES
  writable,     \* NodeRole::Writer; fixed when the node starts
  phase,        \* the session's Option<TxnHandle>, and how far COMMIT got
  snap,         \* TransactionState.snapshot_seq
  finished,     \* TransactionState.finished
  staged,       \* TransactionState.staged: edits of some of the keys
  start         \* the committed map when the transaction began (ghost)

handles == <<phase, snap, finished, staged, start>>
txnVars == <<mvccVars, writable, handles>>

NoEdits == [k \in {} |-> "put"]

TxnTypeOK ==
  /\ MvccTypeOK
  /\ writable \in BOOLEAN
  /\ phase \in [Client -> {"none", "open", "committing", "done"}]
  /\ snap \in [Client -> Seqs]
  /\ finished \in [Client -> BOOLEAN]
  /\ staged \in [Client -> Edits \cup {NoEdits}]
  /\ start \in [Client -> Image]

TxnInit ==
  /\ MvccInit
  /\ writable \in BOOLEAN
  /\ phase = [c \in Client |-> "none"]
  /\ snap = [c \in Client |-> 0]
  /\ finished = [c \in Client |-> TRUE]
  /\ staged = [c \in Client |-> NoEdits]
  /\ start = [c \in Client |-> Empty]

Turn(c, p) == phase' = [phase EXCEPT ![c] = p]

(* BEGIN with no open transaction: begin_txn.                              *)
Begin(c) ==
  /\ phase[c] = "none"
  /\ Snapshot
  /\ Turn(c, "open")
  /\ snap' = [snap EXCEPT ![c] = clock]
  /\ finished' = [finished EXCEPT ![c] = FALSE]
  /\ staged' = [staged EXCEPT ![c] = NoEdits]
  /\ start' = [start EXCEPT ![c] = latest]
  /\ UNCHANGED writable

(* txn_write and txn_delete inside a transaction.                          *)
Stage(c, k, tag) ==
  /\ phase[c] = "open" /\ ~ finished[c]
  /\ staged' = [staged EXCEPT ![c] = (k :> tag) @@ @]
  /\ UNCHANGED <<mvccVars, writable, phase, snap, finished, start>>

(* Outside one: the write is a batch of its own, which may fail.           *)
AutoCommit(c, k, tag) ==
  /\ phase[c] = "none" /\ writable /\ c \in Writing
  /\ Commit(k :> tag) \/ Fail(k :> tag)
  /\ UNCHANGED <<writable, handles>>

(* A line of COPY FROM, which does not look at the handle: a batch of its  *)
(* own even inside a transaction.                                          *)
CopyLine(c, k) ==
  /\ phase[c] = "open" /\ writable /\ c \in Writing
  /\ Commit(k :> "put") \/ Fail(k :> "put")
  /\ UNCHANGED <<writable, handles>>

(* Mutant: `finished` is not set, so Drop releases the snapshot again.     *)
ForgetFinished(c) ==
  /\ finished' = finished
  /\ IF finished[c] THEN UNCHANGED mvccVars ELSE Release(snap[c])

FinishLocked(c) ==
  /\ finished' = [finished EXCEPT ![c] = TRUE]
  /\ IF finished[c] THEN UNCHANGED mvccVars ELSE Release(snap[c])

(* COMMIT as far as take_staged.  With nothing staged it is done; on a     *)
(* read-only node it fails, and the staged writes are gone.                *)
TakeStaged(c) ==
  /\ phase[c] = "open"
  /\ FinishLocked(c)
  /\ \/ /\ writable /\ staged[c] # NoEdits /\ c \in Writing
        /\ Turn(c, "committing")
        /\ UNCHANGED staged
     \/ /\ ~ writable \/ staged[c] = NoEdits
        /\ Turn(c, "done")
        /\ staged' = [staged EXCEPT ![c] = NoEdits]
  /\ UNCHANGED <<writable, snap, start>>

(* The rest of COMMIT: write_batch applies the batch, or fails.            *)
WriteStaged(c) ==
  /\ phase[c] = "committing"
  /\ Commit(staged[c]) \/ Fail(staged[c])
  /\ staged' = [staged EXCEPT ![c] = NoEdits]
  /\ Turn(c, "done")
  /\ UNCHANGED <<writable, snap, finished, start>>

(* ROLLBACK: discard.                                                      *)
Rollback(c) ==
  /\ phase[c] = "open"
  /\ FinishLocked(c)
  /\ staged' = [staged EXCEPT ![c] = NoEdits]
  /\ Turn(c, "done")
  /\ UNCHANGED <<writable, snap, start>>

(* Mutant: an abandoned transaction keeps its snapshot registered.         *)
DropSilently(c) ==
  /\ phase[c] \in {"open", "done"}
  /\ Turn(c, "none")
  /\ UNCHANGED <<mvccVars, writable, snap, finished, staged, start>>

(* Drop for TransactionState: after COMMIT or ROLLBACK took the handle out *)
(* of the session, or because the connection went away with it open.       *)
DropHandle(c) ==
  /\ phase[c] \in {"open", "done"}
  /\ IF finished[c] THEN UNCHANGED mvccVars ELSE Release(snap[c])
  /\ finished' = [finished EXCEPT ![c] = TRUE]
  /\ staged' = [staged EXCEPT ![c] = NoEdits]
  /\ snap' = [snap EXCEPT ![c] = 0]
  /\ start' = [start EXCEPT ![c] = Empty]
  /\ Turn(c, "none")
  /\ UNCHANGED writable

(* A flush in the background; a crash, which takes every session with it.  *)
Background == Settle /\ UNCHANGED <<writable, handles>>

Crash ==
  /\ Reopen
  /\ phase' = [c \in Client |-> "none"]
  /\ finished' = [c \in Client |-> TRUE]
  /\ staged' = [c \in Client |-> NoEdits]
  /\ snap' = [c \in Client |-> 0]
  /\ start' = [c \in Client |-> Empty]
  /\ UNCHANGED writable

TxnNext ==
  \/ \E c \in Client :
       \/ Begin(c)
       \/ \E k \in Key, tag \in {"put", "delete"} :
            Stage(c, k, tag) \/ AutoCommit(c, k, tag)
       \/ \E k \in Key : CopyLine(c, k)
       \/ TakeStaged(c)
       \/ WriteStaged(c)
       \/ Rollback(c)
       \/ DropHandle(c)
  \/ Background
  \/ Crash

TxnSpec == TxnInit /\ [][TxnNext]_txnVars
-----------------------------------------------------------------------------
Own == -1             \* a value the transaction itself staged

(* txn_read and txn_scan: staged writes first, then the snapshot.          *)
TxnRead(c, k) ==
  IF k \in DOMAIN staged[c]
  THEN IF staged[c][k] = "put" THEN Own ELSE Absent
  ELSE pinned[snap[c]][k]

(* DECLARE CURSOR, which runs its query without the handle, and COPY TO,   *)
(* which scans the table.                                                  *)
DirectRead(k) == latest[k]

(* What txn.rs says a transaction sees.                                    *)
Expected(c, k) ==
  IF k \notin DOMAIN staged[c] THEN start[c][k]
  ELSE IF staged[c][k] = "put" THEN Own ELSE Absent

(* Snapshot isolation for the statements that read through the handle:     *)
(* whatever other clients begin, commit, roll back or abandon, at the same *)
(* or another commit_seq, a transaction keeps reading its own writes over  *)
(* the state at BEGIN.                                                     *)
RepeatableReads ==
  \A c \in Client, k \in Key : phase[c] = "open" => TxnRead(c, k) = Expected(c, k)

(* txn.rs:6 "Every `Database` read consults the staging buffer first", "so *)
(* an open transaction sees exactly what was committed before it began,    *)
(* plus its own uncommitted writes": of every statement it may issue.      *)
IsolatedReads ==
  \A c \in Client, k \in Key : phase[c] = "open" =>
    {TxnRead(c, k), DirectRead(k)} = {Expected(c, k)}

(* The transactions holding the snapshot q open.                           *)
HolderSet(q) == {c \in Client : phase[c] = "open" /\ ~ finished[c] /\ snap[c] = q}

(* finish_locked and Drop: a snapshot is released exactly once per BEGIN,  *)
(* so none is dropped under a reader and none holds back compaction once   *)
(* its transactions are over, even if their clients vanished.              *)
HoldersExact == \A q \in Seqs : holders[q] = Cardinality(HolderSet(q))
=============================================================================
