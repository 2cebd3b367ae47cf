---------------------------- MODULE LsmSeqProofs ----------------------------
(* LsmEngine never issues a commit sequence number twice while no WAL      *)
(* append fails, whatever else does.                                       *)
EXTENDS LsmTypeProofs

(* A step that leaves the WAL, the manifest and the sequence numbers alone *)
(* and adds no version preserves SeqInv.                                   *)
LEMMA SeqQuiet ==
  ASSUME TypeOK, SeqInv,
         UNCHANGED <<nextSeq, wal, walTail>>,
         history' \cup UNION {batch'[s] : s \in Session}
           \subseteq history \cup UNION {batch[s] : s \in Session},
         OpenSeqs' \subseteq OpenSeqs \cup {CurrentSeq},
         \/ /\ UNCHANGED manifest
            /\ \A s \in Session : pc'[s] = "truncate" => pc[s] = "truncate"
         \/ manifest'.maxSeq = CurrentSeq
  PROVE  SeqInv'
<1>1. manifest'.maxSeq < nextSeq' /\ manifest.maxSeq <= manifest'.maxSeq
  BY DEF SeqInv, TypeOK, CurrentSeq
<1>2. ASSUME NEW v \in (history \cup UNION {batch[s] : s \in Session})'
      PROVE  v.seq < nextSeq' /\ Covered(v.seq)'
  <2>1. v.seq < nextSeq /\ Covered(v.seq) /\ v.seq \in Nat
    BY DEF SeqInv, TypeOK, Version
  <2>2. CASE v.seq <= manifest.maxSeq
    BY <1>1, <2>1, <2>2 DEF Covered, TypeOK, SeqInv, CurrentSeq
  <2>3. CASE \E i \in DOMAIN wal : v.seq <= wal[i].seq
    BY <2>1, <2>3 DEF Covered
  <2>4. QED
    BY <2>1, <2>2, <2>3 DEF Covered
<1>3. ASSUME NEW q \in OpenSeqs' PROVE q < nextSeq'
  BY DEF SeqInv, TypeOK, CurrentSeq
<1>4. ASSUME NEW s \in Session, pc'[s] = "truncate"
      PROVE  manifest'.maxSeq = CurrentSeq'
  BY <1>4 DEF SeqInv, CurrentSeq
<1>5. QED
  BY <1>1, <1>2, <1>3, <1>4 DEF SeqInv

(* write_batch: the number it takes is on its way into the WAL.            *)
LEMMA WriteBatchSeq ==
  ASSUME TypeOK, SeqInv, NEW s \in Session, NEW f \in Edits, WriteBatch(s, f)
  PROVE  SeqInv'
<1> DEFINE b == [seq |-> nextSeq, rows |-> Rows(f, nextSeq), torn |-> FALSE]
<1>1. /\ nextSeq' = nextSeq + 1
      /\ wal' = Append(wal, b)
      /\ walTail' = << >>
      /\ batch' = [batch EXCEPT ![s] = Rows(f, nextSeq)]
      /\ pc' = [pc EXCEPT ![s] = "insert"]
      /\ WriteLockFree
      /\ UNCHANGED <<manifest, history, openSnapshots>>
  BY DEF WriteBatch, SeqInv, Goto
<1>2. \A v \in Rows(f, nextSeq) : v.seq = nextSeq
  BY DEF Rows
<1>3. b \in Batch
  BY RowsType DEF Batch, TypeOK
<1>4. /\ DOMAIN wal' = 1 .. Len(wal) + 1
      /\ \A i \in DOMAIN wal : i \in DOMAIN wal' /\ wal'[i] = wal[i]
      /\ wal'[Len(wal) + 1] = b
      /\ DOMAIN wal = 1 .. Len(wal)
      /\ Len(wal) \in Nat
  BY <1>1, <1>3 DEF TypeOK
<1>5. \A i \in DOMAIN wal' : i \in DOMAIN wal \/ i = Len(wal) + 1
  BY <1>4
<1>6. ASSUME NEW i \in DOMAIN wal'
      PROVE  /\ ~ wal'[i].torn
             /\ wal'[i].seq < nextSeq'
             /\ \A v \in wal'[i].rows : v.seq = wal'[i].seq
  <2>1. CASE i \in DOMAIN wal
    <3>1. wal[i] \in Batch /\ wal'[i] = wal[i]
      BY <1>4, <2>1 DEF TypeOK
    <3>2. /\ ~ wal[i].torn /\ wal[i].seq < nextSeq
          /\ \A v \in wal[i].rows : v.seq = wal[i].seq
      BY <2>1 DEF SeqInv
    <3>3. wal[i].seq < nextSeq'
      BY <1>1, <3>1, <3>2 DEF TypeOK, Batch
    <3>4. QED
      BY <3>1, <3>2, <3>3
  <2>2. CASE i = Len(wal) + 1
    BY <1>1, <1>2, <1>4, <2>2 DEF TypeOK
  <2>3. QED
    BY <1>5, <2>1, <2>2
<1>7. ASSUME NEW q \in Nat, Covered(q) PROVE Covered(q)'
  BY <1>1, <1>4, <1>7 DEF Covered
<1>8. ASSUME NEW q, q = nextSeq PROVE Covered(q)'
  <2>1. nextSeq <= wal'[Len(wal) + 1].seq
    <3>1. b.seq = nextSeq /\ nextSeq <= nextSeq
      BY DEF TypeOK
    <3>2. QED
      BY <1>4, <3>1
  <2>2. Len(wal) + 1 \in DOMAIN wal'
    BY <1>4
  <2>3. \E i \in DOMAIN wal' : q <= wal'[i].seq
    BY <1>8, <2>1, <2>2
  <2>4. QED
    BY <2>3 DEF Covered
<1>9. ASSUME NEW v \in (history \cup UNION {batch[r] : r \in Session})'
      PROVE  v.seq < nextSeq' /\ Covered(v.seq)'
  <2>1. CASE v \in history \cup UNION {batch[r] : r \in Session}
    <3>1. v.seq \in Nat /\ v.seq < nextSeq /\ Covered(v.seq)
      BY <2>1 DEF SeqInv, TypeOK, Version
    <3>2. v.seq < nextSeq'
      BY <1>1, <3>1 DEF TypeOK
    <3>3. Covered(v.seq)'
      BY <1>7, <3>1
    <3>4. QED
      BY <3>2, <3>3
  <2>2. CASE v \in Rows(f, nextSeq)
    BY <1>1, <1>2, <1>8, <2>2 DEF TypeOK
  <2>3. QED
    BY <1>1, <2>1, <2>2 DEF TypeOK
<1>10. \A r \in Session : pc'[r] # "truncate"
  BY <1>1 DEF WriteLockFree, TypeOK
<1>11. manifest'.maxSeq < nextSeq' /\ \A q \in OpenSeqs' : q < nextSeq'
  BY <1>1 DEF SeqInv, TypeOK, OpenSeqs
<1>12. QED
  BY <1>1, <1>6, <1>9, <1>10, <1>11 DEF SeqInv

(* Wal::truncate: the manifest written just before covers every number.    *)
LEMMA TruncateSeq ==
  ASSUME TypeOK, SeqInv, NEW s \in Session, TruncateWal(s)
  PROVE  SeqInv'
<1>1. /\ wal' = << >> /\ walTail' = << >>
      /\ UNCHANGED <<nextSeq, manifest, history, batch, openSnapshots>>
      /\ manifest.maxSeq = CurrentSeq
  BY DEF TruncateWal, SeqInv
<1>2. DOMAIN wal' = {}
  BY <1>1
<1>3. ASSUME NEW v \in (history \cup UNION {batch[r] : r \in Session})'
      PROVE  v.seq < nextSeq' /\ Covered(v.seq)'
  <2>1. v.seq \in Nat /\ v.seq < nextSeq
    BY <1>1 DEF SeqInv, TypeOK, Version
  <2>2. v.seq <= manifest'.maxSeq
    BY <1>1, <2>1 DEF CurrentSeq, TypeOK
  <2>3. QED
    BY <1>1, <2>1, <2>2 DEF Covered
<1>4. /\ manifest'.maxSeq < nextSeq' /\ \A q \in OpenSeqs' : q < nextSeq'
      /\ CurrentSeq' = CurrentSeq
  BY <1>1 DEF SeqInv, OpenSeqs, CurrentSeq
<1>5. QED
  BY <1>1, <1>2, <1>3, <1>4 DEF SeqInv

(* LsmEngine::open: the recovered maximum is above every number in use.    *)
LEMMA RestartSeq ==
  ASSUME TypeOK, SeqInv, Restart
  PROVE  SeqInv'
<1>1. wal \o walTail = wal
  BY DEF SeqInv, TypeOK
<1>2. \A i \in DOMAIN wal : wal[i] \in Batch /\ i \in Nat
  BY DEF TypeOK
<1>3. ReplaySeqs(wal) = {wal[i].seq : i \in DOMAIN wal}
  <2>1. \A j \in DOMAIN wal : \A h \in 1 .. (j - 1) : h \in DOMAIN wal
    BY DEF TypeOK
  <2>2. \A j \in DOMAIN wal : \A h \in 1 .. (j - 1) : ~ wal[h].torn
    BY <2>1 DEF SeqInv
  <2>3. QED
    <3>1. {j \in DOMAIN wal : \A h \in 1 .. (j - 1) : ~ wal[h].torn} = DOMAIN wal
      BY <2>2
    <3>2. QED
      BY <3>1, Zenon DEF ReplaySeqs
<1> DEFINE seqs == {manifest.maxSeq} \cup ReplaySeqs(wal)
                   \cup {v.seq : v \in AllVersions(Loaded)}
<1>4. PICK n \in seqs : (\A m \in seqs : m <= n) /\ nextSeq' = n + 1
  BY <1>1 DEF Restart, RecoveredSeqs
<1>5. n \in Nat
  <2>1. ReplaySeqs(wal) \subseteq Nat
    BY <1>2, <1>3 DEF Batch
  <2>2. {v.seq : v \in AllVersions(Loaded)} \in SUBSET Nat
    <3>1. Loaded \in SUBSET [id : Nat, data : SUBSET Version, pos : Nat]
      BY LoadedType DEF TypeOK
    <3>2. QED
      BY <3>1 DEF AllVersions, Version
  <2>3. manifest.maxSeq \in Nat
    BY DEF TypeOK
  <2>4. QED
    BY <2>1, <2>2, <2>3
<1>6. manifest.maxSeq <= n /\ \A i \in DOMAIN wal : wal[i].seq <= n
  BY <1>3, <1>4
<1>7. /\ wal' = wal /\ walTail' = << >> /\ UNCHANGED manifest
      /\ history' = history \cup Replay(wal)
      /\ batch' = [s \in Session |-> {}]
      /\ pc' = [s \in Session |-> "idle"]
      /\ openSnapshots' = [s \in 0 .. U64Max |-> 0]
  BY <1>1 DEF Restart
<1>8. ASSUME NEW v \in (history \cup UNION {batch[r] : r \in Session})'
      PROVE  v.seq < nextSeq' /\ Covered(v.seq)'
  <2>1. v \in history \/ v \in Replay(wal)
    BY <1>7
  <2>2. CASE v \in history
    <3>1. v.seq \in Nat /\ Covered(v.seq)
      BY <2>2 DEF SeqInv, TypeOK, Version
    <3>2. v.seq <= n
      <4>1. CASE v.seq <= manifest.maxSeq
        BY <1>5, <1>6, <3>1, <4>1 DEF TypeOK
      <4>2. CASE \E i \in DOMAIN wal : v.seq <= wal[i].seq
        BY <1>2, <1>5, <1>6, <3>1, <4>2 DEF Batch
      <4>3. QED
        BY <3>1, <4>1, <4>2 DEF Covered
    <3>3. QED
      BY <1>4, <1>5, <1>7, <3>1, <3>2 DEF Covered
  <2>3. CASE v \in Replay(wal)
    <3>1. PICK i \in DOMAIN wal : v \in wal[i].rows
      BY <2>3 DEF Replay, Replayed
    <3>2. v.seq = wal[i].seq /\ wal[i].seq \in Nat
      BY <1>2, <3>1 DEF SeqInv, Batch
    <3>3. v.seq <= n /\ Covered(v.seq)'
      BY <1>6, <1>7, <3>2 DEF Covered
    <3>4. QED
      BY <1>4, <1>5, <3>2, <3>3
  <2>4. QED
    BY <2>1, <2>2, <2>3
<1>9. ASSUME NEW i \in DOMAIN wal'
      PROVE  /\ ~ wal'[i].torn
             /\ wal'[i].seq < nextSeq'
             /\ \A v \in wal'[i].rows : v.seq = wal'[i].seq
  BY <1>2, <1>4, <1>5, <1>6, <1>7 DEF SeqInv, Batch
<1>10. OpenSeqs' = {} /\ \A s \in Session : pc'[s] = "idle"
  BY <1>7 DEF OpenSeqs
<1>11. manifest'.maxSeq < nextSeq'
  BY <1>4, <1>5, <1>6, <1>7 DEF TypeOK
<1>12. QED
  BY <1>7, <1>8, <1>9, <1>10, <1>11 DEF SeqInv

(* Every step, and every crash, preserves SeqInv while no append fails.    *)
LEMMA StepSeq ==
  ASSUME "append" \notin Faults
  PROVE  TypeOK /\ SeqInv /\ [Next]_vars => SeqInv'
<1> SUFFICES ASSUME TypeOK, SeqInv, [Next]_vars PROVE SeqInv'
  OBVIOUS
<1> USE DEF Goto, view, jobs, OpenSeqs
<1>1. ASSUME NEW s \in Session, NEW f \in Edits, WriteBatch(s, f)
      PROVE  SeqInv'
  BY <1>1, WriteBatchSeq
<1>2. ASSUME NEW s \in Session, NEW v \in batch[s], InsertRow(s, v)
      PROVE  SeqInv'
  <2>1. history' \cup UNION {batch'[r] : r \in Session}
          \subseteq history \cup UNION {batch[r] : r \in Session}
    BY <1>2 DEF InsertRow, TypeOK
  <2>2. QED
    BY <1>2, <2>1, SeqQuiet DEF InsertRow
<1>3. ASSUME NEW s \in Session, EndWrite(s) \/ ManualFlush(s) PROVE SeqInv'
  <2>1. /\ UNCHANGED <<nextSeq, openSnapshots, wal, walTail, manifest, batch,
                       history>>
        /\ \/ BeginFlush(s)
           \/ pc' = [pc EXCEPT ![s] = "idle"]
    BY <1>3 DEF EndWrite, ManualFlush
  <2>2. pc' = [pc EXCEPT ![s] = "idle"] \/ pc' = [pc EXCEPT ![s] = "flush"]
    BY <2>1 DEF BeginFlush
  <2>3. QED
    BY <2>1, <2>2, SeqQuiet DEF TypeOK
<1>4. ASSUME NEW s \in Session, FinishFlush(s) PROVE SeqInv'
  BY <1>4, SeqQuiet DEF FinishFlush, TypeOK
<1>5. ASSUME NEW s \in Session, FlushFails(s) PROVE SeqInv'
  BY <1>5, SeqQuiet DEF FlushFails, TypeOK
<1>6. ASSUME NEW s \in Session, CommitFlush(s) PROVE SeqInv'
  BY <1>6, SeqQuiet DEF CommitFlush, NewManifest
<1>7. ASSUME NEW s \in Session, TruncateWal(s) PROVE SeqInv'
  BY <1>7, TruncateSeq
<1>8. ASSUME NEW s \in Session, TruncateFails(s) PROVE SeqInv'
  BY <1>8, SeqQuiet DEF TruncateFails, TypeOK
<1>9. ASSUME NEW s \in Session, FinishCompact(s) PROVE SeqInv'
  BY <1>9, SeqQuiet DEF FinishCompact, TypeOK
<1>10. ASSUME NEW s \in Session, CompactFails(s) PROVE SeqInv'
  BY <1>10, SeqQuiet DEF CompactFails, TypeOK
<1>11. ASSUME NEW s \in Session, CommitCompact(s) PROVE SeqInv'
  BY <1>11, SeqQuiet DEF CommitCompact, NewManifest
<1>12. ASSUME NEW s \in Session, BeginRead(s) PROVE SeqInv'
  BY <1>12, SeqQuiet DEF BeginRead, TypeOK
<1>13. ASSUME NEW s \in Session, EndRead(s) PROVE SeqInv'
  BY <1>13, SeqQuiet DEF EndRead, TypeOK
<1>14. CASE SnapshotNow
  <2>1. OpenSeqs' \subseteq OpenSeqs \cup {CurrentSeq}
    BY <1>14 DEF SnapshotNow, TypeOK
  <2>2. QED
    BY <1>14, <2>1, SeqQuiet DEF SnapshotNow
<1>15. ASSUME NEW q \in 0 .. U64Max, ReleaseSnapshot(q) PROVE SeqInv'
  <2>1. OpenSeqs' \subseteq OpenSeqs \cup {CurrentSeq}
    BY <1>15 DEF ReleaseSnapshot, TypeOK
  <2>2. QED
    BY <1>15, <2>1, SeqQuiet DEF ReleaseSnapshot
<1>16. CASE LoseLease
  BY <1>16, SeqQuiet DEF LoseLease
<1>17. CASE Restart
  BY <1>17, RestartSeq
<1>18. CASE UNCHANGED vars
  BY <1>18, SeqQuiet DEF vars
<1>19. ASSUME NEW s \in Session, NEW f \in Edits, WriteBatchFails(s, f)
       PROVE  FALSE
  BY <1>19 DEF WriteBatchFails
<1>20. ASSUME NEW s \in Session, FlushUnanswered(s) PROVE SeqInv'
  BY <1>20, SeqQuiet DEF FlushUnanswered, NewManifest
<1>21. ASSUME NEW s \in Session, CompactUnanswered(s) PROVE SeqInv'
  BY <1>21, SeqQuiet DEF CompactUnanswered, NewManifest
<1>22. QED
  BY <1>1, <1>2, <1>3, <1>4, <1>5, <1>6, <1>7, <1>8, <1>9, <1>10, <1>11,
     <1>12, <1>13, <1>14, <1>15, <1>16, <1>17, <1>18, <1>19, <1>20, <1>21
     DEF Next, SessionStep

(* While no WAL append fails, no restart, flush, compaction or truncation, *)
(* in whatever order, makes the engine issue a commit_seq again.           *)
THEOREM SequenceNumbersFresh ==
  ASSUME "append" \notin Faults
  PROVE  Spec => []CommitSeqFresh
<1>1. Init => SeqInv
  BY DEF Init, SeqInv, OpenSeqs
<1>2. SeqInv => CommitSeqFresh
  BY DEF SeqInv, CommitSeqFresh
<1>3. TypeOK /\ SeqInv /\ [Next]_vars => SeqInv'
  BY StepSeq
<1>4. QED
  BY <1>1, <1>2, <1>3, TypeCorrect, PTL DEF Spec
=============================================================================
