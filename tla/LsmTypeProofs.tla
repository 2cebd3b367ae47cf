--------------------------- MODULE LsmTypeProofs ----------------------------
(* Type correctness of LsmEngine, for every number of sessions, every      *)
(* threshold and every combination of faults.                              *)
EXTENDS LsmEngine, TLAPS

(* The rows of a batch are versions.                                       *)
LEMMA RowsType ==
  ASSUME NEW f \in Edits, NEW q \in Nat
  PROVE  Rows(f, q) \in SUBSET Version
  BY DEF Edits, Rows, Version

(* Wal::replay yields versions.                                            *)
LEMMA ReplayType ==
  ASSUME NEW log \in Seq(Batch)
  PROVE  Replay(log) \in SUBSET Version
<1>1. \A i \in DOMAIN log : log[i] \in Batch
  OBVIOUS
<1>2. QED
  BY <1>1 DEF Replay, Replayed, Batch

(* LsmEngine::open loads well-formed tables.                               *)
LEMMA LoadedType ==
  ASSUME objects \in SUBSET Table
  PROVE  Loaded \in SUBSET [id : Nat, data : SUBSET Version, pos : Nat]
  BY DEF Loaded, Table

(* finish_compact keeps some of its inputs' versions and makes up none.    *)
LEMMA MergeSubset ==
  ASSUME NEW T \in SUBSET Table, NEW w
  PROVE  Merge(T, w) \in SUBSET Version
  BY DEF Merge, AllVersions, Table

(* What PutObject does to the type of the store.                           *)
LEMMA PutObjectType ==
  ASSUME objects \in SUBSET Table, NEW o \in Table, PutObject(o)
  PROVE  objects' \in SUBSET Table
  BY DEF PutObject

(* Pushing a table on the list keeps the list well formed.                 *)
LEMMA PushType ==
  ASSUME NEW T \in SUBSET [id : Nat, data : SUBSET Version, pos : Nat],
         NEW t \in [id : Nat, data : SUBSET Version],
         Push(T, t)
  PROVE  sstables' \in SUBSET [id : Nat, data : SUBSET Version, pos : Nat]
  BY DEF Push

(* The sequence numbers Wal::replay finds are numbers.                     *)
LEMMA ReplaySeqsType ==
  ASSUME NEW log \in Seq(Batch)
  PROVE  ReplaySeqs(log) \in SUBSET Nat
<1>1. \A i \in DOMAIN log : log[i] \in Batch
  OBVIOUS
<1>2. QED
  BY <1>1 DEF ReplaySeqs, Batch

(* What the WAL tail can be, as sequences.                                 *)
LEMMA ShortSeqType ==
  ASSUME NEW S
  PROVE  << >> \in Seq(S) /\ \A x \in S : <<x>> \in Seq(S)
  OBVIOUS

(* What begin_compact hands on to finish_compact are tables.               *)
LEMMA InputsType ==
  ASSUME NEW T \in SUBSET [id : Nat, data : SUBSET Version, pos : Nat]
  PROVE  {[id |-> t.id, data |-> t.data] : t \in T} \in SUBSET Table
  BY DEF Table

(* begin_flush leaves its variables well typed.                            *)
LEMMA BeginFlushType ==
  ASSUME TypeOK, NEW s \in Session, BeginFlush(s)
  PROVE  /\ memtable' \in SUBSET Version
         /\ immutable' \in SUBSET Version
         /\ sstables' = sstables
         /\ flush' \in [Session -> Table]
         /\ sstableId' \in Nat
         /\ pc' \in [Session -> PC]
<1>1. [id |-> sstableId, data |-> memtable] \in Table
  BY DEF TypeOK, Table
<1>2. /\ flush' \in [Session -> Table]
      /\ sstableId' \in Nat
      /\ pc' \in [Session -> PC]
  <2>1. CASE memtable = {}
    BY <2>1, Zenon DEF TypeOK, BeginFlush, Goto, PC
  <2>2. CASE memtable # {}
    <3>1. /\ flush' = [flush EXCEPT ![s] = [id |-> sstableId,
                                           data |-> memtable]]
          /\ sstableId' = sstableId + 1
          /\ pc' = [pc EXCEPT ![s] = "flush"]
      BY <2>2, Zenon DEF BeginFlush, Goto
    <3>2. QED
      BY <1>1, <3>1 DEF TypeOK, PC
  <2>3. QED
    BY <2>1, <2>2
<1>3. QED
  BY <1>2 DEF TypeOK, BeginFlush

(* A freshly opened engine is well typed.                                  *)
LEMMA InitType == Init => TypeOK
<1> SUFFICES ASSUME Init PROVE TypeOK
  OBVIOUS
<1>1. /\ openSnapshots \in [0 .. U64Max -> Nat]
      /\ nextSeq \in Nat \ {0} /\ sstableId \in Nat /\ restarts \in Nat
      /\ manifest \in [ids : SUBSET Nat, maxSeq : Nat]
  BY EngineConstants DEF Init
<1>2. /\ pc \in [Session -> PC]
      /\ batch \in [Session -> SUBSET Version]
      /\ flush \in [Session -> Table]
      /\ compaction \in
           [Session -> [id : Nat, inputs : SUBSET Table, watermark : Nat]]
      /\ readSeq \in [Session -> Nat]
  BY DEF Init, PC, NoTable, NoCompaction, Table
<1>3. wal \in Seq(Batch) /\ walTail \in Seq(Batch)
  BY ShortSeqType DEF Init
<1>4. QED
  BY <1>1, <1>2, <1>3, Zenon DEF Init, TypeOK

(* Every step, and every crash, keeps the state well typed.                *)
LEMMA StepType == TypeOK /\ [Next]_vars => TypeOK'
<1> SUFFICES ASSUME TypeOK, [Next]_vars PROVE TypeOK'
  OBVIOUS
<1> USE EngineConstants DEF TypeOK, Goto, view, jobs
<1>1. ASSUME NEW s \in Session, NEW f \in Edits, WriteBatch(s, f)
      PROVE  TypeOK'
  <2>1. Rows(f, nextSeq) \in SUBSET Version
    BY RowsType
  <2>2. Junk \in Batch
    BY DEF Junk, Batch
  <2>3. [seq |-> nextSeq, rows |-> Rows(f, nextSeq), torn |-> FALSE] \in Batch
    BY <2>1 DEF Batch
  <2>4. wal' \in Seq(Batch)
    BY <1>1, <2>3 DEF WriteBatch
  <2>5. walTail' \in Seq(Batch)
    <3>1. walTail' = << >> \/ walTail' = <<Junk>>
      BY <1>1, Zenon DEF WriteBatch
    <3>2. << >> \in Seq(Batch) /\ <<Junk>> \in Seq(Batch)
      BY <2>2, ShortSeqType
    <3>3. QED
      BY <3>1, <3>2, Zenon
  <2>6. nextSeq' \in Nat \ {0}
    BY <1>1 DEF WriteBatch
  <2>7. QED
    BY <1>1, <2>1, <2>4, <2>5, <2>6, Zenon DEF WriteBatch, PC
<1>2. ASSUME NEW s \in Session, NEW f \in Edits, WriteBatchFails(s, f)
      PROVE  TypeOK'
  <2>1. Rows(f, nextSeq) \in SUBSET Version
    BY RowsType
  <2>2. /\ Junk \in Batch
        /\ [seq |-> nextSeq, rows |-> {}, torn |-> TRUE] \in Batch
        /\ [seq |-> nextSeq, rows |-> Rows(f, nextSeq), torn |-> FALSE] \in Batch
    BY <2>1 DEF Batch, Junk
  <2>3. walTail' \in Seq(Batch)
    <3>1. CASE UNCHANGED walTail
      BY <3>1
    <3>2. CASE walTail' = <<[seq |-> nextSeq, rows |-> {}, torn |-> TRUE]>>
      BY <2>2, <3>2, ShortSeqType
    <3>3. CASE walTail' = <<[seq |-> nextSeq, rows |-> Rows(f, nextSeq),
                             torn |-> FALSE]>>
      BY <2>2, <3>3, ShortSeqType
    <3>4. CASE walTail' = <<Junk>>
      BY <2>2, <3>4, ShortSeqType
    <3>5. QED
      BY <1>2, <3>1, <3>2, <3>3, <3>4 DEF WriteBatchFails
  <2>4. nextSeq' \in Nat \ {0}
    BY <1>2 DEF WriteBatchFails
  <2>5. QED
    BY <1>2, <2>3, <2>4, Zenon DEF WriteBatchFails
<1>3. ASSUME NEW s \in Session, NEW v \in batch[s], InsertRow(s, v)
      PROVE  TypeOK'
  BY <1>3 DEF InsertRow
<1>4. ASSUME NEW s \in Session, EndWrite(s)
      PROVE  TypeOK'
  <2>1. CASE BeginFlush(s)
    BY <1>4, <2>1, BeginFlushType, Zenon DEF EndWrite
  <2>2. CASE ~ BeginFlush(s)
    BY <1>4, <2>2, Zenon DEF EndWrite, PC
  <2>3. QED
    BY <2>1, <2>2, Zenon
<1>5. ASSUME NEW s \in Session, ManualFlush(s)
      PROVE  TypeOK'
  BY <1>5, BeginFlushType, Zenon DEF ManualFlush
<1>6. ASSUME NEW s \in Session, FinishFlush(s)
      PROVE  TypeOK'
  BY <1>6, PutObjectType DEF FinishFlush, PC
<1>7. ASSUME NEW s \in Session, FlushFails(s)
      PROVE  TypeOK'
  BY <1>7 DEF FlushFails, PC, NoTable, Table
<1>8. ASSUME NEW s \in Session, CommitFlush(s)
      PROVE  TypeOK'
  <2>1. sstables' \in SUBSET [id : Nat, data : SUBSET Version, pos : Nat]
    BY <1>8, PushType, Zenon DEF CommitFlush, Table
  <2>2. QED
    BY <1>8, <2>1 DEF CommitFlush, PC, NoTable, Table, Ids, CurrentSeq,
                        NewManifest
<1>9. ASSUME NEW s \in Session, TruncateWal(s)
      PROVE  TypeOK'
  <2>1. {[id |-> t.id, data |-> t.data] : t \in sstables} \in SUBSET Table
    BY InputsType, Zenon
  <2>2. CASE BeginCompact(s)
    <3>1. /\ compaction' \in
              [Session -> [id : Nat, inputs : SUBSET Table, watermark : Nat]]
          /\ sstableId' \in Nat
          /\ pc' \in [Session -> PC]
      BY <2>1, <2>2 DEF BeginCompact, PC
    <3>2. QED
      BY <1>9, <3>1, ShortSeqType, Zenon DEF TruncateWal
  <2>3. CASE Goto(s, "idle") /\ UNCHANGED <<compaction, sstableId>>
    <3>1. pc' \in [Session -> PC]
      BY <2>3 DEF PC
    <3>2. QED
      BY <1>9, <2>3, <3>1, ShortSeqType, Zenon DEF TruncateWal
  <2>4. QED
    BY <1>9, <2>2, <2>3, Zenon DEF TruncateWal
<1>10. ASSUME NEW s \in Session, TruncateFails(s)
       PROVE  TypeOK'
  BY <1>10 DEF TruncateFails, PC
<1>11. ASSUME NEW s \in Session, FinishCompact(s)
       PROVE  TypeOK'
  <2>1. MergedTable(s) \in Table
    BY MergeSubset DEF MergedTable, Table
  <2>2. QED
    BY <1>11, <2>1, PutObjectType DEF FinishCompact, PC
<1>12. ASSUME NEW s \in Session, CompactFails(s)
       PROVE  TypeOK'
  BY <1>12 DEF CompactFails, PC, NoCompaction
<1>13. ASSUME NEW s \in Session, CommitCompact(s)
       PROVE  TypeOK'
  <2>1. MergedTable(s) \in Table
    BY MergeSubset DEF MergedTable, Table
  <2>2. sstables' \in SUBSET [id : Nat, data : SUBSET Version, pos : Nat]
    <3>1. Push(Survivors(s), MergedTable(s))
      BY <1>13 DEF CommitCompact
    <3>2. Survivors(s) \in SUBSET [id : Nat, data : SUBSET Version, pos : Nat]
      BY DEF Survivors
    <3>3. QED
      BY <2>1, <3>1, <3>2, PushType, Zenon DEF Table
  <2>3. manifest' \in [ids : SUBSET Nat, maxSeq : Nat]
    BY <1>13 DEF CommitCompact, Ids, CurrentSeq, NewManifest, Survivors
  <2>4. objects' \in SUBSET Table
    BY <1>13 DEF CommitCompact
  <2>5. QED
    BY <1>13, <2>2, <2>3, <2>4 DEF CommitCompact, PC, NoCompaction
<1>14. ASSUME NEW s \in Session, BeginRead(s) \/ EndRead(s)
       PROVE  TypeOK'
  <2>1. CurrentSeq \in Nat
    BY DEF CurrentSeq
  <2>2. CASE BeginRead(s)
    BY <2>1, <2>2 DEF BeginRead, PC
  <2>3. CASE EndRead(s)
    BY <2>3 DEF EndRead, PC
  <2>4. QED
    BY <1>14, <2>2, <2>3, Zenon
<1>15. CASE SnapshotNow
  <2>1. openSnapshots' \in [0 .. U64Max -> Nat]
    <3>1. \A q \in 0 .. U64Max : openSnapshots[q] + 1 \in Nat
      OBVIOUS
    <3>2. QED
      BY <1>15, <3>1, Zenon DEF SnapshotNow
  <2>2. QED
    BY <1>15, <2>1 DEF SnapshotNow
<1>16. ASSUME NEW q \in 0 .. U64Max, ReleaseSnapshot(q)
       PROVE  TypeOK'
  BY <1>16 DEF ReleaseSnapshot, OpenSeqs
<1>17. CASE LoseLease
  BY <1>17, Zenon DEF LoseLease
<1>18. CASE Restart
  <2> DEFINE log == wal \o walTail
  <2>1. log \in Seq(Batch)
    OBVIOUS
  <2>2. Replay(log) \in SUBSET Version /\ ReplaySeqs(log) \in SUBSET Nat
    BY <2>1, ReplayType, ReplaySeqsType, Zenon
  <2>3. Loaded \in SUBSET [id : Nat, data : SUBSET Version, pos : Nat]
    BY LoadedType
  <2>4. {v.seq : v \in AllVersions(Loaded)} \in SUBSET Nat
    BY <2>3 DEF AllVersions, Version
  <2>5. nextSeq' \in Nat \ {0} /\ sstableId' \in Nat
    <3>1. \E n \in {manifest.maxSeq} \cup ReplaySeqs(log)
                   \cup {v.seq : v \in AllVersions(Loaded)} : nextSeq' = n + 1
      BY <1>18 DEF Restart, RecoveredSeqs
    <3>2. \E n \in {0} \cup manifest.ids : sstableId' = n + 1
      BY <1>18 DEF Restart
    <3>3. {manifest.maxSeq} \cup ReplaySeqs(log)
            \cup {v.seq : v \in AllVersions(Loaded)} \in SUBSET Nat
      BY <2>2, <2>4
    <3>4. {0} \cup manifest.ids \in SUBSET Nat
      OBVIOUS
    <3>5. nextSeq' \in Nat \ {0}
      <4> HIDE DEF log
      <4>1. PICK n \in {manifest.maxSeq} \cup ReplaySeqs(log)
                   \cup {v.seq : v \in AllVersions(Loaded)} : nextSeq' = n + 1
        BY <3>1
      <4>2. n \in Nat
        BY <3>3, <4>1, Zenon
      <4>3. QED
        BY <4>1, <4>2
    <3>6. sstableId' \in Nat
      BY <3>2, <3>4
    <3>7. QED
      BY <3>5, <3>6
  <2>6. /\ pc' \in [Session -> PC]
        /\ batch' \in [Session -> SUBSET Version]
        /\ flush' \in [Session -> Table]
        /\ compaction' \in
             [Session -> [id : Nat, inputs : SUBSET Table, watermark : Nat]]
        /\ readSeq' \in [Session -> Nat]
    BY <1>18 DEF Restart, PC, NoTable, NoCompaction, Table
  <2>7. openSnapshots' \in [0 .. U64Max -> Nat] /\ restarts' \in Nat
    BY <1>18 DEF Restart
  <2>8. wal' \in Seq(Batch) /\ walTail' \in Seq(Batch)
    BY <1>18, <2>1, ShortSeqType DEF Restart
  <2>9. /\ memtable' \in SUBSET Version /\ immutable' \in SUBSET Version
        /\ history' \in SUBSET Version
    BY <1>18, <2>2 DEF Restart
  <2> HIDE DEF log
  <2>10. QED
    BY <1>18, <2>3, <2>5, <2>6, <2>7, <2>8, <2>9, Zenon DEF Restart
<1>19. CASE UNCHANGED vars
  BY <1>19 DEF vars
<1>20. ASSUME NEW s \in Session, FlushUnanswered(s)
       PROVE  TypeOK'
  <2>1. manifest' \in [ids : SUBSET Nat, maxSeq : Nat]
    BY <1>20 DEF FlushUnanswered, Table, Ids, CurrentSeq, NewManifest
  <2>2. QED
    BY <1>20, <2>1 DEF FlushUnanswered, PC, NoTable, Table
<1>21. ASSUME NEW s \in Session, CompactUnanswered(s)
       PROVE  TypeOK'
  <2>1. manifest' \in [ids : SUBSET Nat, maxSeq : Nat]
    BY <1>21 DEF CompactUnanswered, Ids, CurrentSeq, NewManifest, Survivors
  <2>2. QED
    BY <1>21, <2>1 DEF CompactUnanswered, PC, NoCompaction
<1>22. QED
  BY <1>1, <1>2, <1>3, <1>4, <1>5, <1>6, <1>7, <1>8, <1>9, <1>10, <1>11,
     <1>12, <1>13, <1>14, <1>15, <1>16, <1>17, <1>18, <1>19, <1>20, <1>21,
     Zenon
     DEF Next, SessionStep

(* Every reachable state of the engine is well typed.                      *)
THEOREM TypeCorrect == Spec => []TypeOK
<1>1. QED
  BY InitType, StepType, PTL DEF Spec
=============================================================================
