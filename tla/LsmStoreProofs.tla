--------------------------- MODULE LsmStoreProofs ---------------------------
(* The object store of LsmEngine stays consistent with the manifest and    *)
(* the view, for every number of sessions and every combination of faults. *)
EXTENDS LsmTypeProofs

(* A step that uploads, lists and deletes nothing, and leaves every job    *)
(* that is still pending as it was, preserves StoreInv.                    *)
LEMMA QuietStep ==
  ASSUME TypeOK, StoreInv, sstableId' \in Nat, sstableId <= sstableId',
         UNCHANGED <<sstables, objects, manifest, etagStale>>,
         \A r \in Session :
           pc'[r] \in {"flush", "uploaded", "compact", "merged"} =>
             /\ pc'[r] = pc[r]
             /\ flush'[r] = flush[r]
             /\ compaction'[r] = compaction[r]
  PROVE  StoreInv'
<1>1. \A r \in Session : HasId(r)' => HasId(r) /\ IdOf(r)' = IdOf(r)
  BY DEF HasId, IdOf
<1>2. \A r \in Session : HasId(r) => IdOf(r) \in Nat
  BY DEF TypeOK, HasId, IdOf, Table
<1>3. InUse' = InUse /\ \A i \in InUse : i \in Nat
  BY DEF TypeOK, InUse, Ids
<1>4. \A r \in Session : pc'[r] \in {"compact", "merged"} =>
        /\ pc[r] \in {"compact", "merged"}
        /\ compaction'[r].inputs = compaction[r].inputs
        /\ \A t \in compaction[r].inputs : t.id \in Nat
  BY DEF TypeOK, Table
<1>5. IdsExclusive'
  <2>1. \A i \in InUse' : i < sstableId'
    BY <1>3 DEF StoreInv, IdsExclusive, TypeOK
  <2>2. ASSUME NEW s \in Session, HasId(s)'
        PROVE  /\ IdOf(s)' < sstableId'
               /\ IdOf(s)' \notin InUse'
               /\ \A r \in Session : HasId(r)' /\ r # s => IdOf(r)' # IdOf(s)'
    BY <1>1, <1>2, <1>3, <2>2 DEF StoreInv, IdsExclusive, TypeOK
  <2>3. ASSUME NEW r \in Session, pc'[r] \in {"compact", "merged"},
               NEW t \in compaction'[r].inputs
        PROVE  /\ t.id < sstableId'
               /\ \A s \in Session : HasId(s)' => IdOf(s)' # t.id
    BY <1>1, <1>4, <2>3 DEF StoreInv, IdsExclusive, TypeOK
  <2>4. QED
    BY <2>1, <2>2, <2>3 DEF IdsExclusive
<1>6. UploadsKept'
  BY DEF StoreInv, UploadsKept, MergedTable
<1>7. QED
  BY <1>5, <1>6 DEF StoreInv, ViewMatchesStore, ListedObjectsExist, Ids

(* begin_flush and begin_compact: session s takes the next id.             *)
LEMMA AllocStep ==
  ASSUME TypeOK, StoreInv, NEW s \in Session,
         sstableId' = sstableId + 1,
         UNCHANGED <<sstables, objects, manifest, etagStale>>,
         \A r \in Session \ {s} :
           /\ pc'[r] = pc[r]
           /\ flush'[r] = flush[r]
           /\ compaction'[r] = compaction[r],
         \/ pc'[s] = "flush" /\ flush'[s].id = sstableId
         \/ /\ pc'[s] = "compact" /\ compaction'[s].id = sstableId
            /\ \A t \in compaction'[s].inputs : \E u \in sstables : u.id = t.id
  PROVE  StoreInv'
<1>1. \A r \in Session \ {s} : HasId(r)' = HasId(r) /\ IdOf(r)' = IdOf(r)
  BY DEF HasId, IdOf
<1>2. HasId(s)' /\ IdOf(s)' = sstableId
  BY DEF HasId, IdOf
<1>3. \A r \in Session : HasId(r) => IdOf(r) \in Nat /\ IdOf(r) < sstableId
  BY DEF TypeOK, HasId, IdOf, Table, StoreInv, IdsExclusive
<1>4. /\ InUse' = InUse
      /\ \A i \in InUse : i \in Nat /\ i < sstableId
      /\ \A t \in sstables : t.id \in InUse
  BY DEF TypeOK, StoreInv, IdsExclusive, InUse, Ids
<1>5. \A r \in Session \ {s} : pc'[r] \in {"compact", "merged"} =>
        /\ pc[r] \in {"compact", "merged"}
        /\ compaction'[r].inputs = compaction[r].inputs
        /\ \A t \in compaction[r].inputs : t.id \in Nat /\ t.id < sstableId
  BY DEF TypeOK, Table, StoreInv, IdsExclusive
<1>6. IdsExclusive'
  <2>1. \A i \in InUse' : i < sstableId'
    BY <1>4 DEF TypeOK
  <2>2. ASSUME NEW r \in Session, HasId(r)'
        PROVE  /\ IdOf(r)' < sstableId'
               /\ IdOf(r)' \notin InUse'
               /\ \A q \in Session : HasId(q)' /\ q # r => IdOf(q)' # IdOf(r)'
    <3>1. CASE r = s
      BY <1>1, <1>2, <1>3, <1>4, <3>1 DEF TypeOK
    <3>2. CASE r # s
      <4>1. HasId(r) /\ IdOf(r)' = IdOf(r)
        BY <1>1, <2>2, <3>2
      <4>2. IdOf(r)' < sstableId'
        BY <1>3, <4>1 DEF TypeOK
      <4>3. IdOf(r)' \notin InUse'
        BY <1>4, <4>1 DEF StoreInv, IdsExclusive
      <4>4. \A q \in Session : HasId(q)' /\ q # r => IdOf(q)' # IdOf(r)'
        <5>1. IdOf(s)' # IdOf(r)'
          BY <1>2, <1>3, <4>1 DEF TypeOK
        <5>2. \A q \in Session \ {s} :
                HasId(q)' /\ q # r => IdOf(q)' # IdOf(r)'
          BY <1>1, <4>1 DEF StoreInv, IdsExclusive
        <5>3. QED
          BY <5>1, <5>2
      <4>5. QED
        BY <4>2, <4>3, <4>4
    <3>3. QED
      BY <3>1, <3>2
  <2>3. ASSUME NEW r \in Session, pc'[r] \in {"compact", "merged"},
               NEW t \in compaction'[r].inputs
        PROVE  /\ t.id < sstableId'
               /\ \A q \in Session : HasId(q)' => IdOf(q)' # t.id
    <3>1. CASE r = s
      <4>1. PICK u \in sstables : u.id = t.id
        BY <2>3, <3>1
      <4>2. t.id \in Nat /\ t.id < sstableId
        BY <1>4, <4>1
      <4>3. \A q \in Session \ {s} : HasId(q)' => IdOf(q)' # t.id
        BY <1>1, <1>4, <4>1 DEF StoreInv, IdsExclusive
      <4>4. QED
        BY <1>2, <4>2, <4>3 DEF TypeOK
    <3>2. CASE r # s
      <4>1. t.id \in Nat /\ t.id < sstableId
        BY <1>5, <2>3, <3>2
      <4>2. \A q \in Session \ {s} : HasId(q)' => IdOf(q)' # t.id
        BY <1>1, <1>5, <2>3, <3>2 DEF StoreInv, IdsExclusive
      <4>3. QED
        BY <1>2, <4>1, <4>2 DEF TypeOK
    <3>3. QED
      BY <3>1, <3>2
  <2>4. QED
    BY <2>1, <2>2, <2>3 DEF IdsExclusive
<1>7. UploadsKept'
  BY DEF StoreInv, UploadsKept, MergedTable
<1>8. QED
  BY <1>6, <1>7 DEF StoreInv, ViewMatchesStore, ListedObjectsExist, Ids

(* finish_flush and finish_compact: session s puts its table in the store. *)
LEMMA UploadStep ==
  ASSUME TypeOK, StoreInv, NEW s \in Session, NEW o \in Table,
         UNCHANGED <<sstables, sstableId, manifest, etagStale, flush,
                     compaction>>,
         PutObject(o),
         \A r \in Session \ {s} : pc'[r] = pc[r],
         \/ pc[s] = "flush" /\ pc'[s] = "uploaded" /\ o = flush[s]
         \/ pc[s] = "compact" /\ pc'[s] = "merged" /\ o = MergedTable(s)
  PROVE  StoreInv'
<1>1. \A r \in Session : HasId(r)' = HasId(r) /\ IdOf(r)' = IdOf(r)
  BY DEF HasId, IdOf
<1>2. HasId(s) /\ o.id = IdOf(s)
  BY DEF HasId, IdOf, MergedTable
<1>3. \A r \in Session : pc'[r] \in {"compact", "merged"} <=>
                         pc[r] \in {"compact", "merged"}
  OBVIOUS
<1>4. IdsExclusive'
  BY <1>1, <1>3 DEF StoreInv, IdsExclusive, InUse, Ids
<1>5. \A x \in objects : x.id # o.id => x \in objects'
  BY DEF PutObject
<1>6. o \in objects'
  BY DEF PutObject
<1>7. ViewMatchesStore'
  <2>1. \A t \in sstables : t.id # o.id
    BY <1>2 DEF StoreInv, IdsExclusive, InUse, Ids
  <2>2. QED
    BY <1>5, <2>1, Zenon DEF StoreInv, ViewMatchesStore
<1>8. UploadsKept'
  <2>1. ASSUME NEW r \in Session, pc'[r] = "uploaded"
        PROVE  flush'[r] \in objects'
    <3>1. CASE r = s
      BY <1>6, <2>1, <3>1
    <3>2. CASE r # s
      <4>1. flush[r] \in objects /\ HasId(r) /\ IdOf(r) = flush[r].id
        BY <2>1, <3>2 DEF StoreInv, UploadsKept, HasId, IdOf
      <4>2. flush[r].id # o.id
        BY <1>2, <3>2, <4>1 DEF StoreInv, IdsExclusive
      <4>3. QED
        BY <1>5, <4>1, <4>2
    <3>3. QED
      BY <3>1, <3>2
  <2>2. ASSUME NEW r \in Session, pc'[r] = "merged"
        PROVE  MergedTable(r)' \in objects'
    <3>1. MergedTable(r)' = MergedTable(r)
      BY DEF MergedTable
    <3>2. CASE r = s
      BY <1>6, <2>2, <3>1, <3>2
    <3>3. CASE r # s
      <4>1. /\ MergedTable(r) \in objects
            /\ HasId(r)
            /\ IdOf(r) = MergedTable(r).id
        BY <2>2, <3>3 DEF StoreInv, UploadsKept, HasId, IdOf, MergedTable
      <4>2. MergedTable(r).id # o.id
        BY <1>2, <3>3, <4>1 DEF StoreInv, IdsExclusive
      <4>3. QED
        BY <1>5, <3>1, <4>1, <4>2
    <3>4. QED
      BY <3>2, <3>3
  <2>3. QED
    BY <2>1, <2>2 DEF UploadsKept
<1>9. ListedObjectsExist'
  BY <1>5, <1>6 DEF StoreInv, ListedObjectsExist
<1>10. QED
  BY <1>4, <1>7, <1>8, <1>9 DEF StoreInv, Ids

(* Session s lists its id and is done with it; no object outside the ids   *)
(* in gone is deleted.  The ids of the other sessions stay exclusive, and  *)
(* what they uploaded stays where it is.                                   *)
LEMMA HandOver ==
  ASSUME TypeOK, StoreInv, NEW s \in Session, HasId(s), NEW gone,
         UNCHANGED sstableId,
         \A r \in Session \ {s} :
           /\ pc'[r] = pc[r]
           /\ flush'[r] = flush[r]
           /\ compaction'[r] = compaction[r],
         pc'[s] \in {"idle", "truncate"},
         InUse' \subseteq InUse \cup {IdOf(s)},
         \A x \in objects : x.id \notin gone => x \in objects',
         \A r \in Session : HasId(r) => IdOf(r) \notin gone
  PROVE  IdsExclusive' /\ UploadsKept'
<1>1. \A r \in Session : HasId(r)' => r # s /\ HasId(r) /\ IdOf(r)' = IdOf(r)
  BY DEF HasId, IdOf
<1>2. IdsExclusive'
  <2>1. \A i \in InUse' : i < sstableId'
    BY DEF StoreInv, IdsExclusive
  <2>2. ASSUME NEW r \in Session, HasId(r)'
        PROVE  /\ IdOf(r)' < sstableId'
               /\ IdOf(r)' \notin InUse'
               /\ \A q \in Session : HasId(q)' /\ q # r => IdOf(q)' # IdOf(r)'
    BY <1>1, <2>2 DEF StoreInv, IdsExclusive
  <2>3. ASSUME NEW r \in Session, pc'[r] \in {"compact", "merged"},
               NEW t \in compaction'[r].inputs
        PROVE  /\ t.id < sstableId'
               /\ \A q \in Session : HasId(q)' => IdOf(q)' # t.id
    <3>1. r # s /\ pc[r] \in {"compact", "merged"} /\ t \in compaction[r].inputs
      BY <2>3
    <3>2. QED
      BY <1>1, <3>1 DEF StoreInv, IdsExclusive
  <2>4. QED
    BY <2>1, <2>2, <2>3 DEF IdsExclusive
<1>3. UploadsKept'
  <2>1. ASSUME NEW r \in Session, pc'[r] = "uploaded"
        PROVE  flush'[r] \in objects'
    <3>1. r # s /\ pc[r] = "uploaded" /\ flush'[r] = flush[r]
      BY <2>1
    <3>2. HasId(r) /\ IdOf(r) = flush[r].id /\ flush[r] \in objects
      BY <3>1 DEF StoreInv, UploadsKept, HasId, IdOf
    <3>3. QED
      BY <3>1, <3>2
  <2>2. ASSUME NEW r \in Session, pc'[r] = "merged"
        PROVE  MergedTable(r)' \in objects'
    <3>1. r # s /\ pc[r] = "merged" /\ MergedTable(r)' = MergedTable(r)
      BY <2>2 DEF MergedTable
    <3>2. /\ HasId(r) /\ IdOf(r) = MergedTable(r).id
          /\ MergedTable(r) \in objects
      BY <3>1 DEF StoreInv, UploadsKept, HasId, IdOf, MergedTable
    <3>3. QED
      BY <3>1, <3>2
  <2>3. QED
    BY <2>1, <2>2 DEF UploadsKept
<1>4. QED
  BY <1>2, <1>3

(* commit_flush and commit_compact: session s lists its table o beside the *)
(* tables T it keeps, and deletes no object outside the ids in gone.       *)
LEMMA CommitStep ==
  ASSUME TypeOK, StoreInv, NEW s \in Session, HasId(s),
         NEW o \in objects, o.id = IdOf(s),
         NEW T, T \subseteq sstables, NEW gone,
         UNCHANGED sstableId,
         \A r \in Session \ {s} :
           /\ pc'[r] = pc[r]
           /\ flush'[r] = flush[r]
           /\ compaction'[r] = compaction[r],
         pc'[s] \in {"idle", "truncate"},
         Push(T, o),
         manifest'.ids = Ids(T) \cup {o.id},
         \A x \in objects : x.id \notin gone => x \in objects',
         \A t \in T : t.id \notin gone,
         \A r \in Session : HasId(r) => IdOf(r) \notin gone
  PROVE  StoreInv'
<1>2. PICK p : sstables' = T \cup {[id |-> o.id, data |-> o.data, pos |-> p]}
  BY Zenon DEF Push
<1>6. ViewMatchesStore'
  <2>1. ASSUME NEW t \in T PROVE [id |-> t.id, data |-> t.data] \in objects'
    BY DEF StoreInv, ViewMatchesStore
  <2>2. [id |-> o.id, data |-> o.data] \in objects'
    <3>1. o = [id |-> o.id, data |-> o.data]
      BY DEF TypeOK, Table
    <3>2. QED
      BY <3>1
  <2>3. \A t \in sstables' : t \in T \/ (t.id = o.id /\ t.data = o.data)
    BY <1>2
  <2>4. QED
    BY <2>1, <2>2, <2>3, Zenon DEF ViewMatchesStore
<1>7. manifest'.ids = Ids(sstables)'
  <2>1. Ids(sstables)' = {t.id : t \in sstables'}
    BY DEF Ids
  <2>2. {t.id : t \in sstables'} = {t.id : t \in T} \cup {o.id}
    <3> DEFINE n == [id |-> o.id, data |-> o.data, pos |-> p]
    <3>1. n.id = o.id
      OBVIOUS
    <3>2. sstables' = T \cup {n}
      BY <1>2
    <3> HIDE DEF n
    <3>3. QED
      BY <3>1, <3>2
  <2>3. QED
    BY <2>1, <2>2 DEF Ids
<1>8. InUse' \subseteq InUse \cup {IdOf(s)}
  BY <1>7 DEF InUse, Ids
<1>9. IdsExclusive' /\ UploadsKept'
  BY <1>8, HandOver, Zenon
<1>10. ListedObjectsExist'
  BY <1>6, <1>7, Zenon DEF ListedObjectsExist, ViewMatchesStore, Ids
<1>11. QED
  BY <1>6, <1>7, <1>9, <1>10 DEF StoreInv

(* A CAS that took effect and answered with an error: session s has listed *)
(* its table o beside the tables T and knows nothing of it.                *)
LEMMA UnansweredStep ==
  ASSUME TypeOK, StoreInv, NEW s \in Session, HasId(s),
         NEW o \in objects, o.id = IdOf(s),
         NEW T, T \subseteq sstables,
         UNCHANGED <<sstableId, sstables, objects>>,
         \A r \in Session \ {s} :
           /\ pc'[r] = pc[r]
           /\ flush'[r] = flush[r]
           /\ compaction'[r] = compaction[r],
         pc'[s] = "idle",
         manifest'.ids = Ids(T) \cup {o.id},
         etagStale'
  PROVE  StoreInv'
<1>1. InUse' \subseteq InUse \cup {IdOf(s)}
  BY DEF InUse, Ids
<1>2. IdsExclusive' /\ UploadsKept'
  <2> DEFINE gone == {}
  <2>1. /\ \A x \in objects : x.id \notin gone => x \in objects'
        /\ \A r \in Session : HasId(r) => IdOf(r) \notin gone
    OBVIOUS
  <2> HIDE DEF gone
  <2>2. pc'[s] \in {"idle", "truncate"} /\ UNCHANGED sstableId
    OBVIOUS
  <2>3. QED
    BY <1>1, <2>1, <2>2, HandOver, Zenon
<1>3. ListedObjectsExist'
  <2>1. ASSUME NEW t \in T PROVE \E x \in objects' : x.id = t.id
    <3>1. [id |-> t.id, data |-> t.data] \in objects'
      BY DEF StoreInv, ViewMatchesStore
    <3>2. QED
      BY <3>1
  <2>2. QED
    BY <2>1 DEF ListedObjectsExist, Ids
<1>4. ViewMatchesStore'
  BY DEF StoreInv, ViewMatchesStore
<1>5. QED
  BY <1>2, <1>3, <1>4 DEF StoreInv

(* LsmEngine::open: a crash at any point keeps the store consistent.       *)
LEMMA RestartStore ==
  ASSUME TypeOK, TypeOK', StoreInv, Restart
  PROVE  StoreInv'
<1>1. \A i \in manifest.ids : \E o \in objects : o.id = i
  BY DEF StoreInv, ListedObjectsExist
<1>2. \A r \in Session : pc'[r] = "idle"
  BY DEF Restart
<1>3. sstables' = Loaded /\ UNCHANGED <<objects, manifest>>
  BY DEF Restart
<1>4. \A t \in Loaded : /\ t.id \in manifest.ids
                        /\ [id |-> t.id, data |-> t.data] \in objects
  BY DEF Loaded, TypeOK, Table
<1>5. manifest'.ids = Ids(sstables)'
  <2>1. Ids(sstables)' = {t.id : t \in Loaded}
    BY <1>3 DEF Ids
  <2>2. ASSUME NEW i \in manifest.ids PROVE i \in {t.id : t \in Loaded}
    <3>1. PICK o \in objects : o.id = i
      BY <1>1
    <3>2. [id |-> o.id, data |-> o.data, pos |-> o.id] \in Loaded
      BY <3>1 DEF Loaded
    <3>3. QED
      BY <3>1, <3>2
  <2>3. QED
    BY <1>3, <1>4, <2>1, <2>2, Zenon
<1>6. \A i \in InUse' : i < sstableId'
  <2>1. PICK n \in {0} \cup manifest.ids :
          (\A m \in {0} \cup manifest.ids : m <= n) /\ sstableId' = n + 1
    BY Zenon DEF Restart
  <2>2. {0} \cup manifest.ids \subseteq Nat
    BY DEF TypeOK
  <2>3. ASSUME NEW i \in InUse' PROVE i < sstableId'
    <3>1. i \in manifest.ids
      BY <1>3, <1>5, Zenon DEF InUse
    <3>2. QED
      BY <2>1, <2>2, <3>1
  <2>4. QED
    BY <2>3
<1>7. IdsExclusive' /\ UploadsKept'
  BY <1>2, <1>6 DEF IdsExclusive, UploadsKept, HasId
<1>8. ViewMatchesStore'
  BY <1>3, <1>4, Zenon DEF ViewMatchesStore
<1>9. ListedObjectsExist'
  BY <1>1, <1>3 DEF ListedObjectsExist
<1>10. QED
  BY <1>5, <1>7, <1>8, <1>9 DEF StoreInv

(* begin_flush: freezing the memtable keeps the store consistent.          *)
LEMMA BeginFlushStore ==
  ASSUME TypeOK, StoreInv, NEW s \in Session, BeginFlush(s),
         ~ HasId(s), UNCHANGED <<objects, manifest, etagStale, compaction>>
  PROVE  StoreInv'
<1>1. CASE memtable = {}
  <2>1. UNCHANGED <<flush, sstableId, sstables>> /\ pc' = [pc EXCEPT ![s] = "idle"]
    BY <1>1 DEF BeginFlush, Goto
  <2>2. QED
    BY <2>1, QuietStep DEF TypeOK
<1>2. CASE memtable # {}
  <2>1. /\ flush' = [flush EXCEPT ![s] = [id |-> sstableId, data |-> memtable]]
        /\ sstableId' = sstableId + 1
        /\ pc' = [pc EXCEPT ![s] = "flush"]
        /\ sstables' = sstables
    BY <1>2, Zenon DEF BeginFlush, Goto
  <2>2. flush'[s].id = sstableId /\ pc'[s] = "flush"
    BY <2>1 DEF TypeOK
  <2>3. \A r \in Session \ {s} : /\ pc'[r] = pc[r]
                                 /\ flush'[r] = flush[r]
                                 /\ compaction'[r] = compaction[r]
    BY <2>1 DEF TypeOK
  <2>4. QED
    BY <2>1, <2>2, <2>3, AllocStep
<1>3. QED
  BY <1>1, <1>2

(* commit_flush: listing the uploaded table keeps the store consistent.    *)
LEMMA CommitFlushStore ==
  ASSUME TypeOK, StoreInv, NEW s \in Session, CommitFlush(s)
  PROVE  StoreInv'
<1>1. HasId(s) /\ IdOf(s) = flush[s].id /\ flush[s] \in objects
  BY Zenon DEF CommitFlush, HasId, IdOf, StoreInv, UploadsKept
<1>2. /\ UNCHANGED <<sstableId, objects, compaction>>
      /\ Push(sstables, flush[s])
      /\ manifest'.ids = Ids(sstables) \cup {flush[s].id}
  BY Zenon DEF CommitFlush, NewManifest
<1>3. pc'[s] = "truncate"
  BY DEF CommitFlush, Goto, TypeOK
<1>4. \A r \in Session \ {s} : /\ pc'[r] = pc[r]
                               /\ flush'[r] = flush[r]
                               /\ compaction'[r] = compaction[r]
  BY DEF CommitFlush, Goto, TypeOK
<1> DEFINE gone == {}
<1>5. /\ \A x \in objects : x.id \notin gone => x \in objects'
      /\ \A t \in sstables : t.id \notin gone
      /\ \A r \in Session : HasId(r) => IdOf(r) \notin gone
  BY <1>2
<1> HIDE DEF gone
<1>6. sstables \subseteq sstables
  OBVIOUS
<1>7. QED
  BY <1>1, <1>2, <1>3, <1>4, <1>5, <1>6, CommitStep, ZenonT(30)

(* commit_compact: replacing the consumed tables by the merged one, and    *)
(* deleting them, keeps the store consistent.                              *)
LEMMA CommitCompactStore ==
  ASSUME TypeOK, StoreInv, NEW s \in Session, CommitCompact(s)
  PROVE  StoreInv'
<1> DEFINE gone == Ids(compaction[s].inputs)
           T == {t \in sstables : t.id \notin gone}
           o == MergedTable(s)
<1>1. HasId(s) /\ IdOf(s) = o.id /\ o \in objects
  BY DEF CommitCompact, HasId, IdOf, StoreInv, UploadsKept, MergedTable
<1>2. /\ UNCHANGED <<sstableId, flush>>
      /\ Push(T, o)
      /\ manifest'.ids = Ids(T) \cup {o.id}
  BY DEF CommitCompact, MergedTable, NewManifest, Survivors
<1>3. pc'[s] = "idle"
  BY DEF CommitCompact, Goto, TypeOK
<1>4. \A r \in Session \ {s} : /\ pc'[r] = pc[r]
                               /\ flush'[r] = flush[r]
                               /\ compaction'[r] = compaction[r]
  BY DEF CommitCompact, Goto, TypeOK
<1>5. \A x \in objects : x.id \notin gone => x \in objects'
  BY DEF CommitCompact
<1>6. \A r \in Session : HasId(r) => IdOf(r) \notin gone
  <2>1. pc[s] = "merged"
    BY DEF CommitCompact
  <2>2. QED
    BY <2>1 DEF StoreInv, IdsExclusive, Ids
<1>7. T \subseteq sstables /\ \A t \in T : t.id \notin gone
  OBVIOUS
<1> HIDE DEF gone, T, o
<1>8. QED
  BY <1>1, <1>2, <1>3, <1>4, <1>5, <1>6, <1>7, CommitStep, ZenonT(30)

(* commit_flush or commit_compact without an answer to its CAS.            *)
LEMMA UnansweredStore ==
  ASSUME TypeOK, StoreInv, NEW s \in Session,
         FlushUnanswered(s) \/ CompactUnanswered(s)
  PROVE  StoreInv'
<1>1. CASE FlushUnanswered(s)
  <2>1. HasId(s) /\ IdOf(s) = flush[s].id /\ flush[s] \in objects
    BY <1>1, Zenon DEF FlushUnanswered, HasId, IdOf, StoreInv, UploadsKept
  <2>2. /\ UNCHANGED <<sstableId, sstables, objects>> /\ etagStale'
        /\ manifest'.ids = Ids(sstables) \cup {flush[s].id}
    BY <1>1 DEF FlushUnanswered, NewManifest, view
  <2>3. pc'[s] = "idle"
    BY <1>1 DEF FlushUnanswered, Goto, TypeOK
  <2>4. \A r \in Session \ {s} : /\ pc'[r] = pc[r]
                                 /\ flush'[r] = flush[r]
                                 /\ compaction'[r] = compaction[r]
    BY <1>1 DEF FlushUnanswered, Goto, TypeOK
  <2>5. sstables \subseteq sstables
    OBVIOUS
  <2>6. QED
    BY <2>1, <2>2, <2>3, <2>4, <2>5, UnansweredStep, ZenonT(30)
<1>2. CASE CompactUnanswered(s)
  <2> DEFINE T == Survivors(s)
             o == MergedTable(s)
  <2>1. HasId(s) /\ IdOf(s) = o.id /\ o \in objects
    BY <1>2 DEF CompactUnanswered, HasId, IdOf, StoreInv, UploadsKept,
                MergedTable
  <2>2. /\ UNCHANGED <<sstableId, sstables, objects>> /\ etagStale'
        /\ manifest'.ids = Ids(T) \cup {o.id}
    BY <1>2 DEF CompactUnanswered, NewManifest, MergedTable, view
  <2>3. pc'[s] = "idle"
    BY <1>2 DEF CompactUnanswered, Goto, TypeOK
  <2>4. \A r \in Session \ {s} : /\ pc'[r] = pc[r]
                                 /\ flush'[r] = flush[r]
                                 /\ compaction'[r] = compaction[r]
    BY <1>2 DEF CompactUnanswered, Goto, TypeOK
  <2>5. T \subseteq sstables
    BY DEF Survivors
  <2> HIDE DEF T, o
  <2>6. QED
    BY <2>1, <2>2, <2>3, <2>4, <2>5, UnansweredStep, ZenonT(30)
<1>3. QED
  BY <1>1, <1>2

(* Every step, and every crash, keeps the store consistent.                *)
LEMMA StepStore == TypeOK /\ TypeOK' /\ StoreInv /\ [Next]_vars => StoreInv'
<1> SUFFICES ASSUME TypeOK, TypeOK', StoreInv, [Next]_vars PROVE StoreInv'
  OBVIOUS
<1> USE DEF Goto, view, jobs
<1>0. /\ pc \in [Session -> PC] /\ flush \in [Session -> Table]
      /\ compaction \in
           [Session -> [id : Nat, inputs : SUBSET Table, watermark : Nat]]
      /\ sstableId \in Nat
  BY DEF TypeOK
<1>1. ASSUME NEW s \in Session, NEW f \in Edits,
             WriteBatch(s, f) \/ WriteBatchFails(s, f)
      PROVE  StoreInv'
  <2>1. CASE WriteBatch(s, f)
    BY <1>0, <2>1, QuietStep DEF WriteBatch
  <2>2. CASE WriteBatchFails(s, f)
    BY <1>0, <2>2, QuietStep DEF WriteBatchFails
  <2>3. QED
    BY <1>1, <2>1, <2>2
<1>2. ASSUME NEW s \in Session, NEW v, InsertRow(s, v)
      PROVE  StoreInv'
  <2>1. UNCHANGED <<sstables, objects, manifest, etagStale, sstableId, pc,
                    flush, compaction>>
    BY <1>2, Zenon DEF InsertRow
  <2>2. QED
    BY <1>0, <2>1, QuietStep
<1>3. ASSUME NEW s \in Session, EndWrite(s) PROVE StoreInv'
  <2>1. ~ HasId(s) /\ UNCHANGED <<objects, manifest, etagStale, compaction>>
    BY <1>3 DEF EndWrite, HasId
  <2>2. CASE BeginFlush(s)
    BY <2>1, <2>2, BeginFlushStore
  <2>3. CASE pc' = [pc EXCEPT ![s] = "idle"] /\ UNCHANGED <<view, flush, sstableId>>
    <3>1. \A r \in Session : pc'[r] = "idle" \/ pc'[r] = pc[r]
      BY <1>0, <2>3
    <3>2. sstableId' \in Nat /\ sstableId <= sstableId' /\ sstables' = sstables
      BY <1>0, <2>3
    <3>3. QED
      BY <2>1, <2>3, <3>1, <3>2, QuietStep, Zenon
  <2>4. QED
    BY <1>3, <2>2, <2>3, Zenon DEF EndWrite
<1>4. ASSUME NEW s \in Session, ManualFlush(s) PROVE StoreInv'
  BY <1>4, BeginFlushStore DEF ManualFlush, HasId
<1>5. ASSUME NEW s \in Session, FinishFlush(s) PROVE StoreInv'
  BY <1>0, <1>5, UploadStep DEF FinishFlush
<1>6. ASSUME NEW s \in Session, FlushFails(s) PROVE StoreInv'
  BY <1>0, <1>6, QuietStep DEF FlushFails
<1>7. ASSUME NEW s \in Session, CommitFlush(s) PROVE StoreInv'
  BY <1>7, CommitFlushStore
<1>8. ASSUME NEW s \in Session, TruncateWal(s) PROVE StoreInv'
  <2>1. /\ pc[s] = "truncate"
        /\ UNCHANGED <<sstables, objects, manifest, etagStale, flush>>
    BY <1>8 DEF TruncateWal
  <2>2. CASE BeginCompact(s)
    <3>1. /\ sstableId' = sstableId + 1
          /\ pc'[s] = "compact"
          /\ compaction'[s].id = sstableId
          /\ compaction'[s].inputs =
               {[id |-> t.id, data |-> t.data] : t \in sstables}
      BY <1>0, <2>2 DEF BeginCompact
    <3>2. ASSUME NEW t \in compaction'[s].inputs
          PROVE  \E u \in sstables : u.id = t.id
      <4>1. PICK u \in sstables : t = [id |-> u.id, data |-> u.data]
        BY <3>1, <3>2, Zenon
      <4>2. t.id = u.id
        BY <4>1
      <4>3. QED
        BY <4>2, Zenon
    <3>3. \A r \in Session \ {s} : /\ pc'[r] = pc[r]
                                   /\ flush'[r] = flush[r]
                                   /\ compaction'[r] = compaction[r]
      BY <1>0, <2>1, <2>2 DEF BeginCompact
    <3>4. QED
      BY <2>1, <3>1, <3>2, <3>3, AllocStep
  <2>3. CASE Goto(s, "idle") /\ UNCHANGED <<compaction, sstableId>>
    BY <1>0, <2>1, <2>3, QuietStep
  <2>4. QED
    BY <1>8, <2>2, <2>3 DEF TruncateWal
<1>9. ASSUME NEW s \in Session, TruncateFails(s) PROVE StoreInv'
  BY <1>0, <1>9, QuietStep DEF TruncateFails
<1>10. ASSUME NEW s \in Session, FinishCompact(s) PROVE StoreInv'
  <2>1. MergedTable(s) \in Table
    BY MergeSubset DEF MergedTable, Table, TypeOK
  <2>2. QED
    BY <1>0, <1>10, <2>1, UploadStep DEF FinishCompact
<1>11. ASSUME NEW s \in Session, CompactFails(s) PROVE StoreInv'
  BY <1>0, <1>11, QuietStep DEF CompactFails
<1>12. ASSUME NEW s \in Session, CommitCompact(s) PROVE StoreInv'
  BY <1>12, CommitCompactStore
<1>13. ASSUME NEW s \in Session, BeginRead(s) \/ EndRead(s) PROVE StoreInv'
  <2>1. CASE BeginRead(s)
    BY <1>0, <2>1, QuietStep DEF BeginRead
  <2>2. CASE EndRead(s)
    BY <1>0, <2>2, QuietStep DEF EndRead
  <2>3. QED
    BY <1>13, <2>1, <2>2
<1>14. CASE SnapshotNow
  BY <1>0, <1>14, QuietStep DEF SnapshotNow
<1>15. ASSUME NEW q \in 0 .. U64Max, ReleaseSnapshot(q) PROVE StoreInv'
  BY <1>0, <1>15, QuietStep DEF ReleaseSnapshot
<1>16. CASE LoseLease
  BY <1>0, <1>16, QuietStep DEF LoseLease
<1>17. CASE Restart
  BY <1>17, RestartStore
<1>18. CASE UNCHANGED vars
  BY <1>0, <1>18, QuietStep DEF vars
<1>19. ASSUME NEW s \in Session, FlushUnanswered(s) \/ CompactUnanswered(s)
       PROVE  StoreInv'
  BY <1>19, UnansweredStore
<1>20. QED
  BY <1>1, <1>2, <1>3, <1>4, <1>5, <1>6, <1>7, <1>8, <1>9, <1>10, <1>11,
     <1>12, <1>13, <1>14, <1>15, <1>16, <1>17, <1>18, <1>19, ZenonT(30)
     DEF Next, SessionStep

(* For any number of sessions, any interleaving of flushes, compactions,   *)
(* crashes and failures, lost CAS answers included: ids stay exclusive,    *)
(* uploads survive until they are listed, listed tables are in the store,  *)
(* and what the view holds is what the store holds.                        *)
THEOREM StoreConsistent == Spec => []StoreInv
<1>1. Init => StoreInv
  BY DEF Init, StoreInv, IdsExclusive, UploadsKept, ViewMatchesStore,
         ListedObjectsExist, InUse, Ids, HasId
<1>2. QED
  BY <1>1, StepStore, TypeCorrect, PTL DEF Spec

(* LsmEngine::open and refresh find every SSTable the manifest lists.      *)
THEOREM ManifestLoadable == Spec => []ListedObjectsExist
<1>1. StoreInv => ListedObjectsExist
  BY DEF StoreInv
<1>2. QED
  BY <1>1, StoreConsistent, PTL
=============================================================================
