---------------------------- MODULE MediaProofs ----------------------------
(***************************************************************************)
(* What holds of uploaded media for any uploads, contents, viewers,        *)
(* extractions and faults: only checked content is served, and what is     *)
(* called deleted is gone and stays so.                                    *)
(***************************************************************************)
EXTENDS MediaAssets, TLAPS

\* The upload of u was finalized, whatever became of it since.
Known(u) == meta[u].state \in {"ready", "deleted"}

\* An object is what its metadata says, or is not there; nobody can send bytes
\* again once some were received.
Stored ==
  \A u \in Uploads :
    /\ meta[u].state \in {"none", "deleted"} => bytes[u] = Nothing
    /\ meta[u].state = "ready" => bytes[u] \in {meta[u].content, Nothing}
    /\ grant[u] = "open" => meta[u].state = "uploading" /\ bytes[u] = Nothing

\* A record is of the content that metadata m was finalized with, and says deleted
\* only after the metadata does.
Faithful(m, record) ==
  /\ record.state # "none" => m.state \in {"ready", "deleted"} /\ record.content = m.content
  /\ record.state = "deleted" => m.state = "deleted"

\* Revisions and generations count the steps from ready over deleting to deleted.
Numbered(record) ==
  /\ record.state \in {"none", "ready", "invalid"} => record.revision = 0
  /\ record.state \in {"ready", "invalid"} => record.generation = 1
  /\ record.state = "deleting" => record.revision = 1

Recorded ==
  \A u \in Uploads :
    /\ Faithful(meta[u], assets[u]) /\ Faithful(meta[u], saved[u])
    /\ Numbered(assets[u]) /\ Numbered(saved[u])
    /\ saved[u].state = "deleted" => assets[u].state = "deleted"

\* A job is of the revision its tombstone made, and has something left unless the
\* metadata says deleted.
Remembered ==
  \A u \in Uploads : jobs[u].state # "none" =>
    jobs[u].revision = 1 /\ (jobs[u].left \/ meta[u].state = "deleted")

\* What is converted, or was, is the content of a finalized upload.
Viewed ==
  /\ \A v \in Viewers :
       /\ viewing[v].at # "idle" => viewing[v].asset \in Uploads
       /\ viewing[v].at = "converting" =>
            Known(viewing[v].asset) /\ viewing[v].content = meta[viewing[v].asset].content
  /\ \A k \in previews : Known(k[1]) /\ k[2] = meta[k[1]].content

Extracted == NoOrphans /\ (ext.at = "idle" => ext.mine = {})

IInv == TypeOK /\ Stored /\ Recorded /\ Remembered /\ Viewed /\ Extracted

\* Metadata of a finalized upload only goes from ready to deleted.
Grows ==
  \A u \in Uploads : Known(u) =>
    /\ Known(u)' /\ meta'[u].content = meta[u].content
    /\ meta[u].state = "deleted" => meta'[u].state = "deleted"

-----------------------------------------------------------------------------
\* What one call does to one object, record or job.

LEMMA RemovesObject ==
  ASSUME TypeOK, Stored, NEW u \in Uploads, NEW how \in Removal(u), Known(u), Removes(u, how)
  PROVE  /\ Known(u)' /\ meta'[u].content = meta[u].content
         /\ bytes'[u] \in {bytes[u], Nothing}
         /\ how = "gone" \/ meta[u].state = "deleted" <=> meta'[u].state = "deleted"
         /\ meta'[u].state = "deleted" => bytes'[u] = Nothing
         /\ meta' \in [Uploads -> Meta] /\ bytes' \in [Uploads -> Content]
         /\ \A w \in Uploads \ {u} : meta'[w] = meta[w] /\ bytes'[w] = bytes[w]
<1> DEFINE next == [meta[u] EXCEPT !.state = IF how = "gone" THEN "deleted" ELSE @]
<1>1. meta' = [meta EXCEPT ![u] = next]
  BY DEF Removes, TypeOK
<1>2. /\ next \in Meta /\ next.content = meta[u].content
      /\ next.state = IF how = "gone" THEN "deleted" ELSE meta[u].state
  BY DEF TypeOK, Meta
<1>3. bytes' = [bytes EXCEPT ![u] = IF how = "kept" THEN bytes[u] ELSE Nothing]
  BY DEF Removes, TypeOK
<1>4. how \in {"kept", "emptied", "gone"} /\ (meta[u].state = "deleted" => how = "kept")
  BY DEF Removal
<1> HIDE DEF next
<1>5. QED
  BY <1>1, <1>2, <1>3, <1>4 DEF TypeOK, Stored, Known, Content

LEMMA SwappedRecord ==
  ASSUME NEW a \in Record, NEW s \in {"deleting", "deleted"}, NEW g \in 0..2, NEW n \in 0..1
  PROVE  /\ a.revision # n => CompareAndSwap(a, n, s, g) = a
         /\ a.revision = n =>
              /\ CompareAndSwap(a, n, s, g) \in Record
              /\ CompareAndSwap(a, n, s, g).state = s
              /\ CompareAndSwap(a, n, s, g).content = a.content
              /\ CompareAndSwap(a, n, s, g).generation = g
              /\ CompareAndSwap(a, n, s, g).revision = n + 1
<1>1. a.revision # n => CompareAndSwap(a, n, s, g) = a
  BY DEF CompareAndSwap
<1>2. ASSUME NEW m \in 0..2
      PROVE  LET b == [a EXCEPT !.state = s, !.generation = g, !.revision = m]
             IN  /\ b \in Record /\ b.state = s /\ b.content = a.content
                 /\ b.generation = g /\ b.revision = m
  BY DEF Record
<1>3. a.revision = n => CompareAndSwap(a, n, s, g) = [a EXCEPT !.state = s, !.generation = g, !.revision = n + 1]
  BY DEF CompareAndSwap
<1>4. n + 1 \in 0..2
  OBVIOUS
<1>5. QED
  BY <1>1, <1>2, <1>3, <1>4

\* One pass of a deletion leaves the record as it was, or moves it on, and its job
\* knows what is left.
LEMMA PassedOnce ==
  ASSUME TypeOK, Recorded, Remembered, NEW u \in Uploads, NEW how, Deletable(u),
         HardDelete(u, how),
         how = "gone" \/ meta[u].state = "deleted" <=> meta'[u].state = "deleted"
  PROVE  \E a \in Record, j \in Job :
           /\ assets' = [assets EXCEPT ![u] = a] /\ jobs' = [jobs EXCEPT ![u] = j]
           /\ a.content = assets[u].content /\ a.state # "none" /\ Numbered(a)
           /\ a.state = "deleted" => meta'[u].state = "deleted"
           /\ j.state # "none" /\ j.revision = 1
           /\ j.left \/ meta'[u].state = "deleted"
<1> DEFINE t == Tombstone(u)
           clean == Cleans(t.job, how)
           j == [t.job EXCEPT !.state = IF clean /\ t.asset.revision = t.job.revision
                                        THEN "complete" ELSE "failed",
                              !.left = ~clean]
           a == IF clean THEN CompareAndSwap(t.asset, t.job.revision, "deleted", t.asset.generation)
                ELSE t.asset
<1>1. assets' = [assets EXCEPT ![u] = a] /\ jobs' = [jobs EXCEPT ![u] = j]
  BY DEF HardDelete
<1>2. /\ assets[u] \in Record /\ jobs[u] \in Job
      /\ assets[u].state \in {"ready", "invalid"}
      /\ assets[u].revision = 0 /\ assets[u].generation = 1
  BY DEF TypeOK, Deletable, Record, Recorded, Numbered
<1>3. CASE jobs[u].state # "none"
  <2>1. t.job = jobs[u] /\ t.asset = assets[u] /\ jobs[u].revision = 1
    BY <1>3 DEF Tombstone, Remembered
  <2>2. a = assets[u]
    BY <1>2, <2>1, SwappedRecord
  <2>3. j \in Job /\ j.state # "none" /\ j.revision = 1 /\ j.left = ~clean
    BY <1>2, <2>1 DEF Job
  <2>4. clean => meta'[u].state = "deleted"
    BY <1>3, <2>1 DEF Cleans, Remembered
  <2>5. Numbered(a) /\ a.state \notin {"none", "deleted"} /\ a \in Record
    BY <1>2, <2>2 DEF Recorded
  <2> HIDE DEF a, j, clean, t
  <2>6. QED
    BY <1>1, <2>2, <2>3, <2>4, <2>5
<1>4. CASE jobs[u].state = "none"
  <2>1. /\ t.job = [state |-> "pending", revision |-> 1, left |-> TRUE]
        /\ t.asset = CompareAndSwap(assets[u], 0, "deleting", 2)
    BY <1>2, <1>4 DEF Tombstone, Owned
  <2>2. /\ t.asset \in Record /\ t.asset.state = "deleting" /\ t.asset.revision = 1
        /\ t.asset.content = assets[u].content /\ t.asset.generation = 2
    BY <1>2, <2>1, SwappedRecord
  <2>3. clean <=> how = "gone"
    BY <2>1 DEF Cleans
  <2>4. j \in Job /\ j.state # "none" /\ j.revision = 1 /\ j.left = ~clean
    <3>1. t.job \in Job /\ t.job.revision = 1
      BY <2>1 DEF Job
    <3> HIDE DEF t, clean
    <3>2. QED
      BY <3>1 DEF Job
  <2>5. CASE clean
    <3>1. a = CompareAndSwap(t.asset, 1, "deleted", 2)
      BY <2>1, <2>2, <2>5
    <3>2. /\ a \in Record /\ a.state = "deleted" /\ a.revision = 2 /\ a.content = assets[u].content
      BY <2>2, <3>1, SwappedRecord
    <3>3. Numbered(a)
      BY <3>2 DEF Numbered
    <3> HIDE DEF a, j, clean, t
    <3>4. QED
      BY <1>1, <2>3, <2>4, <2>5, <3>2, <3>3
  <2>6. CASE ~clean
    <3>1. a = t.asset
      BY <2>6
    <3>2. a \in Record /\ a.state = "deleting" /\ a.content = assets[u].content /\ Numbered(a)
      BY <2>2, <3>1 DEF Numbered
    <3> HIDE DEF a, j, clean, t
    <3>3. QED
      BY <1>1, <2>4, <2>6, <3>2
  <2>7. QED
    BY <2>5, <2>6
<1>5. QED
  BY <1>3, <1>4

-----------------------------------------------------------------------------
\* The store.

LEMMA KnownRecords ==
  ASSUME Recorded, TypeOK, NEW u \in Uploads, Deletable(u)
  PROVE  Known(u) /\ assets[u].state \in {"ready", "invalid"}
BY DEF Recorded, Faithful, Known, Deletable, TypeOK, Record

\* A DELETE request changes nothing, or is one pass over the object and its record.
LEMMA Deleting ==
  ASSUME TypeOK, Recorded, NEW u \in Uploads, DeleteAsset(u)
  PROVE  /\ Known(u) /\ Deletable(u) /\ request' = TRUE
         /\ UNCHANGED <<grant, saved, previews, viewing, evidence>>
         /\ \/ UNCHANGED <<store, assets, jobs, count>>
            \/ \E how \in Removal(u) : Removes(u, how) /\ HardDelete(u, how) /\ (NoFault \/ Fault)
<1>1. \A how \in IF Tombstone(u).job.left THEN Removal(u) ELSE {"kept"} : how \in Removal(u)
  BY DEF Removal
<1>2. QED
  BY <1>1, KnownRecords DEF DeleteAsset, Mutation

StoreOK ==
  /\ meta' \in [Uploads -> Meta] /\ bytes' \in [Uploads -> Content]
  /\ grant' \in [Uploads -> {"none", "open", "used", "expired"}]
  /\ Stored' /\ Grows

LEMMA StoreStep ==
  ASSUME TypeOK, Stored, Recorded, [Next]_vars
  PROVE  StoreOK
<1>1. ASSUME UNCHANGED store,
             \A u \in Uploads : grant'[u] = "open" => grant[u] = "open",
             grant' \in [Uploads -> {"none", "open", "used", "expired"}]
      PROVE  StoreOK
  BY <1>1 DEF StoreOK, Stored, Grows, Known, TypeOK, store
<1>2. CASE UNCHANGED <<store, grant>>
  BY <1>1, <1>2 DEF TypeOK
<1>3. ASSUME NEW u \in Uploads, NEW c \in Contents, BeginUpload(u, c)
      PROVE  StoreOK
  <2> DEFINE m == [state |-> "uploading", content |-> c]
  <2>1. /\ m \in Meta /\ meta[u].state = "none" /\ m.state = "uploading"
        /\ meta' = [meta EXCEPT ![u] = m] /\ grant' = [grant EXCEPT ![u] = "open"] /\ bytes' = bytes
    BY <1>3 DEF BeginUpload, Meta, Content
  <2> HIDE DEF m
  <2>2. QED
    BY <2>1 DEF StoreOK, Stored, Grows, Known, TypeOK
<1>4. ASSUME NEW u \in Uploads, NEW c \in Contents, ReceiveUpload(u, c)
      PROVE  StoreOK
  BY <1>4 DEF ReceiveUpload, Receives, StoreOK, Stored, Grows, Known, TypeOK, Content
<1>5. ASSUME NEW u \in Uploads, NEW live \in BOOLEAN, FinalizeUpload(u, live)
      PROVE  StoreOK
  <2> DEFINE m == Finalized(u)
  <2>1. /\ m \in Meta /\ m.content = meta[u].content
        /\ m.state = IF meta[u].state = "uploading" THEN "ready" ELSE meta[u].state
    BY DEF Finalized, Meta, TypeOK
  <2>2. /\ meta' = [meta EXCEPT ![u] = m] /\ grant' = grant /\ bytes' = bytes
        /\ meta[u].state = "uploading" => bytes[u] # Nothing /\ bytes[u] = meta[u].content
    BY <1>5 DEF FinalizeUpload
  <2> HIDE DEF m
  <2>3. QED
    BY <2>1, <2>2 DEF StoreOK, Stored, Grows, Known, TypeOK
<1>6. ASSUME NEW u \in Uploads, NEW how \in Removal(u), Known(u), Removes(u, how),
             grant' = grant \/ grant' = [w \in Uploads |-> "none"]
      PROVE  StoreOK
  <2>1. grant'[u] # "open"
    BY <1>6 DEF Stored, Known
  <2>2. grant' \in [Uploads -> {"none", "open", "used", "expired"}]
    BY <1>6 DEF TypeOK
  <2>3. \A w \in Uploads : grant'[w] = "open" => grant[w] = "open"
    BY <1>6 DEF TypeOK
  <2>4. /\ meta'[u].content = meta[u].content /\ Known(u)'
        /\ bytes'[u] \in {bytes[u], Nothing}
        /\ meta[u].state = "deleted" => meta'[u].state = "deleted"
        /\ meta'[u].state = "deleted" => bytes'[u] = Nothing
        /\ meta' \in [Uploads -> Meta] /\ bytes' \in [Uploads -> Content]
        /\ \A w \in Uploads \ {u} : meta'[w] = meta[w] /\ bytes'[w] = bytes[w]
    BY <1>6, RemovesObject
  <2>5. \A w \in Uploads : Known(w) =>
          Known(w)' /\ meta'[w].content = meta[w].content
            /\ (meta[w].state = "deleted" => meta'[w].state = "deleted")
    BY <2>4 DEF Known
  <2>6. bytes'[u] \in {meta'[u].content, Nothing}
    BY <1>6, <2>4 DEF Stored, Known
  <2>7. Stored'
    BY <2>1, <2>3, <2>4, <2>6 DEF Stored, Known
  <2>8. QED
    BY <2>2, <2>4, <2>5, <2>7 DEF StoreOK, Grows
<1>7. ASSUME NEW u \in Uploads, DeleteAsset(u)
      PROVE  StoreOK
  BY <1>2, <1>6, <1>7, Deleting
<1>8. ASSUME NEW u \in Uploads, CrashInDelete(u)
      PROVE  StoreOK
  BY <1>6, <1>8, KnownRecords DEF CrashInDelete, Restart
<1>9. CASE Crash
  BY <1>1, <1>9 DEF Crash, Restart
<1>10. ASSUME NEW u \in Uploads, Expire(u)
       PROVE  StoreOK
  BY <1>1, <1>10 DEF Expire, TypeOK
<1>11. CASE \/ Save \/ Recheck \/ Publish \/ Extract("thumbnail", "clip") \/ Extract("clip", "recheck")
            \/ \E u \in Uploads : StartExtract(u)
            \/ \E v \in Viewers : \/ TakePreview(v) \/ EndPreview(v) \/ Answered(v)
                                  \/ \E u \in Uploads : StartPreview(v, u)
  BY <1>2, <1>11 DEF Save, Recheck, Publish, Extract, StartExtract, TakePreview, EndPreview, Answered,
    StartPreview, ExtractOnly
<1>12. QED
  BY <1>2, <1>3, <1>4, <1>5, <1>7, <1>8, <1>9, <1>10, <1>11 DEF Next, vars

-----------------------------------------------------------------------------
\* The records and the jobs.

LEMMA FaithfulStays ==
  ASSUME Grows, NEW u \in Uploads, NEW record, Faithful(meta[u], record)
  PROVE  Faithful(meta'[u], record)
BY DEF Faithful, Grows, Known

\* A finalized upload's record, for whatever route finalized it.
LEMMA NewRecord ==
  ASSUME TypeOK, NEW u \in Uploads, NEW state \in {"ready", "invalid"}
  PROVE  /\ Asset(state, meta[u].content) \in Record
         /\ Asset(state, meta[u].content).state = state
         /\ Asset(state, meta[u].content).content = meta[u].content
         /\ Numbered(Asset(state, meta[u].content))
BY DEF Asset, Record, Numbered, TypeOK, Meta

RecordsOK ==
  /\ assets' \in [Uploads -> Record] /\ saved' \in [Uploads -> Record]
  /\ Recorded'

LEMMA RecordsStep ==
  ASSUME IInv, [Next]_vars
  PROVE  RecordsOK
<1>0. TypeOK /\ Stored /\ Recorded /\ Remembered /\ StoreOK /\ Grows
  BY StoreStep DEF IInv, StoreOK
<1>1. ASSUME UNCHANGED <<assets, saved>>
      PROVE  RecordsOK
  BY <1>0, <1>1, FaithfulStays DEF RecordsOK, Recorded, Faithful, Numbered, Known, Grows, TypeOK
<1>2. ASSUME saved' = assets, assets' = assets
      PROVE  RecordsOK
  BY <1>0, <1>2, FaithfulStays DEF RecordsOK, Recorded, Faithful, Numbered, Known, Grows, TypeOK
<1>3. ASSUME assets' = saved, saved' = saved
      PROVE  RecordsOK
  BY <1>0, <1>3, FaithfulStays DEF RecordsOK, Recorded, Faithful, Numbered, Known, Grows, TypeOK
<1>4. ASSUME NEW u \in Uploads, NEW a \in Record, assets' = [assets EXCEPT ![u] = a], saved' = saved,
             Faithful(meta'[u], a), Numbered(a), saved[u].state # "deleted"
      PROVE  RecordsOK
  <2>1. assets'[u] = a /\ \A w \in Uploads \ {u} : assets'[w] = assets[w]
    BY <1>0, <1>4 DEF TypeOK
  <2>2. \A w \in Uploads : Faithful(meta'[w], assets'[w]) /\ Faithful(meta'[w], saved'[w])
    BY <1>0, <1>4, <2>1 DEF Recorded, Faithful, Grows, Known
  <2>3. \A w \in Uploads : Numbered(assets'[w]) /\ Numbered(saved'[w])
    BY <1>0, <1>4, <2>1 DEF Recorded
  <2>4. \A w \in Uploads : saved'[w].state = "deleted" => assets'[w].state = "deleted"
    BY <1>0, <1>4, <2>1 DEF Recorded
  <2>5. assets' \in [Uploads -> Record] /\ saved' \in [Uploads -> Record]
    BY <1>0, <1>4 DEF TypeOK
  <2>6. QED
    BY <2>2, <2>3, <2>4, <2>5 DEF RecordsOK, Recorded, Faithful, Numbered, Known
<1>5. ASSUME NEW u \in Uploads, NEW live \in BOOLEAN, FinalizeUpload(u, live)
      PROVE  RecordsOK
  <2>1. saved' = saved
    BY <1>5 DEF FinalizeUpload
  <2>2. CASE assets' = assets
    BY <1>1, <2>1, <2>2
  <2>3. CASE assets' # assets
    <3>1. PICK state \in {"ready", "invalid"} :
             assets' = [assets EXCEPT ![u] = Asset(state, meta[u].content)] /\ Staged(u)
      BY <1>5, <2>3 DEF FinalizeUpload
    <3>2. Finalized(u).state = "ready" /\ Finalized(u).content = meta[u].content
      BY <1>0, <3>1 DEF Staged, Readable, Finalized, TypeOK, Meta
    <3>3. meta'[u] = Finalized(u)
      BY <1>0, <1>5 DEF FinalizeUpload, TypeOK
    <3>4. meta[u].state # "deleted"
      BY <3>2 DEF Finalized
    <3> DEFINE a == Asset(state, meta[u].content)
    <3>5. a \in Record /\ a.state = state /\ a.content = meta[u].content /\ Numbered(a)
      BY <1>0, NewRecord
    <3>6. saved[u].state # "deleted"
      BY <1>0, <3>4 DEF Recorded, Faithful
    <3>7. Known(u)' /\ meta'[u].content = meta[u].content
      BY <3>2, <3>3 DEF Known
    <3> HIDE DEF a
    <3>8. Faithful(meta'[u], a)
      BY <3>5, <3>7 DEF Faithful, Known
    <3>9. QED
      BY <1>4, <2>1, <3>1, <3>5, <3>6, <3>8 DEF a
  <2>4. QED
    BY <2>2, <2>3
<1>6. ASSUME NEW u \in Uploads, DeleteAsset(u)
      PROVE  RecordsOK
  <2>1. Known(u) /\ Deletable(u) /\ saved' = saved
    BY <1>0, <1>6, Deleting
  <2>2. CASE UNCHANGED <<store, assets, jobs, count>>
    BY <1>1, <2>1, <2>2
  <2>3. ASSUME NEW how \in Removal(u), Removes(u, how), HardDelete(u, how)
        PROVE  RecordsOK
    <3>1. /\ how = "gone" \/ meta[u].state = "deleted" <=> meta'[u].state = "deleted"
          /\ Known(u)' /\ meta'[u].content = meta[u].content
      BY <1>0, <2>1, <2>3, RemovesObject
    <3>2. PICK a \in Record :
             /\ assets' = [assets EXCEPT ![u] = a]
             /\ a.content = assets[u].content /\ Numbered(a)
             /\ a.state = "deleted" => meta'[u].state = "deleted"
      BY <1>0, <2>1, <2>3, <3>1, PassedOnce
    <3>3. assets[u].content = meta[u].content /\ saved[u].state # "deleted"
      BY <1>0, <2>1, KnownRecords DEF Recorded, Faithful
    <3>4. Faithful(meta'[u], a)
      BY <3>1, <3>2, <3>3 DEF Faithful, Known
    <3>5. QED
      BY <1>4, <2>1, <3>2, <3>3, <3>4
  <2>4. QED
    BY <1>0, <1>6, <2>2, <2>3, Deleting
<1>7. CASE Save
  BY <1>1, <1>2, <1>7 DEF Save
<1>8. CASE Publish
  BY <1>1, <1>2, <1>8 DEF Publish
<1>9. CASE Crash \/ \E u \in Uploads : CrashInDelete(u)
  BY <1>3, <1>9 DEF Crash, CrashInDelete, Restart
<1>10. CASE UNCHANGED vars \/ Recheck \/ Extract("thumbnail", "clip") \/ Extract("clip", "recheck")
  BY <1>1, <1>10 DEF vars, Recheck, Extract, ExtractOnly
<1>11. CASE \/ \E u \in Uploads : Expire(u) \/ StartExtract(u)
            \/ \E u \in Uploads, c \in Contents : BeginUpload(u, c) \/ ReceiveUpload(u, c)
            \/ \E v \in Viewers : \/ TakePreview(v) \/ EndPreview(v) \/ Answered(v)
                                  \/ \E u \in Uploads : StartPreview(v, u)
  BY <1>1, <1>11 DEF Expire, StartExtract, BeginUpload, ReceiveUpload, TakePreview, EndPreview,
    Answered, StartPreview, ExtractOnly
<1>12. QED
  BY <1>5, <1>6, <1>7, <1>8, <1>9, <1>10, <1>11 DEF Next

RememberedOK == jobs' \in [Uploads -> Job] /\ Remembered'

LEMMA RememberedStep ==
  ASSUME IInv, [Next]_vars
  PROVE  RememberedOK
<1>0. TypeOK /\ Stored /\ Recorded /\ Remembered /\ Grows
  BY StoreStep DEF IInv, StoreOK
<1>1. ASSUME jobs' = jobs
      PROVE  RememberedOK
  <2>1. \A u \in Uploads : meta[u].state = "deleted" => meta'[u].state = "deleted"
    BY <1>0 DEF Grows, Known
  <2>2. QED
    BY <1>0, <1>1, <2>1 DEF RememberedOK, Remembered, TypeOK
<1>2. ASSUME jobs' = [u \in Uploads |-> NoJob]
      PROVE  RememberedOK
  BY <1>2 DEF RememberedOK, Remembered, NoJob, Job
<1>3. ASSUME NEW u \in Uploads, DeleteAsset(u)
      PROVE  RememberedOK
  <2>1. CASE UNCHANGED <<store, assets, jobs, count>>
    BY <1>1, <2>1
  <2>2. ASSUME NEW how \in Removal(u), Removes(u, how), HardDelete(u, how)
        PROVE  RememberedOK
    <3>1. Known(u) /\ Deletable(u)
      BY <1>0, <1>3, Deleting
    <3>2. /\ how = "gone" \/ meta[u].state = "deleted" <=> meta'[u].state = "deleted"
          /\ \A w \in Uploads \ {u} : meta'[w] = meta[w]
      BY <1>0, <2>2, <3>1, RemovesObject
    <3>3. PICK j \in Job :
            /\ jobs' = [jobs EXCEPT ![u] = j]
            /\ j.revision = 1 /\ (j.left \/ meta'[u].state = "deleted")
      BY <1>0, <2>2, <3>1, <3>2, PassedOnce
    <3>4. QED
      BY <1>0, <3>2, <3>3 DEF RememberedOK, Remembered, TypeOK
  <2>3. QED
    BY <1>0, <1>3, <2>1, <2>2, Deleting
<1>4. CASE Crash \/ \E u \in Uploads : CrashInDelete(u)
  BY <1>2, <1>4 DEF Crash, CrashInDelete, Restart
<1>5. CASE \/ UNCHANGED vars \/ Save \/ Recheck \/ Publish
           \/ Extract("thumbnail", "clip") \/ Extract("clip", "recheck")
  BY <1>1, <1>5 DEF vars, Save, Recheck, Publish, Extract, ExtractOnly
<1>6. CASE \/ \E u \in Uploads : Expire(u) \/ StartExtract(u)
           \/ \E u \in Uploads, live \in BOOLEAN : FinalizeUpload(u, live)
           \/ \E u \in Uploads, c \in Contents : BeginUpload(u, c) \/ ReceiveUpload(u, c)
           \/ \E v \in Viewers : \/ TakePreview(v) \/ EndPreview(v) \/ Answered(v)
                                 \/ \E u \in Uploads : StartPreview(v, u)
  BY <1>1, <1>6 DEF Expire, StartExtract, FinalizeUpload, BeginUpload, ReceiveUpload, TakePreview,
    EndPreview, Answered, StartPreview, ExtractOnly
<1>7. QED
  BY <1>3, <1>4, <1>5, <1>6 DEF Next

-----------------------------------------------------------------------------
\* The previews.

ViewedOK ==
  /\ previews' \subseteq Uploads \X Content /\ viewing' \in [Viewers -> View]
  /\ Viewed'

\* What is converted, or was, stays the content of its metadata.
LEMMA ViewedStays ==
  ASSUME Grows, NEW u \in Uploads, Known(u)
  PROVE  Known(u)' /\ meta'[u].content = meta[u].content
BY DEF Grows

LEMMA ViewedStep ==
  ASSUME IInv, [Next]_vars
  PROVE  ViewedOK
<1>0. TypeOK /\ Stored /\ Viewed /\ Grows
  BY StoreStep DEF IInv, StoreOK
<1>1. \A k \in previews :
        k[1] \in Uploads /\ Known(k[1])' /\ k[2] = meta'[k[1]].content
  BY <1>0, ViewedStays DEF Viewed, TypeOK
<1>2. \A v \in Viewers :
        /\ viewing[v].at # "idle" => viewing[v].asset \in Uploads
        /\ viewing[v].at = "converting" =>
             /\ meta'[viewing[v].asset].state \in {"ready", "deleted"}
             /\ viewing[v].content = meta'[viewing[v].asset].content
  BY <1>0, ViewedStays DEF Viewed, Known
<1>3. ASSUME UNCHANGED <<previews, viewing>>
      PROVE  ViewedOK
  BY <1>0, <1>1, <1>2, <1>3 DEF ViewedOK, Viewed, Known, TypeOK
<1>4. ASSUME previews' = {}, viewing' = [v \in Viewers |-> Idle]
      PROVE  ViewedOK
  BY <1>4 DEF ViewedOK, Viewed, Idle, View, Content
<1>5. ASSUME NEW v \in Viewers, NEW w \in View, viewing' = [viewing EXCEPT ![v] = w],
             w.at # "idle" => w.asset \in Uploads,
             w.at = "converting" => Known(w.asset) /\ w.content = meta[w.asset].content,
             \/ previews' = previews
             \/ viewing[v].at = "converting" /\ previews' = previews \cup {Key(v)}
      PROVE  ViewedOK
  <2>1. viewing' \in [Viewers -> View] /\ viewing'[v] = w
    BY <1>0, <1>5 DEF TypeOK
  <2>2. \A x \in Viewers \ {v} : viewing'[x] = viewing[x]
    BY <1>0, <1>5 DEF TypeOK
  <2>3. w.at = "converting" => w.asset \in Uploads /\ meta'[w.asset].state \in {"ready", "deleted"}
                                 /\ w.content = meta'[w.asset].content
    BY <1>0, <1>5, ViewedStays DEF Known
  <2>4. \A x \in Viewers :
          /\ viewing'[x].at # "idle" => viewing'[x].asset \in Uploads
          /\ viewing'[x].at = "converting" =>
               /\ meta'[viewing'[x].asset].state \in {"ready", "deleted"}
               /\ viewing'[x].content = meta'[viewing'[x].asset].content
    <3> SUFFICES ASSUME NEW x \in Viewers
                 PROVE  /\ viewing'[x].at # "idle" => viewing'[x].asset \in Uploads
                        /\ viewing'[x].at = "converting" =>
                             /\ meta'[viewing'[x].asset].state \in {"ready", "deleted"}
                             /\ viewing'[x].content = meta'[viewing'[x].asset].content
      OBVIOUS
    <3>1. CASE x = v
      BY <1>5, <2>1, <2>3, <3>1
    <3>2. CASE x # v
      BY <1>2, <2>2, <3>2 DEF Known
    <3>3. QED
      BY <3>1, <3>2
  <2>5. viewing[v].at = "converting" =>
          /\ Key(v) \in Uploads \X Content
          /\ meta'[Key(v)[1]].state \in {"ready", "deleted"} /\ Key(v)[2] = meta'[Key(v)[1]].content
    BY <1>0, <1>2 DEF Key, TypeOK, View, Known
  <2>6. /\ previews' \subseteq Uploads \X Content
        /\ \A k \in previews' : meta'[k[1]].state \in {"ready", "deleted"} /\ k[2] = meta'[k[1]].content
    BY <1>0, <1>1, <1>5, <2>5 DEF TypeOK, Known
  <2>7. QED
    BY <2>1, <2>4, <2>6 DEF ViewedOK, Viewed, Known
<1>6. Idle \in View /\ Idle.at = "idle"
  BY DEF Idle, View, Content
<1>7. ASSUME NEW v \in Viewers
      PROVE  /\ viewing[v] \in View
             /\ \A at \in {"waiting", "converting", "served"} :
                  /\ [viewing[v] EXCEPT !.at = at] \in View
                  /\ [viewing[v] EXCEPT !.at = at].at = at
                  /\ [viewing[v] EXCEPT !.at = at].asset = viewing[v].asset
  BY <1>0 DEF TypeOK, View
<1>8. ASSUME NEW v \in Viewers, NEW u \in Uploads, StartPreview(v, u)
      PROVE  ViewedOK
  <2> DEFINE w == [at |-> "waiting", asset |-> u, content |-> assets[u].content]
  <2>1. w \in View /\ w.at = "waiting" /\ w.asset = u
    BY <1>0 DEF View, TypeOK, Record
  <2>2. viewing' = [viewing EXCEPT ![v] = w] /\ previews' = previews
    BY <1>8 DEF StartPreview
  <2> HIDE DEF w
  <2>3. QED
    BY <1>5, <2>1, <2>2
<1>9. ASSUME NEW v \in Viewers, TakePreview(v)
      PROVE  ViewedOK
  <2> DEFINE u == viewing[v].asset
             c == [viewing[v] EXCEPT !.at = "converting", !.content = bytes[u]]
  <2>1. u \in Uploads /\ viewing[v] \in View /\ previews' = previews
    BY <1>0, <1>7, <1>9 DEF Viewed, TakePreview
  <2>2. CASE viewing' = [viewing EXCEPT ![v] = [viewing[v] EXCEPT !.at = "served"]]
    BY <1>5, <1>7, <2>1, <2>2
  <2>3. CASE viewing' = [viewing EXCEPT ![v] = c] /\ Readable(meta[u], u)
    <3>1. bytes[u] \in Content
      BY <1>0, <2>1 DEF TypeOK
    <3>2. c \in View /\ c.at = "converting" /\ c.asset = u /\ c.content = bytes[u]
      BY <2>1, <3>1 DEF View
    <3>3. Known(u) /\ bytes[u] = meta[u].content
      BY <1>0, <2>1, <2>3 DEF Readable, Stored, Known
    <3> HIDE DEF c, u
    <3>4. QED
      BY <1>5, <2>1, <2>3, <3>2, <3>3
  <2>4. CASE viewing' = [viewing EXCEPT ![v] = Idle]
    BY <1>5, <1>6, <2>1, <2>4
  <2>5. QED
    BY <1>9, <2>2, <2>3, <2>4 DEF TakePreview
<1>10. ASSUME NEW v \in Viewers, EndPreview(v)
       PROVE  ViewedOK
  <2> DEFINE s == [viewing[v] EXCEPT !.at = "served"]
  <2>1. s \in View /\ s.at = "served" /\ s.asset = viewing[v].asset
    BY <1>7
  <2>2. viewing[v].at = "converting" /\ viewing[v].asset \in Uploads
    BY <1>0, <1>10 DEF Viewed, EndPreview
  <2>3. \/ viewing' = [viewing EXCEPT ![v] = s] /\ previews' = previews \cup {Key(v)}
        \/ viewing' = [viewing EXCEPT ![v] = Idle] /\ previews' = previews
    BY <1>10 DEF EndPreview
  <2> HIDE DEF s
  <2>4. QED
    BY <1>5, <1>6, <2>1, <2>2, <2>3
<1>11. ASSUME NEW v \in Viewers, Answered(v)
       PROVE  ViewedOK
  BY <1>5, <1>6, <1>11 DEF Answered
<1>12. CASE Crash \/ \E u \in Uploads : CrashInDelete(u)
  BY <1>4, <1>12 DEF Crash, CrashInDelete, Restart
<1>13. CASE \/ UNCHANGED vars \/ Save \/ Recheck \/ Publish
            \/ Extract("thumbnail", "clip") \/ Extract("clip", "recheck")
  BY <1>3, <1>13 DEF vars, Save, Recheck, Publish, Extract, ExtractOnly
<1>14. CASE \/ \E u \in Uploads : Expire(u) \/ StartExtract(u) \/ DeleteAsset(u)
            \/ \E u \in Uploads, live \in BOOLEAN : FinalizeUpload(u, live)
            \/ \E u \in Uploads, c \in Contents : BeginUpload(u, c) \/ ReceiveUpload(u, c)
  BY <1>3, <1>14 DEF Expire, StartExtract, FinalizeUpload, BeginUpload, ReceiveUpload, DeleteAsset,
    ExtractOnly
<1>15. QED
  BY <1>8, <1>9, <1>10, <1>11, <1>12, <1>13, <1>14 DEF Next


-----------------------------------------------------------------------------
\* The evidence, the snapshot's lock and the counters.

ExtractedOK ==
  /\ ext' \in Extraction /\ (ext'.mine \subseteq artifacts')
  /\ (ext'.at = "idle" => ext'.mine = {})
  /\ NoOrphans'

LEMMA CountStep ==
  ASSUME TypeOK, [Next]_vars
  PROVE  request' \in BOOLEAN /\ count' \in [extracts : Nat, faults : Nat]
<1>1. ASSUME NoFault \/ Fault
      PROVE  count' \in [extracts : Nat, faults : Nat]
  BY <1>1 DEF NoFault, Fault, TypeOK
<1>2. ASSUME NEW u \in Uploads, StartExtract(u)
      PROVE  count' \in [extracts : Nat, faults : Nat] /\ request' = request
  BY <1>2 DEF StartExtract, ExtractOnly, TypeOK
<1>3. ASSUME NEW u \in Uploads, DeleteAsset(u)
      PROVE  count' \in [extracts : Nat, faults : Nat] /\ request' = TRUE
  BY <1>1, <1>3 DEF DeleteAsset, Mutation, NoFault
<1>4. CASE \/ UNCHANGED vars \/ Save \/ Recheck \/ Publish \/ Crash
           \/ Extract("thumbnail", "clip") \/ Extract("clip", "recheck")
           \/ \E u \in Uploads : CrashInDelete(u)
  BY <1>1, <1>4 DEF vars, Save, Recheck, Publish, Crash, CrashInDelete, Restart, Extract, Cleanup,
    ExtractOnly, TypeOK, NoFault
<1>5. CASE \/ \E u \in Uploads : Expire(u)
           \/ \E u \in Uploads, live \in BOOLEAN : FinalizeUpload(u, live)
           \/ \E u \in Uploads, c \in Contents : BeginUpload(u, c) \/ ReceiveUpload(u, c)
           \/ \E v \in Viewers : \/ TakePreview(v) \/ EndPreview(v) \/ Answered(v)
                                 \/ \E u \in Uploads : StartPreview(v, u)
  BY <1>5 DEF Expire, FinalizeUpload, BeginUpload, ReceiveUpload, TakePreview, EndPreview,
    Answered, StartPreview, Mutation, TypeOK
<1>6. QED
  BY <1>2, <1>3, <1>4, <1>5 DEF Next, TypeOK

LEMMA ExtractedStep ==
  ASSUME IInv, [Next]_vars
  PROVE  ExtractedOK
<1>0. /\ ext \in Extraction /\ ext.mine \subseteq artifacts /\ count.extracts \in Nat
      /\ (ext.at = "idle" => ext.mine = {})
      /\ NoOrphans
  BY DEF IInv, TypeOK, Extracted
<1>1. ASSUME UNCHANGED evidence
      PROVE  ExtractedOK
  BY <1>0, <1>1 DEF ExtractedOK, NoOrphans, evidence
<1>2. NoExtract \in Extraction /\ NoExtract.mine = {} /\ NoExtract.at = "idle"
  BY DEF NoExtract, Extraction
<1>3. ASSUME ext' = NoExtract, artifacts' = artifacts,
             linked' \cup abandoned' = linked \cup abandoned \cup ext.mine
      PROVE  ExtractedOK
  <2>1. artifacts' \subseteq linked' \cup abandoned'
    BY <1>0, <1>3 DEF NoOrphans
  <2>2. QED
    BY <1>2, <1>3, <2>1 DEF ExtractedOK, NoOrphans
<1>4. CASE Cleanup
  BY <1>0, <1>2, <1>3, <1>4 DEF ExtractedOK, NoOrphans, Cleanup
<1>5. ASSUME NEW next \in {"thumbnail", "clip", "recheck", "built"},
             ext' = [ext EXCEPT !.at = next], UNCHANGED <<artifacts, linked, abandoned>>
      PROVE  ExtractedOK
  <2>1. ext' \in Extraction /\ ext'.mine = ext.mine /\ ext'.at # "idle"
    BY <1>0, <1>5 DEF Extraction
  <2>2. QED
    BY <1>0, <1>5, <2>1 DEF ExtractedOK, NoOrphans
<1>6. ASSUME NEW kind \in {"thumbnail", "clip"}, NEW next \in {"clip", "recheck"}, Extract(kind, next)
      PROVE  ExtractedOK
  <2>1. CASE /\ PutArtifact(kind) /\ UNCHANGED <<linked, abandoned>>
             /\ ext' = [ext EXCEPT !.at = next, !.mine = ext.mine \cup {Mine(kind)}]
    <3>1. Mine(kind) \in Artifact
      BY <1>0 DEF Mine, Artifact
    <3>2. ext.mine \cup {Mine(kind)} \in SUBSET Artifact
      BY <1>0, <3>1 DEF Extraction
    <3>3. ext' \in Extraction /\ ext'.mine = ext.mine \cup {Mine(kind)} /\ ext'.at = next
      BY <1>0, <2>1, <3>2 DEF Extraction
    <3>4. artifacts' = artifacts \cup {Mine(kind)}
      BY <2>1 DEF PutArtifact
    <3>5. QED
      BY <1>0, <2>1, <3>3, <3>4 DEF ExtractedOK, NoOrphans
  <2>2. QED
    BY <1>4, <1>5, <1>6, <2>1 DEF Extract
<1>7. CASE Recheck
  BY <1>4, <1>5, <1>7 DEF Recheck
<1>8. CASE Publish
  BY <1>3, <1>8 DEF Publish
<1>9. CASE Crash \/ \E u \in Uploads : CrashInDelete(u)
  BY <1>3, <1>9 DEF Crash, CrashInDelete, Restart
<1>10. ASSUME NEW u \in Uploads, StartExtract(u)
       PROVE  ExtractedOK
  <2> DEFINE e == [at |-> "thumbnail", source |-> u, mine |-> {}]
  <2>1. e \in Extraction /\ e.mine = {} /\ e.at = "thumbnail"
    BY DEF Extraction
  <2>2. ext' = e /\ UNCHANGED <<artifacts, linked, abandoned>> /\ ext.mine = {}
    BY <1>0, <1>10 DEF StartExtract
  <2> HIDE DEF e
  <2>3. QED
    BY <1>0, <2>1, <2>2 DEF ExtractedOK, NoOrphans
<1>11. CASE UNCHANGED vars \/ Save
  BY <1>1, <1>11 DEF vars, Save
<1>12. CASE \/ \E u \in Uploads : Expire(u) \/ DeleteAsset(u)
            \/ \E u \in Uploads, live \in BOOLEAN : FinalizeUpload(u, live)
            \/ \E u \in Uploads, c \in Contents : BeginUpload(u, c) \/ ReceiveUpload(u, c)
            \/ \E v \in Viewers : \/ TakePreview(v) \/ EndPreview(v) \/ Answered(v)
                                  \/ \E u \in Uploads : StartPreview(v, u)
  BY <1>1, <1>12 DEF Expire, FinalizeUpload, BeginUpload, ReceiveUpload, DeleteAsset, TakePreview,
    EndPreview, Answered, StartPreview
<1>13. QED
  BY <1>6, <1>7, <1>8, <1>9, <1>10, <1>11, <1>12 DEF Next

-----------------------------------------------------------------------------
\* The invariant.

LEMMA InitIInv == Init => IInv
<1> SUFFICES ASSUME Init
             PROVE  IInv
  OBVIOUS
<1>1. NoAsset \in Record /\ NoAsset.state = "none" /\ NoAsset.revision = 0
  BY DEF NoAsset, Record, Content
<1>2. NoJob \in Job /\ NoJob.state = "none"
  BY DEF NoJob, Job
<1>3. Idle \in View /\ Idle.at = "idle"
  BY DEF Idle, View, Content
<1>4. NoExtract \in Extraction /\ NoExtract.mine = {}
  BY DEF NoExtract, Extraction
<1>5. [state |-> "none", content |-> Nothing] \in Meta
  BY DEF Meta, Content
<1>6. TypeOK
  BY <1>1, <1>2, <1>3, <1>4, <1>5 DEF Init, TypeOK, Content
<1>7. Stored /\ Remembered /\ Viewed
  BY <1>2, <1>3 DEF Init, Stored, Remembered, Viewed
<1>8. Recorded
  BY <1>1 DEF Init, Recorded, Faithful, Numbered
<1>9. Extracted
  BY <1>4 DEF Init, Extracted, NoOrphans
<1>10. QED
  BY <1>6, <1>7, <1>8, <1>9 DEF IInv

LEMMA NextIInv == IInv /\ [Next]_vars => IInv'
<1> SUFFICES ASSUME IInv, [Next]_vars
             PROVE  IInv'
  OBVIOUS
<1>1. StoreOK /\ request' \in BOOLEAN /\ count' \in [extracts : Nat, faults : Nat]
  BY StoreStep, CountStep DEF IInv
<1>2. RecordsOK /\ RememberedOK /\ ViewedOK /\ ExtractedOK
  BY RecordsStep, RememberedStep, ViewedStep, ExtractedStep
<1>3. TypeOK'
  BY <1>1, <1>2 DEF TypeOK, StoreOK, RecordsOK, RememberedOK, ViewedOK, ExtractedOK
<1>4. QED
  BY <1>1, <1>2, <1>3 DEF IInv, StoreOK, RecordsOK, RememberedOK, ViewedOK, ExtractedOK, Extracted

LEMMA Invariance == Spec => []IInv
<1>1. QED
  BY InitIInv, NextIInv, PTL DEF Spec

-----------------------------------------------------------------------------
\* Every file, record, job, preview and extraction has its type: no sequence of
\* requests counts a revision or a generation past the two steps of a deletion.
THEOREM TypeCorrect == Spec => []TypeOK
<1>1. IInv => TypeOK
  BY DEF IInv
<1>2. QED
  BY <1>1, Invariance, PTL

\* The file, the sampled frames and the preview of an asset are the content that
\* finalize_upload checked, for any uploads and any order of the requests.
THEOREM ServesChecked == Spec => []ServesWhatWasChecked
<1>1. IInv => ServesWhatWasChecked
  <2> SUFFICES ASSUME IInv
               PROVE  ServesWhatWasChecked
    OBVIOUS
  <2>1. ASSUME NEW u \in Uploads, assets[u].state \in {"ready", "invalid"}
        PROVE  bytes[u] \in {assets[u].content, Nothing}
    BY <2>1 DEF IInv, Recorded, Faithful, Stored
  <2>2. ASSUME NEW u \in Uploads
        PROVE  Served(u) \cup Sampled(u) \subseteq {assets[u].content}
    <3>1. assets[u].state \in {"none", "ready", "invalid", "deleting", "deleted"}
      BY DEF IInv, TypeOK, Record
    <3>2. QED
      BY <2>1, <3>1 DEF Served, Sampled, Readable
  <2>3. QED
    BY <2>2 DEF ServesWhatWasChecked, IInv, Viewed
<1>2. QED
  BY <1>1, Invariance, PTL

\* A record that says deleted, in memory or in the snapshot, has neither bytes nor
\* readable metadata, whichever passes failed and wherever a crash cut one.
THEOREM DeletedAreGone == Spec => []DeletedIsGone
<1>1. IInv => DeletedIsGone
  BY DEF IInv, DeletedIsGone, Recorded, Faithful, Stored
<1>2. QED
  BY <1>1, Invariance, PTL

\* Whatever extraction stored is referred to, in hand, or was given up after a
\* fault.
THEOREM NothingIsOrphaned == Spec => []NoOrphans
<1>1. IInv => NoOrphans
  BY DEF IInv, Extracted
<1>2. QED
  BY <1>1, Invariance, PTL

\* What was deleted stays deleted: only a crash before the save undoes it in memory.
LEMMA DeletionStays ==
  ASSUME IInv, [Next]_vars, NEW u \in Uploads
  PROVE  /\ saved[u].state = "deleted" => saved'[u].state = "deleted" /\ bytes'[u] = Nothing
         /\ assets[u].state = "deleted" /\ count'.faults = count.faults => assets'[u].state = "deleted"
<1>0. Grows /\ Stored'
  BY StoreStep DEF IInv, StoreOK
<1>1. saved' = saved \/ saved' = assets
  BY DEF Next, vars, Save, Recheck, Publish, Crash, CrashInDelete, Restart, Extract, ExtractOnly,
    StartExtract, Expire, DeleteAsset, FinalizeUpload, BeginUpload, ReceiveUpload, TakePreview,
    EndPreview, Answered, StartPreview
<1>2. saved[u].state = "deleted" => saved'[u].state = "deleted"
  BY <1>1 DEF IInv, Recorded
<1>3. saved[u].state = "deleted" => meta'[u].state = "deleted"
  BY <1>0 DEF IInv, Recorded, Faithful, Grows, Known
<1>4. saved[u].state = "deleted" => bytes'[u] = Nothing
  BY <1>0, <1>3 DEF Stored
<1>5. ASSUME Restart
      PROVE  count'.faults # count.faults
  BY <1>5 DEF Restart, Fault, IInv, TypeOK
<1>6. ASSUME NEW w \in Uploads, DeleteAsset(w), assets[u].state = "deleted"
      PROVE  assets'[u].state = "deleted"
  <2>1. Deletable(w) /\ w # u
    BY <1>6, Deleting DEF Deletable, IInv
  <2>2. assets' = assets \/ \E how : HardDelete(w, how)
    BY <1>6, Deleting DEF IInv
  <2>3. assets'[u] = assets[u]
    BY <2>1, <2>2 DEF HardDelete, IInv, TypeOK
  <2>4. QED
    BY <1>6, <2>3
<1>7. ASSUME NEW w \in Uploads, NEW live \in BOOLEAN, FinalizeUpload(w, live),
             assets[u].state = "deleted"
      PROVE  assets'[u].state = "deleted"
  <2>1. meta[u].state = "deleted"
    BY <1>7 DEF IInv, Recorded, Faithful
  <2>2. w = u => ~Staged(w)
    BY <2>1 DEF Staged, Finalized, Readable
  <2>3. QED
    BY <1>7, <2>2 DEF FinalizeUpload, IInv, TypeOK
<1>8. CASE \/ UNCHANGED vars \/ Save \/ Recheck \/ Publish
           \/ Extract("thumbnail", "clip") \/ Extract("clip", "recheck")
           \/ \E w \in Uploads : Expire(w) \/ StartExtract(w)
           \/ \E w \in Uploads, c \in Contents : BeginUpload(w, c) \/ ReceiveUpload(w, c)
           \/ \E v \in Viewers : \/ TakePreview(v) \/ EndPreview(v) \/ Answered(v)
                                 \/ \E w \in Uploads : StartPreview(v, w)
  <2>1. assets' = assets
    BY <1>8 DEF vars, Save, Recheck, Publish, Extract, ExtractOnly, StartExtract, Expire,
      BeginUpload, ReceiveUpload, TakePreview, EndPreview, Answered, StartPreview
  <2>2. QED
    BY <1>2, <1>4, <2>1
<1>9. CASE Crash \/ \E w \in Uploads : CrashInDelete(w)
  BY <1>2, <1>4, <1>5, <1>9 DEF Crash, CrashInDelete
<1>10. QED
  BY <1>2, <1>4, <1>6, <1>7, <1>8, <1>9 DEF Next

\* No repeated finalize or DELETE, failed save or restart brings back a record that
\* was saved as deleted, or its bytes.
THEOREM DeletionsStand == Spec => DeletionStands
<1>1. IInv /\ [Next]_vars =>
        [\A u \in Uploads :
           /\ saved[u].state = "deleted" => saved'[u].state = "deleted" /\ bytes'[u] = Nothing
           /\ assets[u].state = "deleted" /\ count'.faults = count.faults =>
                assets'[u].state = "deleted"]_vars
  BY DeletionStays
<1>2. QED
  BY <1>1, Invariance, PTL DEF Spec, DeletionStands


=============================================================================
