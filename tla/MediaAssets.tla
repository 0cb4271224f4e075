---------------------------- MODULE MediaAssets ----------------------------
(***************************************************************************)
(* Uploaded sources of the local profile: MediaService over                *)
(* FileSystemMediaStore and _MediaRepositoryAdapter, the v1 upload routes, *)
(* the browser previews and the evidence that EvidenceExtractor keeps.     *)
(*                                                                         *)
(* The store's bytes and metadata are files; the asset records are memory  *)
(* that a mutating request saves when it ends (bootstrap.persist_mutations *)
(* lets one such request run at a time); grants, deletion jobs and         *)
(* previews go with the process. Handlers never suspend between these      *)
(* steps except where an action says so. A content stands for size and     *)
(* hash together.                                                          *)
(***************************************************************************)
EXTENDS Naturals, FiniteSets

CONSTANTS
  Uploads,      \* one upload: its grant, its object and its asset
  Contents,     \* what a client may send
  Playable,     \* the contents the decoder can probe
  Long,         \* the contents beyond the live limits
  Viewers,      \* requests for a browser preview
  MaxExtracts,  \* bound: extractions of one run
  MaxFaults,    \* bound: crashes and failed writes
  Nothing       \* no content, no viewer

VARIABLES
  meta,       \* the store's metadata files: [state, content]
  bytes,      \* the store's objects
  grant,      \* upload grants
  assets,     \* the asset records with their revisions
  saved,      \* the records in the snapshot
  jobs,       \* DeletionService's jobs, one per asset
  request,    \* a mutating request is about to save
  previews,   \* the converted previews: <<asset, content>>
  viewing,    \* what each preview request is at
  ext,        \* the extraction in hand
  artifacts,  \* evidence in the store
  linked,     \* evidence that a stored event refers to
  abandoned,  \* evidence nobody refers to and nobody removes
  count       \* extractions and faults so far

store == <<meta, bytes>>
evidence == <<ext, artifacts, linked, abandoned>>
vars == <<store, grant, assets, saved, jobs, request, previews, viewing, evidence, count>>

NoAsset == [state |-> "none", content |-> Nothing, generation |-> 0, revision |-> 0]
Asset(state, content) == [state |-> state, content |-> content, generation |-> 1, revision |-> 0]
NoJob == [state |-> "none", revision |-> 0, left |-> FALSE]
Idle == [at |-> "idle", asset |-> Nothing, content |-> Nothing]
NoExtract == [at |-> "idle", source |-> Nothing, mine |-> {}]

Init ==
  /\ meta = [u \in Uploads |-> [state |-> "none", content |-> Nothing]]
  /\ bytes = [u \in Uploads |-> Nothing]
  /\ grant = [u \in Uploads |-> "none"]
  /\ assets = [u \in Uploads |-> NoAsset]
  /\ saved = assets
  /\ jobs = [u \in Uploads |-> NoJob]
  /\ request = FALSE
  /\ previews = {}
  /\ viewing = [v \in Viewers |-> Idle]
  /\ ext = NoExtract
  /\ artifacts = {} /\ linked = {} /\ abandoned = {}
  /\ count = [extracts |-> 0, faults |-> 0]

Fault == /\ count.faults < MaxFaults
         /\ count' = [count EXCEPT !.faults = @ + 1]
NoFault == count' = count

(***************************************************************************)
(* A mutating request holds the snapshot's lock until its records are      *)
(* saved, or the save fails and the client is told to try again.           *)
(***************************************************************************)
Mutation == ~request /\ request' = TRUE

Save ==
  /\ request /\ request' = FALSE
  /\ \/ saved' = assets /\ NoFault
     \/ saved' = saved /\ Fault
  /\ UNCHANGED <<store, grant, assets, jobs, previews, viewing, evidence>>

BeginUpload(u, c) ==
  /\ Mutation
  /\ meta[u].state = "none"
  /\ meta' = [meta EXCEPT ![u] = [state |-> "uploading", content |-> c]]
  /\ grant' = [grant EXCEPT ![u] = "open"]
  /\ UNCHANGED <<bytes, assets, saved, jobs, previews, viewing, evidence, count>>

\* The clock passes the end of a grant.
Expire(u) ==
  /\ grant[u] \in {"open", "used"}
  /\ grant' = [grant EXCEPT ![u] = "expired"]
  /\ UNCHANGED <<store, assets, saved, jobs, request, previews, viewing, evidence, count>>

\* Mutant: the grant of an upload that was received can be used again.
ReceivesAgain(u) == grant[u] \in {"open", "used"}

Receives(u) == grant[u] = "open"

ReceiveUpload(u, c) ==
  /\ Mutation
  /\ Receives(u)
  /\ bytes' = [bytes EXCEPT ![u] = c]
  /\ grant' = [grant EXCEPT ![u] = "used"]
  /\ UNCHANGED <<meta, assets, saved, jobs, previews, viewing, evidence, count>>

\* What finalize_upload makes of the metadata: a repeated call finds it as it is.
Finalized(u) ==
  IF meta[u].state = "uploading" THEN [meta[u] EXCEPT !.state = "ready"] ELSE meta[u]

\* issue_read_grant and read: the store's objects can be read while the metadata
\* says ready.
Readable(m, u) == m.state = "ready" /\ bytes[u] # Nothing

\* Mutant: the bytes are looked at only when the upload is finalized first.
StagedOnce(u) ==
  \/ meta[u].state # "uploading"
  \/ Readable(Finalized(u), u)

\* _stage_bytes reads the object back for the decoder.
Staged(u) == Readable(Finalized(u), u)

\* finalize_upload of the media routes, and of the v1 routes when live: those
\* overwrite the record of a source beyond the limits.
FinalizeUpload(u, live) ==
  /\ Mutation
  /\ grant[u] \in {"open", "used"}
  /\ meta[u].state = "uploading" => bytes[u] # Nothing /\ bytes[u] = meta[u].content
  /\ meta' = [meta EXCEPT ![u] = Finalized(u)]
  /\ LET c == meta[u].content IN
     assets' = IF Staged(u) /\ c \in Playable
               THEN [assets EXCEPT ![u] = Asset(IF live /\ c \in Long THEN "invalid" ELSE "ready", c)]
               ELSE assets
  /\ UNCHANGED <<bytes, grant, saved, jobs, previews, viewing, evidence, count>>

(***************************************************************************)
(* DELETE: tombstone, then hard_delete. A job the service remembers is     *)
(* taken up again as it is, without a second tombstone.                    *)
(***************************************************************************)
Deletable(u) == assets[u].state \notin {"none", "deleting", "deleted"}

\* compare_and_swap of the records' adapter.
CompareAndSwap(asset, revision, state, generation) ==
  IF asset.revision # revision THEN asset
  ELSE [asset EXCEPT !.state = state, !.generation = generation, !.revision = revision + 1]

\* get_owned: what DeletionService is given of a record.
Owned(u) == [revision |-> assets[u].revision, generation |-> assets[u].generation]

Tombstone(u) ==
  IF jobs[u].state # "none" THEN [job |-> jobs[u], asset |-> assets[u]]
  ELSE LET current == Owned(u) IN
       [job |-> [state |-> "pending", revision |-> current.revision + 1, left |-> TRUE],
        asset |-> CompareAndSwap(assets[u], current.revision, "deleting", current.generation + 1)]

\* delete_artifact: "kept" nothing was done, "emptied" the metadata could not be
\* written after the bytes went, "gone" both.
Removal(u) == IF meta[u].state = "deleted" THEN {"kept"} ELSE {"kept", "emptied", "gone"}
Removes(u, how) ==
  /\ bytes' = [bytes EXCEPT ![u] = IF how = "kept" THEN @ ELSE Nothing]
  /\ meta' = [meta EXCEPT ![u].state = IF how = "gone" THEN "deleted" ELSE @]

\* Mutant: the job is complete when nothing raised but the first error.
CompleteAnyway(job, how) == TRUE

\* Whether a pass leaves nothing to clean up.
Cleans(job, how) == ~job.left \/ how = "gone"

HardDelete(u, how) ==
  LET t == Tombstone(u)
      clean == Cleans(t.job, how)
      current == t.asset.revision = t.job.revision
  IN /\ jobs' = [jobs EXCEPT ![u] =
                   [t.job EXCEPT !.state = IF clean /\ current THEN "complete" ELSE "failed",
                                 !.left = ~clean]]
     /\ assets' = [assets EXCEPT ![u] =
                     IF clean THEN CompareAndSwap(t.asset, t.job.revision, "deleted",
                                                  t.asset.generation)
                     ELSE t.asset]

DeleteAsset(u) ==
  /\ Mutation
  /\ Deletable(u)
  /\ \/ /\ jobs[u].state = "complete"
        /\ UNCHANGED <<store, assets, jobs, count>>
     \/ /\ jobs[u].state # "complete"
        /\ \E how \in IF Tombstone(u).job.left THEN Removal(u) ELSE {"kept"} :
             /\ IF how = "gone" \/ ~Tombstone(u).job.left \/ meta[u].state = "deleted"
                THEN NoFault ELSE Fault
             /\ Removes(u, how)
             /\ HardDelete(u, how)
  /\ UNCHANGED <<grant, saved, previews, viewing, evidence>>

(***************************************************************************)
(* read_preview: the record is checked, then the request waits for the     *)
(* one conversion at a time, which may take minutes.                       *)
(***************************************************************************)
StartPreview(v, u) ==
  /\ viewing[v].at = "idle"
  /\ assets[u].state = "ready"
  /\ viewing' = [viewing EXCEPT ![v] = [at |-> "waiting", asset |-> u, content |-> assets[u].content]]
  /\ UNCHANGED <<store, grant, assets, saved, jobs, request, previews, evidence, count>>

Key(v) == <<viewing[v].asset, viewing[v].content>>
Converting == {v \in Viewers : viewing[v].at = "converting"}

\* The lock is free: serve what is there, or stage the bytes and convert.
TakePreview(v) ==
  /\ viewing[v].at = "waiting"
  /\ Converting = {}
  /\ LET u == viewing[v].asset IN
     viewing' = [viewing EXCEPT ![v] =
       IF Key(v) \in previews THEN [@ EXCEPT !.at = "served"]
       ELSE IF Readable(meta[u], u)
            THEN [@ EXCEPT !.at = "converting", !.content = bytes[u]]
            ELSE Idle]
  /\ UNCHANGED <<store, grant, assets, saved, jobs, request, previews, evidence, count>>

\* ffmpeg ends, fails, or is killed after its time or by a cancellation.
EndPreview(v) ==
  /\ viewing[v].at = "converting"
  /\ \/ /\ previews' = previews \cup {Key(v)}
        /\ viewing' = [viewing EXCEPT ![v].at = "served"]
     \/ /\ previews' = previews
        /\ viewing' = [viewing EXCEPT ![v] = Idle]
  /\ UNCHANGED <<store, grant, assets, saved, jobs, request, evidence, count>>

Answered(v) ==
  /\ viewing[v].at = "served"
  /\ viewing' = [viewing EXCEPT ![v] = Idle]
  /\ UNCHANGED <<store, grant, assets, saved, jobs, request, previews, evidence, count>>

\* read_media: the file of a record that is not deleted, straight from the disk.
Served(u) ==
  IF assets[u].state \in {"none", "deleting", "deleted"} THEN {} ELSE {bytes[u]} \ {Nothing}

\* samples: the frames of a staged copy.
Sampled(u) == IF assets[u].state = "ready" /\ Readable(meta[u], u) THEN {bytes[u]} ELSE {}

(***************************************************************************)
(* EvidenceExtractor over a staged copy of the source. The calls of the    *)
(* media store are awaits of the port.                                     *)
(***************************************************************************)
Fresh(u) == meta[u].state = "ready"
Mine(kind) == <<count.extracts, kind>>
PutArtifact(kind) == artifacts' = artifacts \cup {Mine(kind)}
ExtractOnly == UNCHANGED <<store, grant, assets, saved, jobs, request, previews, viewing>>

StartExtract(u) ==
  /\ ext.at = "idle" /\ count.extracts < MaxExtracts
  /\ assets[u].state = "ready" /\ assets[u].generation = 1
  /\ Fresh(u)
  /\ ext' = [at |-> "thumbnail", source |-> u, mine |-> {}]
  /\ count' = [count EXCEPT !.extracts = @ + 1]
  /\ UNCHANGED <<artifacts, linked, abandoned>>
  /\ ExtractOnly

\* _cleanup: what cannot be removed is given up.
Cleanup ==
  /\ ext' = NoExtract
  /\ \/ /\ artifacts' = artifacts \ ext.mine
        /\ abandoned' = abandoned /\ NoFault
     \/ /\ ext.mine # {} /\ artifacts' = artifacts
        /\ abandoned' = abandoned \cup ext.mine /\ Fault
  /\ UNCHANGED linked

\* A picture or a clip is stored, the decoder has none, or the store refuses it.
Extract(kind, next) ==
  /\ ext.at = kind
  /\ \/ /\ PutArtifact(kind)
        /\ ext' = [ext EXCEPT !.at = next, !.mine = @ \cup {Mine(kind)}]
        /\ UNCHANGED <<linked, abandoned, count>>
     \/ /\ ext' = [ext EXCEPT !.at = next]
        /\ UNCHANGED <<artifacts, linked, abandoned, count>>
     \/ Cleanup
  /\ ExtractOnly

\* Mutant: a source that went away ends the extraction, and leaves what it stored.
RecheckOnly ==
  /\ ext.at = "recheck"
  /\ ext' = IF Fresh(ext.source) THEN [ext EXCEPT !.at = "built"] ELSE NoExtract
  /\ UNCHANGED <<artifacts, linked, abandoned, count>>
  /\ ExtractOnly

\* Fence 2.
Recheck ==
  /\ ext.at = "recheck"
  /\ \/ /\ Fresh(ext.source)
        /\ ext' = [ext EXCEPT !.at = "built"]
        /\ UNCHANGED <<artifacts, linked, abandoned, count>>
     \/ ~Fresh(ext.source) /\ Cleanup
  /\ ExtractOnly

\* publish: the sink saves the event with its evidence, or refuses it.
Publish ==
  /\ ext.at = "built" /\ ~request
  /\ ext' = NoExtract
  /\ \/ /\ linked' = linked \cup ext.mine
        /\ saved' = assets
        /\ UNCHANGED <<abandoned, count>>
     \/ /\ abandoned' = abandoned \cup ext.mine
        /\ Fault
        /\ UNCHANGED <<linked, saved>>
  /\ UNCHANGED <<store, grant, assets, jobs, request, previews, viewing, artifacts>>

(***************************************************************************)
(* A crash. In the middle of a DELETE it may come after the bytes went, or *)
(* after the metadata was written too; the records are those of the last   *)
(* save.                                                                   *)
(***************************************************************************)
Restart ==
  /\ Fault
  /\ grant' = [u \in Uploads |-> "none"]
  /\ assets' = saved
  /\ jobs' = [u \in Uploads |-> NoJob]
  /\ request' = FALSE
  /\ previews' = {}
  /\ viewing' = [v \in Viewers |-> Idle]
  /\ ext' = NoExtract
  /\ abandoned' = abandoned \cup ext.mine
  /\ UNCHANGED <<saved, artifacts, linked>>

Crash == Restart /\ UNCHANGED store

CrashInDelete(u) ==
  /\ Restart
  /\ ~request /\ Deletable(u)
  /\ \E how \in Removal(u) \ {"kept"} : Removes(u, how)

Next ==
  \/ Save \/ Crash \/ Recheck \/ Publish
  \/ Extract("thumbnail", "clip") \/ Extract("clip", "recheck")
  \/ \E u \in Uploads :
       \/ Expire(u) \/ DeleteAsset(u) \/ CrashInDelete(u) \/ StartExtract(u)
       \/ \E live \in BOOLEAN : FinalizeUpload(u, live)
       \/ \E c \in Contents : BeginUpload(u, c) \/ ReceiveUpload(u, c)
  \/ \E v \in Viewers :
       \/ TakePreview(v) \/ EndPreview(v) \/ Answered(v)
       \/ \E u \in Uploads : StartPreview(v, u)

Spec == Init /\ [][Next]_vars

-----------------------------------------------------------------------------
Content == Contents \cup {Nothing}
Meta == [state : {"none", "uploading", "ready", "deleted"}, content : Content]
Record == [state : {"none", "ready", "invalid", "deleting", "deleted"}, content : Content,
           generation : 0..2, revision : 0..2]
Job == [state : {"none", "pending", "failed", "complete"}, revision : 0..2, left : BOOLEAN]
View == [at : {"idle", "waiting", "converting", "served"}, asset : Uploads \cup {Nothing},
         content : Content]
Artifact == Nat \X {"thumbnail", "clip"}
Extraction == [at : {"idle", "thumbnail", "clip", "recheck", "built"},
               source : Uploads \cup {Nothing}, mine : SUBSET Artifact]

TypeOK ==
  /\ meta \in [Uploads -> Meta] /\ bytes \in [Uploads -> Content]
  /\ grant \in [Uploads -> {"none", "open", "used", "expired"}]
  /\ assets \in [Uploads -> Record] /\ saved \in [Uploads -> Record]
  /\ jobs \in [Uploads -> Job] /\ request \in BOOLEAN
  /\ previews \subseteq Uploads \X Content /\ viewing \in [Viewers -> View]
  /\ ext \in Extraction /\ ext.mine \subseteq artifacts
  /\ count \in [extracts : Nat, faults : Nat]

\* Whoever is given media of an asset, as the file, as sample frames, as a preview
\* that is there or as one that is being made, is given the content that was
\* checked when the upload was finalized, whatever is sent to the store before or
\* after.
ServesWhatWasChecked ==
  /\ \A u \in Uploads : Served(u) \cup Sampled(u) \subseteq {assets[u].content}
  /\ \A k \in previews : k[2] = meta[k[1]].content

\* An asset whose deletion was completed stays deleted while the process lives,
\* and once that was saved for ever: a repeated finalize, a repeated DELETE, a
\* failed save or a restart bring neither the record nor the bytes back.
DeletionStands ==
  [][\A u \in Uploads :
       /\ saved[u].state = "deleted" => saved'[u].state = "deleted" /\ bytes'[u] = Nothing
       /\ assets[u].state = "deleted" /\ count'.faults = count.faults => assets'[u].state = "deleted"
    ]_vars

\* An asset says deleted only when neither bytes nor a readable object are left of
\* it, in memory and in the snapshot, however many passes failed before.
DeletedIsGone ==
  \A u \in Uploads :
    "deleted" \in {assets[u].state, saved[u].state} => bytes[u] = Nothing /\ meta[u].state = "deleted"

\* Every artifact in the store is referred to by a stored event or by the
\* extraction in hand; only a crash, a refused event or a failed removal leaves
\* one behind.
NoOrphans == artifacts \subseteq linked \cup ext.mine \cup abandoned

=============================================================================
