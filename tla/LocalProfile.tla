---------------------------- MODULE LocalProfile ----------------------------
(***************************************************************************)
(* The local profile of bootstrap.py: requests, one worker per submitted   *)
(* run, and a snapshot file that holds everything a restart brings back.   *)
(*                                                                         *)
(* Every change is made inside snapshot.transaction(), which one task has  *)
(* at a time, and ends with checkpoint(): a transaction is therefore one   *)
(* step, taken on the memory, whose save either replaces the file (saved)  *)
(* or raises and leaves the file as it was. The memory keeps the change in *)
(* both cases.                                                             *)
(***************************************************************************)
EXTENDS FiniteSetsExt, JobRecords

CONSTANTS
  Runs,         \* run ids
  Keys,         \* idempotency keys; V1 makes a new one for every request
  NoKey,
  MaxSequence,  \* bound: running progress updates an engine emits
  MaxMishaps    \* bound: saves that fail and restarts, together

ASSUME LocalProfileAssumption ==
  /\ NoKey \notin Keys
  /\ LeaseTime \in Nat \ {0}
  /\ MaxSequence \in Nat
  /\ MaxMishaps \in Nat

VARIABLES
  mem,          \* what the repositories hold: [job, run]
  disk,         \* the snapshot that is installed
  worker,       \* the task of each run
  invocations,  \* len(_by_run): the executor's submissions since the start
  told,         \* what clients were answered with success
  mishaps       \* saves that failed and restarts so far

vars == <<mem, disk, worker, invocations, told, mishaps>>

\* One event stands for the events of a run; revision -1: not published yet.
NoEvent == [revision |-> -1, reviewed |-> FALSE, evidence |-> "none"]

\* The repository's side of a run: document, idempotency key, fence, active and
\* selected attempt, progress and event. One worker claims a run once, so an
\* attempt id is represented by the fence it is claimed with.
NoRunDoc ==
  [exists |-> FALSE, key |-> NoKey, fence |-> 0, active |-> None, selected |-> None,
   progress |-> {}, event |-> NoEvent]

NoWorker == [at |-> "none", invocation |-> None, attempt |-> None, fence |-> 0,
             sequence |-> 0, phase |-> "running", cancelled |-> FALSE]

Empty == [job |-> [r \in Runs |-> Absent], run |-> [r \in Runs |-> NoRunDoc]]

LastSequence(updates, a) ==
  Max({u.sequence : u \in {v \in updates : v.attempt = a}} \cup {-1})

-----------------------------------------------------------------------------
(* InMemoryRepository                                                       *)

ClaimAttempt(doc, a, f) ==
  [doc EXCEPT !.fence = Max({f, @ + 1}), !.active = a]

\* commit_event and commit_progress drop the write of anyone but the active
\* attempt at the current fence; the sink does not look at the answer.
Accepts(doc, a, f) == doc.active = a /\ f >= doc.fence

CommitProgress(doc, a, f, n, phase) ==
  IF ~Accepts(doc, a, f) THEN doc
  ELSE [doc EXCEPT !.fence = f,
          !.progress = {u \in @ : ~(u.attempt = a /\ u.sequence = n)}
                         \cup {[attempt |-> a, sequence |-> n, phase |-> phase]}]

\* The stored document is replaced, its review with it.
CommitEvent(doc, a, f, evidence) ==
  IF ~Accepts(doc, a, f) THEN doc
  ELSE [doc EXCEPT !.fence = f,
          !.event = [revision |-> 0, reviewed |-> FALSE, evidence |-> evidence]]

FinalizeRun(doc, a) == IF doc.active = a THEN [doc EXCEPT !.selected = a] ELSE doc

-----------------------------------------------------------------------------
(* LocalStateSnapshot                                                       *)

\* A gated transaction that leaves the memory as m.
Save(m, saved) ==
  /\ mem' = m
  /\ IF saved THEN disk' = m /\ UNCHANGED mishaps
     ELSE mishaps < MaxMishaps /\ mishaps' = mishaps + 1 /\ UNCHANGED disk

\* Mutant: the client is told before the save is known.
AnswerUnsaved(what, saved) == told' = told \cup {what}

Answer(what, saved) == told' = IF saved THEN told \cup {what} ELSE told

\* Mutant: the interrupted attempt is not selected.
InterruptUnselected(job, doc) ==
  LET failed == [job EXCEPT !.state = "failed", !.expires = None, !.fence = @ + 1]
      attempt == IF job.attempt # None THEN job.attempt ELSE doc.active
      n == Max({job.progress, LastSequence(doc.progress, attempt)}) + 1 IN
  IF job.state \in Terminal \cup {"absent"} THEN [job |-> job, run |-> doc]
  ELSE [job |-> failed,
        run |-> [doc EXCEPT !.active = None, !.fence = Max({@ + 1, failed.fence})]]

\* _interrupt, for one run: a job that was under way becomes failed, its attempt
\* is fenced out and selected, and its progress ends with a failed update. A run
\* without a job counts as queued.
InterruptRun(job, doc) ==
  LET known == IF job.state = "absent" /\ doc.exists /\ doc.selected = None
               THEN [job EXCEPT !.state = "queued", !.attempt = doc.active] ELSE job
      attempt == IF known.attempt # None THEN known.attempt ELSE doc.active
      n == Max({known.progress, LastSequence(doc.progress, attempt)}) + 1
      published == doc.exists /\ attempt # None
      failed == [known EXCEPT !.state = "failed", !.expires = None, !.fence = @ + 1,
                              !.progress = IF published THEN n ELSE @]
      fenced == [doc EXCEPT !.active = None, !.fence = Max({@ + 1, failed.fence})] IN
  IF known.state \in Terminal \cup {"absent"} THEN [job |-> known, run |-> doc]
  ELSE [job |-> failed,
        run |-> IF ~published THEN fenced
                ELSE [fenced EXCEPT !.selected = attempt,
                        !.progress = @ \cup {[attempt |-> attempt, sequence |-> n,
                                              phase |-> "failed"]}]]

Interrupted(m) ==
  [job |-> [r \in Runs |-> InterruptRun(m.job[r], m.run[r]).job],
   run |-> [r \in Runs |-> InterruptRun(m.job[r], m.run[r]).run]]

-----------------------------------------------------------------------------
Init ==
  /\ mem = Empty
  /\ disk = Empty
  /\ worker = [r \in Runs |-> NoWorker]
  /\ invocations = 0
  /\ told = {}
  /\ mishaps = 0

\* _LocalRunRepository.create: the record of a new run.
Created(run, k) == [run EXCEPT !.exists = TRUE, !.key = k]

\* _LocalJobExecutor.submit: the worker's task and the number of its invocation.
Submit(id) == [NoWorker EXCEPT !.at = "claim", !.invocation = id]

\* POST runs: create the run, its job, and dispatch it, in one transaction. The
\* worker's task starts now and waits for the gate.
StartRun(k, r, saved) ==
  /\ \A q \in Runs : mem.run[q].key # k
  /\ ~mem.run[r].exists
  /\ Save([mem EXCEPT !.run[r] = Created(@, k),
                      !.job[r] = Submitted([Absent EXCEPT !.state = "dispatching"],
                                           invocations + 1)], saved)
  /\ invocations' = invocations + 1
  /\ worker' = [worker EXCEPT ![r] = Submit(invocations + 1)]
  /\ Answer([about |-> "start", key |-> k, run |-> r], saved)

\* The same key again: the run that has it. dispatch refuses a terminal run, and
\* the request fails.
ReplayStart(k, saved) ==
  \E r \in Runs :
    /\ mem.run[r].key = k
    /\ Save(mem, saved)
    /\ IF mem.job[r].state \in Terminal THEN UNCHANGED told
       ELSE Answer([about |-> "start", key |-> k, run |-> r], saved)
    /\ UNCHANGED <<worker, invocations>>

\* POST runs/{run}/cancel: whatever the state, and the executor is told to cancel
\* the invocation the record names.
CancelRun(r, saved) ==
  LET id == mem.job[r].invocation IN
  /\ mem.run[r].exists
  /\ Save([mem EXCEPT !.job[r] = CancelledAt(@, 0)], saved)
  /\ worker' = [q \in Runs |-> IF id # None /\ worker[q].invocation = id
                               THEN [worker[q] EXCEPT !.cancelled = TRUE] ELSE worker[q]]
  /\ Answer([about |-> "cancel", key |-> NoKey, run |-> r], saved)
  /\ UNCHANGED invocations

\* POST events/{event}/review: V1 reviews the revision it just read.
ReviewEvent(r, saved) ==
  /\ mem.run[r].event.revision >= 0 /\ ~mem.run[r].event.reviewed
  /\ Save([mem EXCEPT !.run[r].event = [revision |-> @.revision + 1, reviewed |-> TRUE,
                                        evidence |-> @.evidence]], saved)
  /\ UNCHANGED <<worker, invocations, told>>

\* A heartbeat, a builder turn, or any other mutating request: it saves what is
\* there. A lease that a heartbeat renews is looked at by nobody else here.
Checkpoint ==
  /\ disk' = mem
  /\ UNCHANGED <<mem, worker, invocations, told, mishaps>>

-----------------------------------------------------------------------------
(* The worker                                                               *)

\* The lease is known before the transaction is saved, so a save that fails goes
\* to the failure handler.
Claim(r, saved) ==
  LET id == mem.job[r].fence + 1
      job == NewAttempt(mem.job[r], id, 0) IN
  /\ worker[r].at = "claim" /\ Claimable(mem.job[r])
  /\ Save([mem EXCEPT !.job[r] = job, !.run[r] = ClaimAttempt(@, id, job.fence)], saved)
  /\ worker' = [worker EXCEPT ![r] = [@ EXCEPT !.at = IF saved THEN "run" ELSE "fail",
                                               !.attempt = id, !.fence = job.fence]]
  /\ UNCHANGED <<invocations, told>>

\* A run that was cancelled first: there is no lease, and nothing to handle.
ClaimRefused(r) ==
  /\ worker[r].at = "claim" /\ ~Claimable(mem.job[r])
  /\ worker' = [worker EXCEPT ![r].at = "done"]
  /\ UNCHANGED <<mem, disk, invocations, told, mishaps>>

\* The source, version or calibration is not there, or the engine raises.
Abort(r) ==
  /\ worker[r].at = "run"
  /\ worker' = [worker EXCEPT ![r].at = "fail"]
  /\ UNCHANGED <<mem, disk, invocations, told, mishaps>>

\* A sink write: the engine goes on when it was saved.
Emit(r, phase, next, saved) ==
  LET w == worker[r] IN
  /\ w.at = "run"
  /\ Save([mem EXCEPT !.run[r] = CommitProgress(@, w.attempt, w.fence, w.sequence, phase)], saved)
  /\ worker' = [worker EXCEPT ![r] =
       IF saved THEN [w EXCEPT !.at = next, !.sequence = @ + 1, !.phase = phase]
       ELSE [w EXCEPT !.at = "fail"]]
  /\ UNCHANGED <<invocations, told>>

EngineProgress(r, saved) ==
  worker[r].sequence < MaxSequence /\ Emit(r, "running", "run", saved)

\* The cancellation event is looked at between frames or calls: one set after the
\* last look leaves the run completed.
EngineEnd(r, saved) ==
  \/ Emit(r, "completed", "final", saved)
  \/ worker[r].cancelled /\ Emit(r, "cancelled", "final", saved)

\* The semantic engine reports the failure itself before it raises.
EngineFailed(r, saved) == Emit(r, "failed", "fail", saved)

EngineEvent(r, saved) ==
  LET w == worker[r] IN
  /\ w.at = "run" /\ mem.run[r].event.revision = -1
  /\ Save([mem EXCEPT !.run[r] = CommitEvent(@, w.attempt, w.fence, "built")], saved)
  /\ worker' = IF saved THEN worker ELSE [worker EXCEPT ![r].at = "republish"]
  /\ UNCHANGED <<invocations, told>>

\* _emit_event takes the failed save for failed evidence and writes the event
\* once more.
EngineRepublish(r, saved) ==
  LET w == worker[r] IN
  /\ w.at = "republish"
  /\ Save([mem EXCEPT !.run[r] = CommitEvent(@, w.attempt, w.fence, "failed")], saved)
  /\ worker' = [worker EXCEPT ![r].at = IF saved THEN "run" ELSE "fail"]
  /\ UNCHANGED <<invocations, told>>

\* Mutant: only the engine's own phase decides.
FinalizeByPhase(r, saved) ==
  LET w == worker[r] IN
  /\ w.at = "final"
  /\ Save([mem EXCEPT !.job[r] = IF w.phase = "cancelled" THEN CancelledAt(@, 0)
                                 ELSE FinishedAs(@, w.phase),
                      !.run[r] = FinalizeRun(@, w.attempt)], saved)
  /\ worker' = [worker EXCEPT ![r].at = IF saved THEN "done" ELSE "fail"]
  /\ UNCHANGED <<invocations, told>>

\* The final transaction: a cancellation recorded meanwhile wins.
Finalize(r, saved) ==
  LET w == worker[r]
      cancelled == w.phase = "cancelled" \/ mem.job[r].cancel_requested IN
  /\ w.at = "final"
  /\ Save([mem EXCEPT !.job[r] = IF cancelled THEN CancelledAt(@, 0) ELSE FinishedAs(@, w.phase),
                      !.run[r] = FinalizeRun(@, w.attempt)], saved)
  /\ worker' = [worker EXCEPT ![r].at = IF saved THEN "done" ELSE "fail"]
  /\ UNCHANGED <<invocations, told>>

\* Mutant: the failed run is left without a closing update.
HandleFailureQuietly(r, saved) ==
  LET w == worker[r] IN
  /\ w.at = "fail"
  /\ Save(IF mem.job[r].state = "cancelled" THEN mem
          ELSE [mem EXCEPT !.job[r] = FinishedAs(@, "failed"),
                           !.run[r] = FinalizeRun(@, w.attempt)], saved)
  /\ worker' = [worker EXCEPT ![r].at = "done"]
  /\ UNCHANGED <<invocations, told>>

\* The failure handler: unless the run is cancelled, its progress is closed with
\* a failed update and the attempt is finished and selected.
HandleFailure(r, saved) ==
  LET w == worker[r]
      doc == mem.run[r]
      n == LastSequence(doc.progress, w.attempt) + 1 IN
  /\ w.at = "fail"
  /\ Save(IF mem.job[r].state = "cancelled" THEN mem
          ELSE [mem EXCEPT
                 !.job[r] = FinishedAs(@, "failed"),
                 !.run[r] = FinalizeRun(CommitProgress(@, w.attempt, w.fence, n, "failed"),
                                        w.attempt)], saved)
  /\ worker' = [worker EXCEPT ![r].at = "done"]
  /\ UNCHANGED <<invocations, told>>

\* Mutant: the interrupted runs come back as they were.
RestartAsItWas ==
  /\ mishaps < MaxMishaps /\ mishaps' = mishaps + 1
  /\ mem' = disk
  /\ worker' = [r \in Runs |-> NoWorker]
  /\ invocations' = 0
  /\ UNCHANGED <<disk, told>>

\* The process stops anywhere and starts again from the snapshot, which is not
\* written until the next checkpoint. The executor starts empty. A request to
\* cancel a run that is forgotten with the memory is forgotten with it.
Restart ==
  /\ mishaps < MaxMishaps /\ mishaps' = mishaps + 1
  /\ mem' = Interrupted(disk)
  /\ worker' = [r \in Runs |-> NoWorker]
  /\ invocations' = 0
  /\ UNCHANGED <<disk, told>>

-----------------------------------------------------------------------------
Requests ==
  \/ \E saved \in BOOLEAN :
       \/ \E k \in Keys : ReplayStart(k, saved) \/ \E r \in Runs : StartRun(k, r, saved)
       \/ \E r \in Runs : CancelRun(r, saved) \/ ReviewEvent(r, saved)
  \/ Checkpoint

Work(r) ==
  \/ ClaimRefused(r) \/ Abort(r)
  \/ \E saved \in BOOLEAN :
       \/ Claim(r, saved) \/ EngineProgress(r, saved) \/ EngineEvent(r, saved)
       \/ EngineRepublish(r, saved) \/ EngineEnd(r, saved) \/ EngineFailed(r, saved)
       \/ Finalize(r, saved) \/ HandleFailure(r, saved)

Next == Requests \/ (\E r \in Runs : Work(r)) \/ Restart

Spec == Init /\ [][Next]_vars

\* A worker's task is resumed until it ends; a restart is never owed.
FairSpec == Spec /\ \A r \in Runs : WF_vars(Work(r))

-----------------------------------------------------------------------------
Answered(what, r) == \E t \in told : t.about = what /\ t.run = r

\* The job table and the run table agree, in memory and in every snapshot a
\* restart may find: results are selected only of a run that ended, and a run
\* that completed or failed with an attempt shows that attempt.
SelectedWithOutcome ==
  \A m \in {mem, disk}, r \in Runs :
    /\ m.run[r].selected # None => m.job[r].state \in Terminal
    /\ m.job[r].state \in Finished => m.run[r].selected = m.job[r].attempt

\* The progress a client reads to the end closes with the outcome of the run,
\* whichever of the engine, the failure handler and a restart wrote it.
ProgressEndsWithOutcome ==
  \A m \in {mem, disk}, r \in Runs :
    LET shown == m.run[r].selected
        last == LastSequence(m.run[r].progress, shown) IN
    m.job[r].state \in Finished /\ shown # None =>
      [attempt |-> shown, sequence |-> last, phase |-> m.job[r].state] \in m.run[r].progress

\* One idempotency key names one run in all the answers clients were given, over
\* restarts and failed saves; and that run is there for good.
OneRunPerKey ==
  \A s \in told : s.about = "start" =>
    /\ disk.run[s.run].exists /\ disk.job[s.run].state # "absent"
    /\ \A t \in told : t.about = "start" /\ t.key = s.key => t.run = s.run

\* A cancellation that was confirmed stands: the worker that is about to
\* complete, its failure handler and a restart leave the run cancelled.
CancelStands ==
  \A r \in Runs : Answered("cancel", r) =>
    mem.job[r].state = "cancelled" /\ disk.job[r].state = "cancelled"

\* Every run that was created ends, unless a restart forgets it.
RunEnds ==
  \A r \in Runs : mem.run[r].exists ~> (mem.job[r].state \in Terminal \/ ~mem.run[r].exists)

=============================================================================
