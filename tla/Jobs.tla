-------------------------------- MODULE Jobs --------------------------------
(***************************************************************************)
(* JobDispatchService over a durable repository, an executor that is       *)
(* idempotent by run, and any number of processes that dispatch, execute,  *)
(* reconcile and cancel runs at the same time.                             *)
(*                                                                         *)
(* A call of the service is cut where the code awaits: what it read before *)
(* an await is kept in frame[p] and may be stale when the call goes on.    *)
(* _mutate (read, change a copy, compare-and-swap on the revision, retry)  *)
(* is one step: it takes effect at its successful compare-and-swap, on the *)
(* very record that swap replaces.                                         *)
(***************************************************************************)
EXTENDS Integers, JobRecords

CONSTANTS
  Runs,          \* run ids
  Procs,         \* tasks that call the service: API handlers and workers
  NoRun,         \* the run of an idle process
  MaxTime,       \* bound: the clock stops here
  MaxAttempts,   \* bound: attempts the processes ask for, over all runs
  MaxSequence    \* bound: the largest progress sequence a worker reports

ASSUME JobsAssumption ==
  /\ NoRun \notin Runs
  /\ LeaseTime \in Nat \ {0}
  /\ MaxTime \in Nat
  /\ MaxAttempts \in Nat
  /\ MaxSequence \in Nat

VARIABLES
  job,           \* the durable job records
  by_run,        \* the executor's invocation of each run
  submissions,   \* how many invocations the executor has started
  signalled,     \* invocations whose cancellation event is set
  sink,          \* the last progress the event sink received for each run
  clock,         \* the clock every process reads
  attempts,      \* attempt ids handed out so far
  frame,         \* the pending call of each process
  lease          \* the lease each process works under

vars == <<job, by_run, submissions, signalled, sink, clock, attempts, frame, lease>>

Lease == [run : Runs, attempt : Int, fence : Nat, expires : Int]
NoLease == [run |-> NoRun, attempt |-> None, fence |-> 0, expires |-> None]

\* Where a pending call will go on.
Labels == {"dispatch", "mark", "submit", "record", "decide", "claim",
           "heartbeat", "signal", "emit"}

Frame ==
  [at : Labels, run : Runs,
   reconciling : BOOLEAN,         \* the dispatch was called by reconcile
   seen : Lease \cup {NoLease},   \* the lease fields reconcile read at its start
   now : Nat,                     \* the time the call read before its await
   sequence : Int]                \* the progress about to reach the sink
Idle == [at |-> "idle", run |-> NoRun, reconciling |-> FALSE,
         seen |-> NoLease, now |-> 0, sequence |-> -1]

LeaseFrom(r, record) ==
  [run |-> r, attempt |-> record.attempt, fence |-> record.fence,
   expires |-> record.expires]

Exists(r) == job[r].state # "absent"

Call(p, at, r) == frame' = [frame EXCEPT ![p] = [Idle EXCEPT !.at = at, !.run = r]]
Goto(p, at)    == frame' = [frame EXCEPT ![p].at = at]
Return(p)      == frame' = [frame EXCEPT ![p] = Idle]
At(p, at)      == frame[p].at = at

-----------------------------------------------------------------------------
Init ==
  /\ job = [r \in Runs |-> Absent]
  /\ by_run = [r \in Runs |-> None]
  /\ submissions = 0
  /\ signalled = {}
  /\ sink = [r \in Runs |-> [fence |-> 0, sequence |-> -1]]
  /\ clock = 0
  /\ attempts = 0
  /\ frame = [p \in Procs |-> Idle]
  /\ lease = [p \in Procs |-> NoLease]

\* create: the insert at revision 0 is ignored when the record is there.
Create(r) ==
  /\ ~Exists(r)
  /\ job' = [job EXCEPT ![r].state = "queued"]
  /\ UNCHANGED <<by_run, submissions, signalled, sink, clock, attempts, frame, lease>>

StartDispatch(p, r) ==
  /\ At(p, "idle") /\ Exists(r)
  /\ Call(p, "dispatch", r)
  /\ UNCHANGED <<job, by_run, submissions, signalled, sink, clock, attempts, lease>>

\* dispatch reads the record once and decides on that reading alone.
DispatchRead(p) ==
  LET r == frame[p].run IN
  /\ At(p, "dispatch")
  /\ \/ /\ job[r].state \in Terminal
        /\ Return(p)
     \/ /\ job[r].state \notin Terminal /\ job[r].invocation # None
        /\ IF frame[p].reconciling THEN Goto(p, "decide") ELSE Return(p)
     \/ /\ job[r].state \notin Terminal /\ job[r].invocation = None
        /\ Goto(p, IF job[r].state = "queued" THEN "mark" ELSE "submit")
  /\ UNCHANGED <<job, by_run, submissions, signalled, sink, clock, attempts, lease>>

\* The queued state is not read again before it is overwritten.
DispatchMark(p) ==
  /\ At(p, "mark")
  /\ job' = [job EXCEPT ![frame[p].run].state = "dispatching"]
  /\ Goto(p, "submit")
  /\ UNCHANGED <<by_run, submissions, signalled, sink, clock, attempts, lease>>

\* executor.submit returns the invocation the run already has, or starts one.
\* Its answer may be lost after the invocation was started.
Submit(p) ==
  LET r == frame[p].run IN
  /\ At(p, "submit")
  /\ IF by_run[r] = None
     THEN /\ submissions' = submissions + 1
          /\ by_run' = [by_run EXCEPT ![r] = submissions + 1]
     ELSE UNCHANGED <<by_run, submissions>>
  /\ Goto(p, "record") \/ Return(p)
  /\ UNCHANGED <<job, signalled, sink, clock, attempts, lease>>

RecordInvocation(p) ==
  LET r == frame[p].run IN
  /\ At(p, "record")
  /\ job' = [job EXCEPT ![r] = Submitted(@, by_run[r])]
  /\ IF frame[p].reconciling THEN Goto(p, "decide") ELSE Return(p)
  /\ UNCHANGED <<by_run, submissions, signalled, sink, clock, attempts, lease>>

\* claim reads the clock before its first await. A process claims a run as the
\* worker of a submitted invocation.
StartClaim(p, r) ==
  /\ At(p, "idle") /\ Exists(r) /\ by_run[r] # None
  /\ frame' = [frame EXCEPT ![p] = [Idle EXCEPT !.at = "claim", !.run = r, !.now = clock]]
  /\ UNCHANGED <<job, by_run, submissions, signalled, sink, clock, attempts, lease>>

ClaimRejected(p) ==
  /\ At(p, "claim") /\ ~Claimable(job[frame[p].run])
  /\ Return(p)
  /\ UNCHANGED <<job, by_run, submissions, signalled, sink, clock, attempts, lease>>

\* A live lease is handed to the caller as it is: a retried worker shares it.
ClaimShared(p) ==
  LET r == frame[p].run IN
  /\ At(p, "claim") /\ Claimable(job[r]) /\ LiveAt(job[r], frame[p].now)
  /\ lease' = [lease EXCEPT ![p] = LeaseFrom(r, job[r])]
  /\ Return(p)
  /\ UNCHANGED <<job, by_run, submissions, signalled, sink, clock, attempts>>

\* Mutant: a live lease is not looked for.
ClaimAlways(p) ==
  LET r == frame[p].run
      granted == NewAttempt(job[r], attempts + 1, frame[p].now) IN
  /\ At(p, "claim") /\ Claimable(job[r])
  /\ attempts < MaxAttempts
  /\ job' = [job EXCEPT ![r] = granted]
  /\ attempts' = attempts + 1
  /\ lease' = [lease EXCEPT ![p] = LeaseFrom(r, granted)]
  /\ Return(p)
  /\ UNCHANGED <<by_run, submissions, signalled, sink, clock>>

ClaimNew(p) ==
  LET r == frame[p].run
      granted == NewAttempt(job[r], attempts + 1, frame[p].now) IN
  /\ At(p, "claim") /\ Claimable(job[r]) /\ ~LiveAt(job[r], frame[p].now)
  /\ attempts < MaxAttempts
  /\ job' = [job EXCEPT ![r] = granted]
  /\ attempts' = attempts + 1
  /\ lease' = [lease EXCEPT ![p] = LeaseFrom(r, granted)]
  /\ Return(p)
  /\ UNCHANGED <<by_run, submissions, signalled, sink, clock>>

\* heartbeat reads the clock before its first await.
StartHeartbeat(p) ==
  /\ At(p, "idle") /\ lease[p] # NoLease
  /\ frame' = [frame EXCEPT ![p] =
       [Idle EXCEPT !.at = "heartbeat", !.run = lease[p].run, !.now = clock]]
  /\ UNCHANGED <<job, by_run, submissions, signalled, sink, clock, attempts, lease>>

\* A rejected heartbeat (replaced attempt, expired or finished lease) raises and
\* leaves the worker with the lease it had.
Heartbeat(p) ==
  LET r == frame[p].run
      renewed == [job[r] EXCEPT !.expires = frame[p].now + LeaseTime] IN
  /\ At(p, "heartbeat")
  /\ IF Valid(job[r], lease[p]) /\ job[r].expires # None /\ job[r].expires > frame[p].now
     THEN /\ job' = [job EXCEPT ![r] = renewed]
          /\ lease' = [lease EXCEPT ![p] = LeaseFrom(r, renewed)]
     ELSE UNCHANGED <<job, lease>>
  /\ Return(p)
  /\ UNCHANGED <<by_run, submissions, signalled, sink, clock, attempts>>

\* commit_progress: a sequence that is not newer changes nothing. The sink is
\* told after the record changed, in a step of its own.
CommitProgress(p, n) ==
  LET r == lease[p].run IN
  /\ At(p, "idle") /\ lease[p] # NoLease
  /\ Valid(job[r], lease[p]) /\ ~job[r].cancel_requested
  /\ n > job[r].progress
  /\ job' = [job EXCEPT ![r].progress = n]
  /\ frame' = [frame EXCEPT ![p] = [Idle EXCEPT !.at = "emit", !.run = r, !.sequence = n]]
  /\ UNCHANGED <<by_run, submissions, signalled, sink, clock, attempts, lease>>

EmitProgress(p) ==
  /\ At(p, "emit")
  /\ sink' = [sink EXCEPT ![frame[p].run] =
       [fence |-> lease[p].fence, sequence |-> frame[p].sequence]]
  /\ Return(p)
  /\ UNCHANGED <<job, by_run, submissions, signalled, clock, attempts, lease>>

\* finish checks the attempt and nothing else; the worker is done either way.
Finish(p, outcome) ==
  LET r == lease[p].run IN
  /\ At(p, "idle") /\ lease[p] # NoLease
  /\ job' = IF Valid(job[r], lease[p])
            THEN [job EXCEPT ![r] = FinishedAs(@, outcome)]
            ELSE job
  /\ lease' = [lease EXCEPT ![p] = NoLease]
  /\ UNCHANGED <<by_run, submissions, signalled, sink, clock, attempts, frame>>

\* cancel changes the record whatever its state, then looks for an invocation.
Cancel(p, r) ==
  /\ At(p, "idle") /\ Exists(r)
  /\ job' = [job EXCEPT ![r] = CancelledAt(@, clock)]
  /\ Call(p, "signal", r)
  /\ UNCHANGED <<by_run, submissions, signalled, sink, clock, attempts, lease>>

\* An invocation never changes once it is recorded, so reading it and setting
\* its event are one step.
CancelSignal(p) ==
  LET invocation == job[frame[p].run].invocation IN
  /\ At(p, "signal")
  /\ signalled' = IF invocation = None THEN signalled ELSE signalled \cup {invocation}
  /\ Return(p)
  /\ UNCHANGED <<job, by_run, submissions, sink, clock, attempts, lease>>

\* reconcile keeps the lease fields of its first reading until it decides.
Reconcile(p, r) ==
  /\ At(p, "idle") /\ Exists(r) /\ Claimable(job[r])
  /\ frame' = [frame EXCEPT ![p] =
       [Idle EXCEPT !.at = IF job[r].invocation = None THEN "dispatch" ELSE "decide",
                    !.run = r, !.reconciling = TRUE, !.seen = LeaseFrom(r, job[r])]]
  /\ UNCHANGED <<job, by_run, submissions, signalled, sink, clock, attempts, lease>>

ReconcileDecide(p) ==
  LET seen == frame[p].seen IN
  /\ At(p, "decide")
  /\ IF seen.attempt = None \/ (seen.expires # None /\ seen.expires <= clock)
     THEN /\ frame' = [frame EXCEPT ![p].at = "claim", ![p].now = clock]
          /\ UNCHANGED lease
     ELSE /\ lease' = [lease EXCEPT ![p] = seen]
          /\ Return(p)
  /\ UNCHANGED <<job, by_run, submissions, signalled, sink, clock, attempts>>

Tick ==
  /\ clock < MaxTime
  /\ clock' = clock + 1
  /\ UNCHANGED <<job, by_run, submissions, signalled, sink, attempts, frame, lease>>

\* A process dies wherever it is: its pending call and its lease are lost.
Crash(p) ==
  /\ Return(p)
  /\ lease' = [lease EXCEPT ![p] = NoLease]
  /\ UNCHANGED <<job, by_run, submissions, signalled, sink, clock, attempts>>

-----------------------------------------------------------------------------
Continue(p) ==
  \/ DispatchRead(p) \/ DispatchMark(p) \/ Submit(p) \/ RecordInvocation(p)
  \/ ClaimRejected(p) \/ ClaimShared(p) \/ ClaimNew(p)
  \/ Heartbeat(p) \/ EmitProgress(p) \/ CancelSignal(p) \/ ReconcileDecide(p)

Start(p) ==
  \/ \E r \in Runs : StartDispatch(p, r) \/ StartClaim(p, r) \/ Cancel(p, r) \/ Reconcile(p, r)
  \/ StartHeartbeat(p)
  \/ \E n \in 0..MaxSequence : CommitProgress(p, n)
  \/ \E outcome \in Finished : Finish(p, outcome)

Serve ==
  \/ \E r \in Runs : Create(r)
  \/ \E p \in Procs : Start(p) \/ Continue(p)
  \/ Tick

Next == Serve \/ \E p \in Procs : Crash(p)

Spec == Init /\ [][Next]_vars

\* No process dies, and a call that was started goes on: the event loop resumes
\* every task whose await is answered.
FairSpec == Init /\ [][Serve]_vars /\ \A p \in Procs : WF_vars(Continue(p))

-----------------------------------------------------------------------------
TypeOK ==
  /\ job \in [Runs -> JobRecord]
  /\ by_run \in [Runs -> Int]
  /\ submissions \in Nat
  /\ signalled \subseteq Int
  /\ sink \in [Runs -> [fence : Nat, sequence : Int]]
  /\ clock \in Nat
  /\ attempts \in Nat
  /\ frame \in [Procs -> Frame \cup {Idle}]
  /\ lease \in [Procs -> Lease \cup {NoLease}]

\* The leases a process may still act on: the one it works under and the one a
\* pending reconcile will return.
LeasesOf(p) == {lease[p], frame[p].seen}

\* A fence names one attempt: whatever a process holds, however stale, is no
\* newer than the record, and shares its fence only when it is the very attempt
\* the record names. So _validate_attempt tells a replaced worker from the
\* current one.
FenceNamesAttempt ==
  \A p \in Procs : \A l \in LeasesOf(p) :
    l.run \in Runs =>
      /\ l.fence <= job[l.run].fence
      /\ l.fence = job[l.run].fence => l.attempt = job[l.run].attempt

\* The record never names an invocation the executor did not start for that run,
\* even when answers are lost and dispatches overlap (submit, record).
RecordedInvocationIsReal ==
  \A r \in Runs : job[r].invocation # None => job[r].invocation = by_run[r]

\* A lease that is live by the clock is never taken over, although claim
\* compares it with a time read before its await (claim, heartbeat, reconcile).
NoLiveTakeover ==
  [][\A r \in Runs : job'[r].fence # job[r].fence => ~LiveAt(job[r], clock)]_vars

\* The job records keep the promise of FencedProgress: attempts are counted up
\* one at a time, each reports growing progress, and a cancelled run is closed
\* for both for good.
Promise == INSTANCE FencedProgress WITH
  Sequences <- 0..MaxSequence,
  fence <- [r \in Runs |-> job[r].fence],
  progress <- [r \in Runs |-> job[r].progress],
  closed <- [r \in Runs |-> job[r].cancel_requested]
KeepsPromise == Promise!Spec

=============================================================================
