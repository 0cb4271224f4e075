----------------------------- MODULE JobsProofs -----------------------------
(***************************************************************************)
(* What the two records of a run's control plane guarantee that several    *)
(* processes change optimistically: the job service, for any number of     *)
(* runs, processes, attempts and clock values, and the budget ledger (B!), *)
(* for any number of clients, reservations and retries.                    *)
(***************************************************************************)
EXTENDS Jobs, BudgetAccount, TLAPS

\* The ledger shares no state with the job service.
CONSTANTS Clients, NoReservation, MaxTries
VARIABLES handed, stage, mine, call
B == INSTANCE BudgetLedger

LEMMA NoneIsInt == None \in Int /\ -1 \in Int
BY DEF None

\* A pending call is about a run, and only an idle process has none.
LEMMA IdleIsIdle == Idle.at = "idle" /\ Idle.seen = NoLease /\ Idle.now = 0
BY DEF Idle

LEMMA BusyFrame ==
  ASSUME TypeOK, NEW p \in Procs, frame[p].at # "idle"
  PROVE  frame[p] \in Frame
BY IdleIsIdle DEF TypeOK

\* A lease describes the record it was read from.
LEMMA LeaseFromType ==
  ASSUME NEW r \in Runs, NEW record \in JobRecord
  PROVE  LeaseFrom(r, record) \in Lease
BY DEF LeaseFrom, Lease, JobRecord

\* Moving a pending call on, starting one and returning from one keep frames typed.
LEMMA GotoType ==
  ASSUME TypeOK, NEW p \in Procs, frame[p] \in Frame, NEW at \in Labels, Goto(p, at)
  PROVE  frame' \in [Procs -> Frame \cup {Idle}]
<1>1. [frame[p] EXCEPT !.at = at] \in Frame
  BY DEF Frame
<1>2. frame' = [frame EXCEPT ![p] = [frame[p] EXCEPT !.at = at]]
  BY DEF Goto
<1>3. QED
  BY <1>1, <1>2 DEF TypeOK

LEMMA ReturnType ==
  ASSUME TypeOK, NEW p \in Procs, Return(p)
  PROVE  frame' \in [Procs -> Frame \cup {Idle}]
BY DEF TypeOK, Return

LEMMA CallType ==
  ASSUME TypeOK, NEW p \in Procs, NEW at \in Labels, NEW r \in Runs, Call(p, at, r)
  PROVE  frame' \in [Procs -> Frame \cup {Idle}]
BY NoneIsInt DEF TypeOK, Call, Idle, Frame

-----------------------------------------------------------------------------
\* One step of the service, of its callers or of their crashes keeps the types.
LEMMA TypeStep == TypeOK /\ [Next]_vars => TypeOK'
<1> SUFFICES ASSUME TypeOK, [Next]_vars
             PROVE  TypeOK'
  OBVIOUS
<1> USE JobsAssumption, NoneIsInt, BusyFrame DEF TypeOK, At, Call, Goto, Return, Idle
<1>1. ASSUME NEW r \in Runs, Create(r) PROVE TypeOK'
  BY <1>1 DEF Create, JobRecord, Active
<1>2. ASSUME NEW p \in Procs, NEW r \in Runs, StartDispatch(p, r) PROVE TypeOK'
  BY <1>2 DEF StartDispatch, Frame, Labels
<1>3. ASSUME NEW p \in Procs, DispatchRead(p) PROVE TypeOK'
  <2>1. frame[p] \in Frame
    BY <1>3 DEF DispatchRead
  <2>2. frame' \in [Procs -> Frame \cup {Idle}]
    BY <1>3, <2>1, GotoType, ReturnType DEF DispatchRead, Labels
  <2>3. QED
    BY <1>3, <2>2 DEF DispatchRead
<1>4. ASSUME NEW p \in Procs, DispatchMark(p) PROVE TypeOK'
  <2>1. frame[p] \in Frame
    BY <1>4 DEF DispatchMark
  <2>2. frame' \in [Procs -> Frame \cup {Idle}]
    BY <1>4, <2>1, GotoType DEF DispatchMark, Labels
  <2>3. \A r \in Runs : [job[r] EXCEPT !.state = "dispatching"] \in JobRecord
    BY DEF JobRecord, Active
  <2>4. QED
    BY <1>4, <2>1, <2>2, <2>3 DEF DispatchMark, Frame
<1>5. ASSUME NEW p \in Procs, Submit(p) PROVE TypeOK'
  BY <1>5 DEF Submit, Frame, Labels
<1>6. ASSUME NEW p \in Procs, RecordInvocation(p) PROVE TypeOK'
  <2> DEFINE r == frame[p].run
  <2>1. frame[p] \in Frame /\ r \in Runs
    BY <1>6 DEF RecordInvocation, Submitted, Frame
  <2>2. frame' \in [Procs -> Frame \cup {Idle}]
    BY <1>6, <2>1, GotoType, ReturnType DEF RecordInvocation, Submitted, Labels
  <2> DEFINE i == IF job[r].invocation = None THEN by_run[r] ELSE job[r].invocation
             t == IF job[r].state \in Terminal THEN job[r].state ELSE "dispatched"
             recorded == [job[r] EXCEPT !.invocation = i, !.state = t]
  <2>3. job[r] \in JobRecord /\ by_run[r] \in Int
    BY <2>1
  <2>4. i \in Int /\ t \in Active \cup Terminal \cup {"absent"}
    BY <2>3 DEF JobRecord, Active
  <2>5. recorded \in JobRecord
    <3> HIDE DEF i, t
    <3>1. QED
      BY <2>3, <2>4 DEF JobRecord
  <2>6. job' = [job EXCEPT ![r] = recorded]
    BY <1>6, <2>1 DEF RecordInvocation, Submitted
  <2>7. QED
    <3> HIDE DEF recorded
    <3>1. QED
      BY <1>6, <2>1, <2>2, <2>5, <2>6 DEF RecordInvocation, Submitted
<1>7. ASSUME NEW p \in Procs, NEW r \in Runs, StartClaim(p, r) PROVE TypeOK'
  BY <1>7 DEF StartClaim, Frame, Labels
<1>8. ASSUME NEW p \in Procs, ClaimRejected(p) PROVE TypeOK'
  BY <1>8 DEF ClaimRejected
<1>9. ASSUME NEW p \in Procs, ClaimShared(p) PROVE TypeOK'
  BY <1>9 DEF ClaimShared, LeaseFrom, Lease, JobRecord, Frame
<1>10. ASSUME NEW p \in Procs, ClaimNew(p) PROVE TypeOK'
  <2> DEFINE r == frame[p].run
             granted == NewAttempt(job[r], attempts + 1, frame[p].now)
  <2>1. frame[p] \in Frame /\ r \in Runs /\ frame[p].now \in Nat
    BY <1>10 DEF ClaimNew, Frame
  <2>2. granted \in JobRecord
    <3>1. job[r] \in JobRecord /\ attempts + 1 \in Int /\ frame[p].now + LeaseTime \in Int
      BY <2>1
    <3>2. job[r].fence + 1 \in Nat
      BY <3>1 DEF JobRecord
    <3>3. QED
      BY <3>1, <3>2 DEF NewAttempt, JobRecord, Active
  <2>3. LeaseFrom(r, granted) \in Lease
    BY <2>1, <2>2, LeaseFromType
  <2>4. QED
    BY <1>10, <2>1, <2>2, <2>3 DEF ClaimNew
<1>11. ASSUME NEW p \in Procs, StartHeartbeat(p) PROVE TypeOK'
  BY <1>11 DEF StartHeartbeat, Frame, Labels, Lease
<1>12. ASSUME NEW p \in Procs, Heartbeat(p) PROVE TypeOK'
  <2> DEFINE r == frame[p].run
             renewed == [job[r] EXCEPT !.expires = frame[p].now + LeaseTime]
  <2>1. frame[p] \in Frame /\ r \in Runs /\ frame[p].now \in Nat
    BY <1>12 DEF Heartbeat, Frame
  <2>2. renewed \in JobRecord
    <3>1. job[r] \in JobRecord /\ frame[p].now + LeaseTime \in Int
      BY <2>1
    <3>2. QED
      BY <3>1 DEF JobRecord
  <2>3. LeaseFrom(r, renewed) \in Lease
    BY <2>1, <2>2, LeaseFromType
  <2>4. QED
    BY <1>12, <2>1, <2>2, <2>3 DEF Heartbeat
<1>13. ASSUME NEW p \in Procs, NEW n \in 0..MaxSequence, CommitProgress(p, n) PROVE TypeOK'
  <2> DEFINE r == lease[p].run
  <2>1. r \in Runs /\ n \in Int /\ job[r] \in JobRecord
    BY <1>13 DEF CommitProgress, Lease
  <2>2. [job[r] EXCEPT !.progress = n] \in JobRecord
    BY <2>1 DEF JobRecord
  <2>3. [Idle EXCEPT !.at = "emit", !.run = r, !.sequence = n] \in Frame
    BY <2>1 DEF Frame, Labels
  <2>4. QED
    BY <1>13, <2>1, <2>2, <2>3 DEF CommitProgress
<1>14. ASSUME NEW p \in Procs, EmitProgress(p) PROVE TypeOK'
  <2>1. frame[p] \in Frame /\ frame[p].sequence \in Int
    BY <1>14 DEF EmitProgress, Frame
  <2>2. lease[p].fence \in Nat
    BY DEF Lease, NoLease
  <2>3. QED
    BY <1>14, <2>1, <2>2 DEF EmitProgress
<1>15. ASSUME NEW p \in Procs, NEW outcome \in Finished, Finish(p, outcome) PROVE TypeOK'
  <2> DEFINE r == lease[p].run
  <2>1. r \in Runs /\ job[r] \in JobRecord /\ outcome \in Terminal
    BY <1>15 DEF Finish, FinishedAs, Lease, Finished
  <2>2. [job[r] EXCEPT !.state = outcome, !.expires = None] \in JobRecord
    BY <2>1 DEF JobRecord
  <2>3. QED
    BY <1>15, <2>1, <2>2 DEF Finish, FinishedAs
<1>16. ASSUME NEW p \in Procs, NEW r \in Runs, Cancel(p, r) PROVE TypeOK'
  <2>1. frame' \in [Procs -> Frame \cup {Idle}]
    BY <1>16, CallType DEF Cancel, CancelledAt, Labels
  <2>2. [job[r] EXCEPT !.cancel_requested = TRUE, !.state = "cancelled", !.expires = clock]
          \in JobRecord
    <3>1. job[r] \in JobRecord /\ clock \in Int /\ "cancelled" \in Terminal
      BY DEF Terminal
    <3>2. QED
      BY <3>1 DEF JobRecord
  <2>3. QED
    BY <1>16, <2>1, <2>2 DEF Cancel, CancelledAt
<1>17. ASSUME NEW p \in Procs, CancelSignal(p) PROVE TypeOK'
  <2> DEFINE invocation == job[frame[p].run].invocation
  <2>1. frame[p].run \in Runs
    BY <1>17 DEF CancelSignal, Frame
  <2>2. invocation \in Int
    BY <2>1 DEF JobRecord
  <2>3. signalled' \subseteq Int
    BY <1>17, <2>2 DEF CancelSignal
  <2>4. frame' \in [Procs -> Frame \cup {Idle}]
    BY <1>17 DEF CancelSignal
  <2>5. QED
    BY <1>17, <2>3, <2>4 DEF CancelSignal
<1>18. ASSUME NEW p \in Procs, NEW r \in Runs, Reconcile(p, r) PROVE TypeOK'
  <2> DEFINE g == [Idle EXCEPT !.at = IF job[r].invocation = None THEN "dispatch" ELSE "decide",
                               !.run = r, !.reconciling = TRUE, !.seen = LeaseFrom(r, job[r])]
  <2>1. job[r] \in JobRecord
    OBVIOUS
  <2>2. LeaseFrom(r, job[r]) \in Lease
    BY <2>1, LeaseFromType
  <2>3. g \in Frame
    BY <2>2 DEF Frame, Labels
  <2>4. frame' = [frame EXCEPT ![p] = g]
    BY <1>18 DEF Reconcile
  <2> HIDE DEF g
  <2>5. QED
    BY <1>18, <2>3, <2>4 DEF Reconcile
<1>19. ASSUME NEW p \in Procs, ReconcileDecide(p) PROVE TypeOK'
  BY <1>19 DEF ReconcileDecide, Frame, Labels
<1>20. CASE Tick
  BY <1>20 DEF Tick
<1>21. ASSUME NEW p \in Procs, Crash(p) PROVE TypeOK'
  BY <1>21 DEF Crash
<1>22. CASE UNCHANGED vars
  BY <1>22 DEF vars
<1>23. QED
  BY <1>1, <1>2, <1>3, <1>4, <1>5, <1>6, <1>7, <1>8, <1>9, <1>10, <1>11, <1>12, <1>13,
     <1>14, <1>15, <1>16, <1>17, <1>18, <1>19, <1>20, <1>21, <1>22
     DEF Next, Serve, Start, Continue

\* The records, the executor, the clock and every pending call keep their types.
THEOREM TypeCorrect == Spec => []TypeOK
<1>1. Init => TypeOK
  BY NoneIsInt DEF Init, TypeOK, Absent, JobRecord, Active, Terminal
<1>2. QED
  BY <1>1, TypeStep, PTL DEF Spec

-----------------------------------------------------------------------------
(***************************************************************************)
(* What one step can do to a record and to the leases processes may act on.*)
(* Every later proof about fences only looks at these two lemmas.          *)
(***************************************************************************)
FenceKept == \A r \in Runs : job'[r].fence = job[r].fence /\ job'[r].attempt = job[r].attempt

LEMMA FenceMoves ==
  ASSUME TypeOK, [Next]_vars
  PROVE  \/ FenceKept
         \/ \E p \in Procs : ClaimNew(p)
<1> USE DEF TypeOK, FenceKept
<1>1. ASSUME NEW r \in Runs, Create(r) PROVE FenceKept
  BY <1>1 DEF Create, JobRecord
<1>2. ASSUME NEW p \in Procs, DispatchMark(p) PROVE FenceKept
  BY <1>2 DEF DispatchMark, JobRecord
<1>3. ASSUME NEW p \in Procs, RecordInvocation(p) PROVE FenceKept
  BY <1>3 DEF RecordInvocation, Submitted, JobRecord
<1>4. ASSUME NEW p \in Procs, Heartbeat(p) PROVE FenceKept
  BY <1>4 DEF Heartbeat, JobRecord
<1>5. ASSUME NEW p \in Procs, NEW n \in 0..MaxSequence, CommitProgress(p, n) PROVE FenceKept
  BY <1>5 DEF CommitProgress, JobRecord
<1>6. ASSUME NEW p \in Procs, NEW outcome \in Finished, Finish(p, outcome) PROVE FenceKept
  BY <1>6 DEF Finish, FinishedAs, JobRecord
<1>7. ASSUME NEW p \in Procs, NEW r \in Runs, Cancel(p, r) PROVE FenceKept
  BY <1>7 DEF Cancel, CancelledAt, JobRecord
<1>8. ASSUME UNCHANGED job PROVE FenceKept
  BY <1>8
<1>9. QED
  BY <1>1, <1>2, <1>3, <1>4, <1>5, <1>6, <1>7, <1>8
     DEF Next, Serve, Start, Continue, vars, StartDispatch, DispatchRead, Submit, StartClaim,
         ClaimRejected, ClaimShared, StartHeartbeat, EmitProgress, CancelSignal, Reconcile,
         ReconcileDecide, Tick, Crash

\* A lease a process may act on after a step is one it had before, none, or read
\* from the record as the step leaves it.
LeaseSource(p, l) ==
  \/ l \in LeasesOf(p)
  \/ l = NoLease
  \/ \E r \in Runs : l = LeaseFrom(r, job'[r])

LEMMA LeasesMove ==
  ASSUME TypeOK, [Next]_vars, NEW p \in Procs, NEW l, l \in LeasesOf(p)'
  PROVE  LeaseSource(p, l)
<1> USE DEF TypeOK, LeasesOf, LeaseSource
<1> USE DEF At, Call, Goto, Return, Idle
<1>1. ASSUME NEW q \in Procs, NEW r \in Runs, StartDispatch(q, r) PROVE LeaseSource(p, l)
  BY <1>1 DEF StartDispatch
<1>2. ASSUME NEW q \in Procs, DispatchRead(q) PROVE LeaseSource(p, l)
  <2>1. frame'[p].seen = frame[p].seen \/ frame'[p].seen = NoLease
    <3>1. frame[q] \in Frame
      BY <1>2 DEF DispatchRead
    <3>2. QED
      BY <1>2, <3>1 DEF DispatchRead, Frame
  <2>2. QED
    BY <1>2, <2>1 DEF DispatchRead
<1>3. ASSUME NEW q \in Procs, DispatchMark(q) PROVE LeaseSource(p, l)
  <2>1. frame[q] \in Frame
    BY <1>3 DEF DispatchMark
  <2>2. frame'[p].seen = frame[p].seen /\ lease' = lease
    BY <1>3, <2>1 DEF DispatchMark, Frame
  <2>3. QED
    BY <2>2
<1>4. ASSUME NEW q \in Procs, Submit(q) PROVE LeaseSource(p, l)
  <2>1. frame[q] \in Frame
    BY <1>4 DEF Submit
  <2>2. (frame'[p].seen = frame[p].seen \/ frame'[p].seen = NoLease) /\ lease' = lease
    BY <1>4, <2>1 DEF Submit, Frame
  <2>3. QED
    BY <2>2
<1>5. ASSUME NEW q \in Procs, RecordInvocation(q) PROVE LeaseSource(p, l)
  <2>1. frame[q] \in Frame
    BY <1>5 DEF RecordInvocation, Submitted
  <2>2. lease' = lease /\ (Goto(q, "decide") \/ Return(q))
    BY <1>5 DEF RecordInvocation, Submitted
  <2>3. frame'[p].seen = frame[p].seen \/ frame'[p].seen = NoLease
    BY <2>1, <2>2 DEF Frame
  <2>4. QED
    BY <2>2, <2>3
<1>6. ASSUME NEW q \in Procs, NEW r \in Runs, StartClaim(q, r) PROVE LeaseSource(p, l)
  BY <1>6 DEF StartClaim
<1>7. ASSUME NEW q \in Procs, ClaimRejected(q) PROVE LeaseSource(p, l)
  BY <1>7 DEF ClaimRejected
<1>8. ASSUME NEW q \in Procs, ClaimShared(q) PROVE LeaseSource(p, l)
  <2>1. frame[q].run \in Runs
    BY <1>8 DEF ClaimShared, Frame
  <2>2. QED
    BY <1>8, <2>1 DEF ClaimShared
<1>9. ASSUME NEW q \in Procs, ClaimNew(q) PROVE LeaseSource(p, l)
  <2>1. frame[q].run \in Runs
    BY <1>9 DEF ClaimNew, Frame
  <2>2. QED
    BY <1>9, <2>1 DEF ClaimNew
<1>10. ASSUME NEW q \in Procs, StartHeartbeat(q) PROVE LeaseSource(p, l)
  BY <1>10 DEF StartHeartbeat
<1>11. ASSUME NEW q \in Procs, Heartbeat(q) PROVE LeaseSource(p, l)
  <2>1. frame[q].run \in Runs
    BY <1>11 DEF Heartbeat, Frame
  <2>2. QED
    BY <1>11, <2>1 DEF Heartbeat
<1>12. ASSUME NEW q \in Procs, NEW n \in 0..MaxSequence, CommitProgress(q, n) PROVE LeaseSource(p, l)
  BY <1>12 DEF CommitProgress
<1>13. ASSUME NEW q \in Procs, EmitProgress(q) PROVE LeaseSource(p, l)
  BY <1>13 DEF EmitProgress
<1>14. ASSUME NEW q \in Procs, NEW outcome \in Finished, Finish(q, outcome) PROVE LeaseSource(p, l)
  BY <1>14 DEF Finish, FinishedAs
<1>15. ASSUME NEW q \in Procs, NEW r \in Runs, Cancel(q, r) PROVE LeaseSource(p, l)
  BY <1>15 DEF Cancel, CancelledAt
<1>16. ASSUME NEW q \in Procs, CancelSignal(q) PROVE LeaseSource(p, l)
  BY <1>16 DEF CancelSignal
<1>17. ASSUME NEW q \in Procs, NEW r \in Runs, Reconcile(q, r) PROVE LeaseSource(p, l)
  <2>1. job' = job /\ lease' = lease
    BY <1>17 DEF Reconcile
  <2>2. frame'[p].seen \in {frame[p].seen, LeaseFrom(r, job[r])}
    BY <1>17 DEF Reconcile
  <2>3. QED
    BY <2>1, <2>2
<1>18. ASSUME NEW q \in Procs, ReconcileDecide(q) PROVE LeaseSource(p, l)
  <2>1. frame[q] \in Frame
    BY <1>18 DEF ReconcileDecide
  <2>2. /\ frame'[p].seen \in {frame[p].seen, NoLease}
        /\ lease'[p] \in {lease[p], frame[p].seen}
    BY <1>18, <2>1 DEF ReconcileDecide, Frame
  <2>3. QED
    BY <2>2
<1>19. ASSUME NEW q \in Procs, Crash(q) PROVE LeaseSource(p, l)
  BY <1>19 DEF Crash
<1>20. ASSUME UNCHANGED <<frame, lease>> PROVE LeaseSource(p, l)
  BY <1>20
<1>21. QED
  BY <1>1, <1>2, <1>3, <1>4, <1>5, <1>6, <1>7, <1>8, <1>9, <1>10, <1>11, <1>12, <1>13,
     <1>14, <1>15, <1>16, <1>17, <1>18, <1>19, <1>20
     DEF Next, Serve, Start, Continue, vars, Create, Tick

\* Leases in a process's hands never outrun the record and, at equal fences, name
\* the record's own attempt, so a replaced worker fails _validate_attempt.
THEOREM FenceSafety == Spec => []FenceNamesAttempt
<1>1. Init => FenceNamesAttempt
  BY JobsAssumption DEF Init, FenceNamesAttempt, LeasesOf, Idle, NoLease
<1>2. TypeOK /\ FenceNamesAttempt /\ [Next]_vars => FenceNamesAttempt'
  <2> SUFFICES ASSUME TypeOK, FenceNamesAttempt, [Next]_vars,
                      NEW p \in Procs, NEW l \in LeasesOf(p)', l.run \in Runs
               PROVE  /\ l.fence <= job'[l.run].fence
                      /\ l.fence = job'[l.run].fence => l.attempt = job'[l.run].attempt
    BY DEF FenceNamesAttempt
  <2>1. CASE l \in LeasesOf(p)
    <3>1. /\ l.fence <= job[l.run].fence
          /\ l.fence = job[l.run].fence => l.attempt = job[l.run].attempt
      BY <2>1 DEF FenceNamesAttempt
    <3>2. l.fence \in Nat /\ job[l.run].fence \in Nat
      BY <2>1 DEF TypeOK, LeasesOf, Frame, Idle, Lease, NoLease, JobRecord
    <3>3. CASE FenceKept
      BY <3>1, <3>3 DEF FenceKept
    <3>4. ASSUME NEW q \in Procs, ClaimNew(q)
          PROVE  \/ job'[l.run].fence = job[l.run].fence /\ job'[l.run].attempt = job[l.run].attempt
                 \/ job'[l.run].fence = job[l.run].fence + 1
      BY <3>4 DEF ClaimNew, NewAttempt, TypeOK, JobRecord
    <3>5. QED
      BY <3>1, <3>2, <3>3, <3>4, FenceMoves
  <2>2. CASE l = NoLease
    BY <2>2, JobsAssumption DEF NoLease
  <2>3. ASSUME NEW r \in Runs, l = LeaseFrom(r, job'[r])
        PROVE  l.run = r /\ l.fence = job'[r].fence /\ l.attempt = job'[r].attempt
    BY <2>3 DEF LeaseFrom
  <2>4. TypeOK'
    BY TypeStep
  <2>5. \A r \in Runs : job'[r].fence <= job'[r].fence
    BY <2>4 DEF TypeOK, JobRecord
  <2>6. QED
    BY <2>1, <2>2, <2>3, <2>5, LeasesMove DEF LeaseSource
<1>3. QED
  BY <1>1, <1>2, TypeCorrect, PTL DEF Spec

-----------------------------------------------------------------------------
\* A call compares leases with a time that is not in the future.
ClockRead == \A p \in Procs : frame[p].now <= clock

\* The clock is only moved forward, and a frame's time is read from it.
LEMMA NextTick ==
  ASSUME TypeOK, [Next]_vars
  PROVE  clock' = clock \/ clock' = clock + 1
BY DEF Next, Serve, Start, Continue, vars, Create, StartDispatch, DispatchRead, DispatchMark,
       Submit, RecordInvocation, StartClaim, ClaimRejected, ClaimShared, ClaimNew,
       StartHeartbeat, Heartbeat, CommitProgress, EmitProgress, Finish, Cancel, CancelSignal,
       Reconcile, ReconcileDecide, Tick, Crash

LEMMA NowMoves ==
  ASSUME TypeOK, [Next]_vars, NEW p \in Procs
  PROVE  frame'[p].now \in {frame[p].now, 0, clock}
<1> DEFINE Moved == frame'[p].now \in {frame[p].now, 0, clock}
<1> USE DEF TypeOK, At
<1>1. ASSUME NEW q \in Procs, NEW at, Goto(q, at), frame[q] \in Frame PROVE Moved
  BY <1>1 DEF Goto, Frame
<1>2. ASSUME NEW q \in Procs, Return(q) PROVE Moved
  BY <1>2 DEF Return, Idle
<1>3. ASSUME NEW q \in Procs, NEW at, NEW r, Call(q, at, r) PROVE Moved
  BY <1>3 DEF Call, Idle
<1>4. ASSUME NEW q \in Procs, NEW r \in Runs, StartClaim(q, r) PROVE Moved
  BY <1>4 DEF StartClaim, Idle
<1>5. ASSUME NEW q \in Procs, StartHeartbeat(q) PROVE Moved
  BY <1>5 DEF StartHeartbeat, Idle
<1>6. ASSUME NEW q \in Procs, NEW n \in 0..MaxSequence, CommitProgress(q, n) PROVE Moved
  BY <1>6 DEF CommitProgress, Idle
<1>7. ASSUME NEW q \in Procs, NEW r \in Runs, Reconcile(q, r) PROVE Moved
  BY <1>7 DEF Reconcile, Idle
<1>8. ASSUME NEW q \in Procs, ReconcileDecide(q) PROVE Moved
  <2>1. frame[q] \in Frame
    BY <1>8, BusyFrame DEF ReconcileDecide
  <2>2. CASE Return(q)
    BY <2>2, <1>2
  <2>3. CASE frame' = [frame EXCEPT ![q].at = "claim", ![q].now = clock]
    BY <2>1, <2>3 DEF Frame
  <2>4. QED
    BY <1>8, <2>2, <2>3 DEF ReconcileDecide
<1>9. ASSUME UNCHANGED frame PROVE Moved
  BY <1>9
<1>10. ASSUME NEW q \in Procs, \/ DispatchRead(q) \/ DispatchMark(q) \/ Submit(q) \/ RecordInvocation(q)
       PROVE  Moved
  <2>1. frame[q] \in Frame
    BY <1>10, BusyFrame DEF DispatchRead, DispatchMark, Submit, RecordInvocation, Submitted
  <2>2. (\E at : Goto(q, at)) \/ Return(q)
    BY <1>10 DEF DispatchRead, DispatchMark, Submit, RecordInvocation, Submitted
  <2>3. QED
    BY <2>1, <2>2, <1>1, <1>2
<1>11. ASSUME NEW q \in Procs, \/ ClaimRejected(q) \/ ClaimShared(q) \/ ClaimNew(q) \/ Heartbeat(q)
                               \/ EmitProgress(q) \/ CancelSignal(q) \/ Crash(q)
       PROVE  Moved
  BY <1>11, <1>2 DEF ClaimRejected, ClaimShared, ClaimNew, Heartbeat, EmitProgress, CancelSignal, Crash
<1>12. ASSUME NEW q \in Procs, NEW r \in Runs, StartDispatch(q, r) \/ Cancel(q, r) PROVE Moved
  BY <1>12, <1>3 DEF StartDispatch, Cancel, CancelledAt
<1>13. ASSUME \/ \E r \in Runs : Create(r)
              \/ \E q \in Procs, outcome \in Finished : Finish(q, outcome)
              \/ Tick
              \/ UNCHANGED vars
       PROVE  Moved
  BY <1>13, <1>9 DEF Create, Finish, FinishedAs, Tick, vars
<1>14. QED
  BY <1>4, <1>5, <1>6, <1>7, <1>8, <1>10, <1>11, <1>12, <1>13 DEF Next, Serve, Start, Continue

LEMMA ClockReadStep == TypeOK /\ ClockRead /\ [Next]_vars => ClockRead'
<1> SUFFICES ASSUME TypeOK, ClockRead, [Next]_vars, NEW p \in Procs
             PROVE  frame'[p].now <= clock'
  BY DEF ClockRead
<1> USE DEF At, Call, Goto, Return, Idle
<1>1. clock \in Nat /\ clock' \in Nat /\ clock <= clock'
  BY TypeStep, NextTick DEF TypeOK
<1>2. frame'[p].now \in {frame[p].now, 0, clock}
  BY NowMoves
<1>3. frame[p].now <= clock /\ frame[p].now \in Nat
  BY DEF ClockRead, TypeOK, Frame
<1>4. QED
  BY <1>1, <1>2, <1>3

LEMMA ClockReadCorrect == Spec => []ClockRead
<1>1. Init => ClockRead
  BY DEF Init, ClockRead, Idle
<1>2. QED
  BY <1>1, ClockReadStep, TypeCorrect, PTL DEF Spec

\* No interleaving of claims, heartbeats and reconciliations takes over a lease
\* the clock still calls live.
THEOREM NoTakeover == Spec => NoLiveTakeover
<1>1. TypeOK /\ ClockRead /\ [Next]_vars =>
        [\A r \in Runs : job'[r].fence # job[r].fence => ~LiveAt(job[r], clock)]_vars
  <2> SUFFICES ASSUME TypeOK, ClockRead, [Next]_vars, NEW r \in Runs,
                      job'[r].fence # job[r].fence
               PROVE  ~LiveAt(job[r], clock)
    OBVIOUS
  <2>1. PICK p \in Procs : ClaimNew(p)
    BY FenceMoves DEF FenceKept
  <2>2. r = frame[p].run
    BY <2>1 DEF ClaimNew, TypeOK
  <2>3. ~LiveAt(job[r], frame[p].now)
    BY <2>1, <2>2 DEF ClaimNew
  <2>4. frame[p].now <= clock /\ frame[p].now \in Nat /\ clock \in Nat /\ job[r].expires \in Int
    BY DEF ClockRead, TypeOK, Frame, Idle, JobRecord
  <2>5. QED
    BY <2>3, <2>4 DEF LiveAt
<1>2. QED
  BY <1>1, TypeCorrect, ClockReadCorrect, PTL DEF Spec, NoLiveTakeover

-----------------------------------------------------------------------------
(***************************************************************************)
(* The records implement FencedProgress.                                   *)
(***************************************************************************)
PromiseKept ==
  \A r \in Runs : /\ job'[r].fence = job[r].fence
                  /\ job'[r].progress = job[r].progress
                  /\ job'[r].cancel_requested = job[r].cancel_requested

LEMMA KeptIsStutter ==
  ASSUME PromiseKept
  PROVE  [Promise!Next]_(Promise!vars)
BY DEF PromiseKept, Promise!vars

LEMMA GrantIsGrant ==
  ASSUME TypeOK, NEW p \in Procs, ClaimNew(p)
  PROVE  Promise!Next
<1>1. PICK r \in Runs : r = frame[p].run
  BY DEF ClaimNew, At, TypeOK, Frame, Idle
<1>2. /\ ~job[r].cancel_requested
      /\ job[r] \in JobRecord
      /\ job' = [job EXCEPT ![r] = NewAttempt(job[r], attempts + 1, frame[p].now)]
  BY <1>1 DEF ClaimNew, Claimable, TypeOK
<1>3. /\ job'[r].fence = job[r].fence + 1
      /\ job'[r].progress = -1
      /\ job'[r].cancel_requested = job[r].cancel_requested
      /\ \A s \in Runs : s # r => job'[s] = job[s]
  BY <1>2 DEF NewAttempt, JobRecord, TypeOK
<1>4. Promise!Grant(r)
  <2>1. ~job[r].cancel_requested
    BY <1>2
  <2>2. QED
    BY <1>3, <2>1 DEF Promise!Grant
<1>5. QED
  BY <1>4 DEF Promise!Next

LEMMA CommitIsAdvance ==
  ASSUME TypeOK, NEW p \in Procs, NEW n \in 0..MaxSequence, CommitProgress(p, n)
  PROVE  Promise!Next
<1>1. PICK r \in Runs : r = lease[p].run
  BY DEF CommitProgress, TypeOK, Lease, NoLease
<1>2. /\ ~job[r].cancel_requested
      /\ n > job[r].progress
      /\ job' = [job EXCEPT ![r].progress = n]
  BY <1>1 DEF CommitProgress
<1>3. /\ job'[r].fence = job[r].fence
      /\ job'[r].progress = n
      /\ job'[r].cancel_requested = job[r].cancel_requested
      /\ \A s \in Runs : s # r => job'[s] = job[s]
  BY <1>2 DEF JobRecord, TypeOK
<1>4. Promise!Advance(r, n)
  <2>1. ~job[r].cancel_requested /\ n > job[r].progress
    BY <1>2
  <2>2. QED
    BY <1>3, <2>1 DEF Promise!Advance
<1>5. QED
  BY <1>4 DEF Promise!Next

LEMMA CancelIsClose ==
  ASSUME TypeOK, NEW p \in Procs, NEW r \in Runs, Cancel(p, r)
  PROVE  Promise!Next
<1>1. /\ job'[r].fence = job[r].fence
      /\ job'[r].progress = job[r].progress
      /\ job'[r].cancel_requested = TRUE
      /\ \A s \in Runs : s # r => job'[s] = job[s]
  BY DEF Cancel, CancelledAt, JobRecord, TypeOK
<1>2. Promise!Close(r)
  BY <1>1 DEF Promise!Close
<1>3. QED
  BY <1>2 DEF Promise!Next

\* Attempts are counted one by one, each reports growing progress, and neither
\* moves after a cancellation, whatever processes interleave, crash or hold on to.
THEOREM RefinesFencedProgress == Spec => KeepsPromise
<1>1. Init => Promise!Init
  BY DEF Init, Absent, Promise!Init
<1>2. TypeOK /\ [Next]_vars => [Promise!Next]_(Promise!vars)
  <2> SUFFICES ASSUME TypeOK, [Next]_vars
               PROVE  Promise!Next \/ PromiseKept
    BY KeptIsStutter
  <2>1. ASSUME NEW r \in Runs, Create(r) PROVE PromiseKept
    BY <2>1 DEF Create, JobRecord, TypeOK, PromiseKept
  <2>2. ASSUME NEW p \in Procs, DispatchMark(p) PROVE PromiseKept
    BY <2>2 DEF DispatchMark, JobRecord, TypeOK, PromiseKept
  <2>3. ASSUME NEW p \in Procs, RecordInvocation(p) PROVE PromiseKept
    BY <2>3 DEF RecordInvocation, Submitted, JobRecord, TypeOK, PromiseKept
  <2>4. ASSUME NEW p \in Procs, Heartbeat(p) PROVE PromiseKept
    <3>1. CASE job' = job
      BY <3>1 DEF PromiseKept
    <3>2. CASE job' = [job EXCEPT ![frame[p].run] =
                         [job[frame[p].run] EXCEPT !.expires = frame[p].now + LeaseTime]]
      BY <3>2 DEF JobRecord, TypeOK, PromiseKept
    <3>3. QED
      BY <2>4, <3>1, <3>2 DEF Heartbeat
  <2>5. ASSUME NEW p \in Procs, NEW outcome \in Finished, Finish(p, outcome) PROVE PromiseKept
    BY <2>5 DEF Finish, FinishedAs, JobRecord, TypeOK, PromiseKept
  <2>6. ASSUME UNCHANGED job PROVE PromiseKept
    BY <2>6 DEF PromiseKept
  <2>7. QED
    BY GrantIsGrant, CommitIsAdvance, CancelIsClose,
       <2>1, <2>2, <2>3, <2>4, <2>5, <2>6
       DEF Next, Serve, Start, Continue, vars, StartDispatch, DispatchRead, Submit, StartClaim,
           ClaimRejected, ClaimShared, StartHeartbeat, EmitProgress, CancelSignal, Reconcile,
           ReconcileDecide, Tick, Crash
<1>3. QED
  BY <1>1, <1>2, TypeCorrect, PTL DEF Spec, KeepsPromise, Promise!Spec

\* Whatever answers get lost and however dispatches overlap, a record names the
\* invocation the executor started for that very run.
THEOREM InvocationsAreReal == Spec => []RecordedInvocationIsReal
<1>1. Init => RecordedInvocationIsReal
  BY DEF Init, Absent, RecordedInvocationIsReal
<1>2. TypeOK /\ RecordedInvocationIsReal /\ [Next]_vars => RecordedInvocationIsReal'
  <2> SUFFICES ASSUME TypeOK, RecordedInvocationIsReal, [Next]_vars, NEW r \in Runs,
                      job'[r].invocation # None
               PROVE  job'[r].invocation = by_run'[r]
    BY DEF RecordedInvocationIsReal
  <2> USE DEF TypeOK, RecordedInvocationIsReal
  <2> DEFINE Same == job'[r].invocation = job[r].invocation
  <2>1. ASSUME Same, UNCHANGED by_run PROVE job'[r].invocation = by_run'[r]
    BY <2>1
  <2>2. ASSUME NEW p \in Procs, Submit(p) PROVE job'[r].invocation = by_run'[r]
    BY <2>2 DEF Submit
  <2>3. ASSUME NEW p \in Procs, RecordInvocation(p) PROVE job'[r].invocation = by_run'[r]
    BY <2>3 DEF RecordInvocation, Submitted, JobRecord
  <2>4. ASSUME NEW s \in Runs, Create(s) PROVE Same /\ UNCHANGED by_run
    BY <2>4 DEF Create, JobRecord
  <2>5. ASSUME NEW p \in Procs, DispatchMark(p) PROVE Same /\ UNCHANGED by_run
    BY <2>5 DEF DispatchMark, JobRecord
  <2>6. ASSUME NEW p \in Procs, ClaimNew(p) PROVE Same /\ UNCHANGED by_run
    BY <2>6 DEF ClaimNew, NewAttempt, JobRecord
  <2>7. ASSUME NEW p \in Procs, Heartbeat(p) PROVE Same /\ UNCHANGED by_run
    BY <2>7 DEF Heartbeat, JobRecord
  <2>8. ASSUME NEW p \in Procs, NEW n \in 0..MaxSequence, CommitProgress(p, n)
        PROVE  Same /\ UNCHANGED by_run
    BY <2>8 DEF CommitProgress, JobRecord
  <2>9. ASSUME NEW p \in Procs, NEW outcome \in Finished, Finish(p, outcome)
        PROVE  Same /\ UNCHANGED by_run
    BY <2>9 DEF Finish, FinishedAs, JobRecord
  <2>10. ASSUME NEW p \in Procs, NEW s \in Runs, Cancel(p, s) PROVE Same /\ UNCHANGED by_run
    BY <2>10 DEF Cancel, CancelledAt, JobRecord
  <2>11. ASSUME UNCHANGED <<job, by_run>> PROVE Same /\ UNCHANGED by_run
    BY <2>11
  <2>12. QED
    BY <2>1, <2>2, <2>3, <2>4, <2>5, <2>6, <2>7, <2>8, <2>9, <2>10, <2>11
       DEF Next, Serve, Start, Continue, vars, StartDispatch, DispatchRead, StartClaim,
           ClaimRejected, ClaimShared, StartHeartbeat, EmitProgress, CancelSignal, Reconcile,
           ReconcileDecide, Tick, Crash
<1>3. QED
  BY <1>1, <1>2, TypeCorrect, PTL DEF Spec

-----------------------------------------------------------------------------
(***************************************************************************)
(* The budget ledger. The optimistic ledger implements BudgetPromise, for  *)
(* any number of clients, reservations and retries; what BudgetLedger      *)
(* assumes of its constants is a hypothesis here.                          *)
(***************************************************************************)

\* The larger of two naturals is one of them (settle).
LEMMA MaxType ==
  ASSUME NEW x \in Int
  PROVE  B!Max({0, x}) \in Nat
<1>1. \E m \in {0, x} : \A y \in {0, x} : m >= y
  <2>1. CASE x >= 0
    BY <2>1
  <2>2. CASE ~(x >= 0)
    BY <2>2
  <2>3. QED
    BY <2>1, <2>2
<1>2. B!Max({0, x}) \in {0, x} /\ \A y \in {0, x} : B!Max({0, x}) >= y
  BY <1>1 DEF B!Max
<1>3. QED
  BY <1>2

\* An account stays an account under a call's change, and its revision moves on.
LEMMA ChangedType ==
  ASSUME NEW c \in B!Call, NEW a \in B!Account
  PROVE  B!Changed(c, a) \in B!Account /\ B!Changed(c, a).revision = a.revision + 1
<1> DEFINE next == [a EXCEPT !.revision = @ + 1]
<1>1. /\ next \in B!Account /\ next.revision = a.revision + 1
      /\ next.open = a.open
      /\ next.estimated \in Nat /\ next.measured \in Nat /\ next.released \in Nat
      /\ c.id \in Reservations /\ c.amount \in Nat
      /\ a.open \in [Reservations -> Nat] /\ a.open[c.id] \in Nat
      /\ c.op \in {"reserve", "settle", "release"}
  BY DEF B!Account, B!Call
<1>2. CASE c.op = "reserve"
  <2>1. B!Changed(c, a) = [next EXCEPT !.open[c.id] = c.amount, !.estimated = @ + c.amount]
    BY <1>2 DEF B!Changed
  <2>2. [next.open EXCEPT ![c.id] = c.amount] \in [Reservations -> Nat]
        /\ next.estimated + c.amount \in Nat
    BY <1>1
  <2> HIDE DEF next
  <2>3. QED
    BY <1>1, <2>1, <2>2 DEF B!Account
<1>3. CASE c.op = "settle"
  <2> DEFINE surplus == B!Max({0, a.open[c.id] - c.amount})
  <2>1. surplus \in Nat
    <3> DEFINE over == a.open[c.id] - c.amount
    <3>1. over \in Int
      BY <1>1
    <3> HIDE DEF over
    <3>2. B!Max({0, over}) \in Nat
      BY <3>1, MaxType, Zenon
    <3>3. QED
      BY <3>2, Zenon DEF over
  <2>2. B!Changed(c, a) = [next EXCEPT !.open[c.id] = 0, !.measured = @ + c.amount,
                                     !.released = @ + surplus]
    BY <1>3 DEF B!Changed
  <2>3. [next.open EXCEPT ![c.id] = 0] \in [Reservations -> Nat]
        /\ next.measured + c.amount \in Nat /\ next.released + surplus \in Nat
    BY <1>1, <2>1
  <2> HIDE DEF surplus, next
  <2>4. QED
    BY <1>1, <2>2, <2>3 DEF B!Account
<1>4. CASE c.op = "release"
  <2>1. B!Changed(c, a) = [next EXCEPT !.open[c.id] = 0, !.released = @ + a.open[c.id]]
    BY <1>4 DEF B!Changed
  <2>2. [next.open EXCEPT ![c.id] = 0] \in [Reservations -> Nat]
        /\ next.released + a.open[c.id] \in Nat
    BY <1>1
  <2> HIDE DEF next
  <2>3. QED
    BY <1>1, <2>1, <2>2 DEF B!Account
<1>5. QED
  BY <1>1, <1>2, <1>3, <1>4

-----------------------------------------------------------------------------
\* A run that began has a reservation id, so settle names one.
Owned == \A p \in Clients : stage[p] # "new" => mine[p] \in Reservations

BudgetTypeInv == B!TypeOK /\ Owned

\* NoCall is no pending call.
LEMMA IdleCall ==
  /\ B!NoCall.at = "idle" /\ B!NoCall.op = "none"
  /\ B!NoCall \notin B!Call
  /\ \A c \in B!Call : c.at \in {"read", "swap"}
BY DEF B!NoCall, B!Call

\* A call just begun, and what is left when it returns (Begin, Returned).
LEMMA BeginType ==
  ASSUME B!TypeOK, NEW p \in Clients, NEW op \in {"reserve", "settle", "release"},
         NEW i \in Reservations, NEW n \in Nat, B!Begin(p, op, i, n)
  PROVE  call' \in [Clients -> B!Call \cup {B!NoCall}]
<1>1. B!NewAccount \in B!Account
  BY DEF B!NewAccount, B!Account
<1>2. [at |-> "read", op |-> op, id |-> i, amount |-> n, copy |-> B!NewAccount, tries |-> 0] \in B!Call
  BY <1>1 DEF B!Call
<1>3. QED
  BY <1>2 DEF B!Begin, B!TypeOK

LEMMA ReturnedType ==
  ASSUME BudgetTypeInv, NEW p \in Clients, NEW done, B!Returned(p, done), UNCHANGED mine
  PROVE  /\ call' \in [Clients -> B!Call \cup {B!NoCall}]
         /\ stage' \in [Clients -> B!Stages]
         /\ Owned'
<1>1. call' \in [Clients -> B!Call \cup {B!NoCall}]
  BY DEF B!Returned, BudgetTypeInv, B!TypeOK
<1>2. /\ stage' \in [Clients -> B!Stages]
      /\ \A q \in Clients : stage'[q] # "new" => stage[q] # "new"
  BY DEF B!Returned, BudgetTypeInv, B!TypeOK, B!Stages
<1>3. QED
  BY <1>1, <1>2 DEF BudgetTypeInv, Owned

LEMMA BudgetTypeStep == B!BudgetAssumption /\ BudgetTypeInv /\ [B!Next]_(B!vars) => BudgetTypeInv'
<1> SUFFICES ASSUME B!BudgetAssumption, BudgetTypeInv, [B!Next]_(B!vars) PROVE BudgetTypeInv'
  OBVIOUS
<1> USE DEF BudgetTypeInv
<1>1. CASE UNCHANGED B!vars
  BY <1>1 DEF B!vars, B!TypeOK, Owned
<1>2. ASSUME NEW p \in Clients, NEW i \in Reservations, B!Run(p, i)
      PROVE  BudgetTypeInv'
  <2>1. call' \in [Clients -> B!Call \cup {B!NoCall}]
    BY <1>2, BeginType DEF B!Run, B!BudgetAssumption
  <2>2. stage' \in [Clients -> B!Stages] /\ mine' \in [Clients -> Reservations \cup {NoReservation}]
    BY <1>2 DEF B!Run, B!TypeOK, B!Stages
  <2>3. Owned'
    BY <1>2 DEF B!Run, B!TypeOK, Owned
  <2>4. handed' \subseteq Reservations /\ account' \in B!Account
    BY <1>2 DEF B!Run, B!TypeOK
  <2>5. QED
    BY <2>1, <2>2, <2>3, <2>4 DEF B!TypeOK
<1>3. ASSUME NEW p \in Clients, NEW i \in Reservations, B!Cancel(p, i)
      PROVE  BudgetTypeInv'
  <2>1. call' \in [Clients -> B!Call \cup {B!NoCall}]
    BY <1>3, BeginType DEF B!Cancel, B!BudgetAssumption
  <2>2. QED
    BY <1>3, <2>1 DEF B!Cancel, B!TypeOK, Owned
<1>4. ASSUME NEW p \in Clients, B!Prepare(p) \/ B!PrepareFails(p)
      PROVE  BudgetTypeInv'
  BY <1>4 DEF B!Prepare, B!PrepareFails, B!TypeOK, Owned, B!Stages
<1>5. ASSUME NEW p \in Clients, NEW charge \in Charges, B!AnalysisEnds(p, charge)
      PROVE  BudgetTypeInv'
  <2>1. mine[p] \in Reservations /\ charge \in Nat
    BY <1>5 DEF B!AnalysisEnds, Owned, B!BudgetAssumption
  <2>2. call' \in [Clients -> B!Call \cup {B!NoCall}]
    BY <1>5, <2>1, BeginType DEF B!AnalysisEnds
  <2>3. QED
    BY <1>5, <2>1, <2>2 DEF B!AnalysisEnds, B!TypeOK, Owned, B!Stages
<1>6. ASSUME NEW p \in Clients, B!Read(p)
      PROVE  BudgetTypeInv'
  <2>1. UNCHANGED <<account, handed, mine>>
    BY <1>6 DEF B!Read
  <2>2. CASE B!Returned(p, FALSE)
    BY <2>1, <2>2, ReturnedType DEF B!TypeOK
  <2>3. CASE /\ call' = [call EXCEPT ![p].at = "swap", ![p].copy = account]
             /\ UNCHANGED stage
    <3>1. call[p] \in B!Call
      BY <1>6, IdleCall DEF B!Read, B!TypeOK
    <3>2. [call[p] EXCEPT !.at = "swap", !.copy = account] \in B!Call
      BY <3>1 DEF B!Call, B!TypeOK
    <3>3. call' \in [Clients -> B!Call \cup {B!NoCall}]
      BY <2>3, <3>2 DEF B!TypeOK
    <3>4. QED
      BY <2>1, <2>3, <3>3 DEF B!TypeOK, Owned
  <2>4. QED
    BY <1>6, <2>2, <2>3 DEF B!Read
<1>7. ASSUME NEW p \in Clients, B!Swap(p)
      PROVE  BudgetTypeInv'
  <2>1. call[p] \in B!Call /\ call[p].copy \in B!Account
    BY <1>7, IdleCall DEF B!Swap, B!TypeOK, B!Call
  <2>2. account' \in B!Account
    BY <1>7, <2>1, ChangedType DEF B!Swap
  <2>3. QED
    BY <1>7, <2>2, ReturnedType DEF B!Swap, B!TypeOK
<1>8. ASSUME NEW p \in Clients, B!SwapLost(p)
      PROVE  BudgetTypeInv'
  <2>1. UNCHANGED <<account, handed, mine>>
    BY <1>8 DEF B!SwapLost
  <2>2. CASE B!Returned(p, FALSE)
    BY <2>1, <2>2, ReturnedType DEF B!TypeOK
  <2>3. CASE /\ call' = [call EXCEPT ![p].at = "read", ![p].tries = @ + 1]
             /\ UNCHANGED stage
    <3>1. call[p] \in B!Call
      BY <1>8, IdleCall DEF B!SwapLost, B!TypeOK
    <3>2. call[p].tries + 1 \in Nat
      BY <3>1 DEF B!Call
    <3>3. [call[p] EXCEPT !.at = "read", !.tries = call[p].tries + 1] \in B!Call
      BY <3>1, <3>2 DEF B!Call
    <3>4. call' \in [Clients -> B!Call \cup {B!NoCall}]
      BY <2>3, <3>3 DEF B!TypeOK
    <3>5. QED
      BY <2>1, <2>3, <3>4 DEF B!TypeOK, Owned
  <2>4. QED
    BY <1>8, <2>2, <2>3 DEF B!SwapLost
<1>9. QED
  BY <1>1, <1>2, <1>3, <1>4, <1>5, <1>6, <1>7, <1>8 DEF B!Next

LEMMA BudgetTypeInvCorrect ==
  ASSUME B!BudgetAssumption
  PROVE  B!Spec => []BudgetTypeInv
<1>1. B!Init => BudgetTypeInv
  BY DEF B!Init, BudgetTypeInv, B!TypeOK, Owned, B!NewAccount, B!Account, B!Stages
<1>2. BudgetTypeInv /\ [B!Next]_(B!vars) => BudgetTypeInv'
  BY BudgetTypeStep
<1>3. QED
  BY <1>1, <1>2, PTL DEF B!Spec

\* The ledger's type invariant, for every number of clients and reservations.
THEOREM BudgetTypeCorrect ==
  ASSUME B!BudgetAssumption
  PROVE  B!Spec => []B!TypeOK
BY BudgetTypeInvCorrect, PTL DEF BudgetTypeInv

-----------------------------------------------------------------------------
(***************************************************************************)
(* The refinement. A copy whose revision is still the stored one is the    *)
(* stored account, because every swap moves the revision; and an id is     *)
(* reserved by the one call that made it.                                  *)
(***************************************************************************)
Amounts == {0, Estimate} \cup Charges

AmountsListed == \A p \in Clients : call[p].op # "none" => call[p].amount \in Amounts

CopyIsCurrent ==
  \A p \in Clients : call[p].at = "swap" =>
    /\ call[p].copy.revision <= account.revision
    /\ call[p].copy.revision = account.revision => call[p].copy = account
    /\ B!Allowed(call[p], call[p].copy)

FreshIsClosed ==
  /\ \A i \in Reservations \ handed : account.open[i] = 0
  /\ \A p \in Clients : call[p].op = "reserve" =>
       /\ call[p].id \in handed /\ account.open[call[p].id] = 0
       /\ \A q \in Clients \ {p} : call[q].op = "reserve" => call[q].id # call[p].id

LedgerInv == AmountsListed /\ CopyIsCurrent /\ FreshIsClosed

\* What a change does to the parts of an account the promise speaks of.
LEMMA ChangedParts ==
  ASSUME NEW c \in B!Call, NEW a \in B!Account
  PROVE  /\ B!Changed(c, a).open = [a.open EXCEPT ![c.id] = IF c.op = "reserve" THEN c.amount ELSE 0]
         /\ B!Changed(c, a).measured = IF c.op = "settle" THEN a.measured + c.amount ELSE a.measured
<1>1. c.op \in {"reserve", "settle", "release"}
  BY DEF B!Call
<1>2. QED
  BY <1>1 DEF B!Changed, B!Account

\* A step of one client leaves the calls of the others alone.
LEMMA OthersKeepCalling ==
  ASSUME B!TypeOK, NEW p \in Clients,
         \/ \E done \in BOOLEAN : B!Returned(p, done)
         \/ \E op \in {"reserve", "settle", "release"}, i \in Reservations, n \in Nat :
              B!Begin(p, op, i, n)
         \/ \E c : call' = [call EXCEPT ![p] = c]
  PROVE  \A q \in Clients \ {p} : call'[q] = call[q]
BY DEF B!Returned, B!Begin, B!TypeOK

\* A client that begins a call keeps the invariant (Run, Cancel, AnalysisEnds).
LEMMA BeginKeeps ==
  ASSUME B!BudgetAssumption, BudgetTypeInv, LedgerInv, NEW p \in Clients,
         NEW op \in {"settle", "release"}, NEW i \in Reservations, NEW n \in Amounts,
         B!Begin(p, op, i, n), UNCHANGED <<account, handed>>
  PROVE  LedgerInv'
<1>1. /\ call'[p].at = "read" /\ call'[p].op = op /\ call'[p].amount = n
      /\ \A q \in Clients \ {p} : call'[q] = call[q]
  BY DEF B!Begin, BudgetTypeInv, B!TypeOK
<1>2. AmountsListed'
  BY <1>1 DEF LedgerInv, AmountsListed
<1>3. CopyIsCurrent'
  BY <1>1 DEF LedgerInv, CopyIsCurrent, B!Allowed
<1>4. FreshIsClosed'
  BY <1>1 DEF LedgerInv, FreshIsClosed
<1>5. QED
  BY <1>2, <1>3, <1>4 DEF LedgerInv

\* A call that ends without a swap keeps it (Read, SwapLost).
LEMMA ReturnKeeps ==
  ASSUME BudgetTypeInv, LedgerInv, NEW p \in Clients, B!Returned(p, FALSE),
         UNCHANGED <<account, handed>>
  PROVE  LedgerInv'
<1>1. call'[p] = B!NoCall /\ \A q \in Clients \ {p} : call'[q] = call[q]
  BY DEF B!Returned, BudgetTypeInv, B!TypeOK
<1>2. AmountsListed'
  BY <1>1, IdleCall DEF LedgerInv, AmountsListed
<1>3. CopyIsCurrent'
  BY <1>1, IdleCall DEF LedgerInv, CopyIsCurrent, B!Allowed
<1>4. FreshIsClosed'
  BY <1>1, IdleCall DEF LedgerInv, FreshIsClosed
<1>5. QED
  BY <1>2, <1>3, <1>4 DEF LedgerInv

\* A fresh id is nobody else's (Run).
LEMMA RunKeeps ==
  ASSUME B!BudgetAssumption, BudgetTypeInv, LedgerInv, NEW p \in Clients, NEW i \in Reservations, B!Run(p, i)
  PROVE  LedgerInv'
<1>1. /\ call'[p].at = "read" /\ call'[p].op = "reserve"
      /\ call'[p].id = i /\ call'[p].amount = Estimate
      /\ \A q \in Clients \ {p} : call'[q] = call[q]
      /\ i \notin handed /\ handed' = handed \cup {i} /\ account' = account
  BY DEF B!Run, B!Begin, BudgetTypeInv, B!TypeOK
<1>2. AmountsListed'
  BY <1>1 DEF LedgerInv, AmountsListed, Amounts
<1>3. CopyIsCurrent'
  BY <1>1 DEF LedgerInv, CopyIsCurrent, B!Allowed
<1>4. FreshIsClosed'
  BY <1>1 DEF LedgerInv, FreshIsClosed
<1>5. QED
  BY <1>2, <1>3, <1>4 DEF LedgerInv

\* A reading is current when it is made (Read).
LEMMA ReadKeeps ==
  ASSUME BudgetTypeInv, LedgerInv, NEW p \in Clients, B!Read(p)
  PROVE  LedgerInv'
<1>1. UNCHANGED <<account, handed>>
  BY DEF B!Read
<1>2. CASE ~B!Allowed(call[p], account)
  BY <1>1, <1>2, ReturnKeeps DEF B!Read
<1>3. CASE B!Allowed(call[p], account)
  <2>1. /\ call[p] \in B!Call /\ account.revision \in Nat
        /\ call' = [call EXCEPT ![p] = [call[p] EXCEPT !.at = "swap", !.copy = account]]
    BY <1>3, IdleCall DEF B!Read, BudgetTypeInv, B!TypeOK, B!Account
  <2>2. /\ call'[p].at = "swap" /\ call'[p].copy = account
        /\ call'[p].op = call[p].op /\ call'[p].id = call[p].id
        /\ call'[p].amount = call[p].amount
        /\ \A q \in Clients \ {p} : call'[q] = call[q]
    BY <2>1 DEF B!Call, BudgetTypeInv, B!TypeOK
  <2>3. AmountsListed'
    BY <2>2 DEF LedgerInv, AmountsListed
  <2>4. CopyIsCurrent'
    BY <1>1, <1>3, <2>1, <2>2 DEF LedgerInv, CopyIsCurrent, B!Allowed
  <2>5. FreshIsClosed'
    BY <1>1, <2>2 DEF LedgerInv, FreshIsClosed
  <2>6. QED
    BY <2>3, <2>4, <2>5 DEF LedgerInv
<1>4. QED
  BY <1>2, <1>3

\* A swap makes every other copy an old one (Swap).
LEMMA SwapKeeps ==
  ASSUME BudgetTypeInv, LedgerInv, NEW p \in Clients, B!Swap(p)
  PROVE  LedgerInv'
<1> DEFINE c == call[p]
<1>1. /\ c \in B!Call /\ c.copy = account /\ account \in B!Account
      /\ account' = B!Changed(c, account) /\ handed' = handed
      /\ call'[p] = B!NoCall /\ \A q \in Clients \ {p} : call'[q] = call[q]
  BY IdleCall DEF B!Swap, B!Returned, BudgetTypeInv, B!TypeOK, LedgerInv, CopyIsCurrent
<1>2. /\ account'.revision = account.revision + 1 /\ account.revision \in Nat
      /\ account'.open = [account.open EXCEPT ![c.id] = IF c.op = "reserve" THEN c.amount ELSE 0]
      /\ account.open \in [Reservations -> Nat] /\ c.id \in Reservations
  BY <1>1, ChangedType, ChangedParts DEF B!Account, B!Call
<1>3. AmountsListed'
  BY <1>1, IdleCall DEF LedgerInv, AmountsListed
<1>4. CopyIsCurrent'
  <2> SUFFICES ASSUME NEW q \in Clients, call'[q].at = "swap"
               PROVE  /\ call'[q].copy.revision <= account'.revision
                      /\ call'[q].copy.revision # account'.revision
                      /\ B!Allowed(call'[q], call'[q].copy)
    BY DEF CopyIsCurrent, B!Allowed
  <2>1. q # p /\ call'[q] = call[q] /\ call[q] \in B!Call
    BY <1>1, IdleCall DEF BudgetTypeInv, B!TypeOK
  <2>2. call[q].copy.revision <= account.revision /\ call[q].copy.revision \in Nat
    BY <2>1 DEF LedgerInv, CopyIsCurrent, B!Call, B!Account
  <2>3. QED
    BY <1>2, <2>1, <2>2 DEF LedgerInv, CopyIsCurrent
<1>5. FreshIsClosed'
  <2>1. \A i \in Reservations \ handed : account'.open[i] = 0
    BY <1>2 DEF LedgerInv, FreshIsClosed
  <2>2. ASSUME NEW q \in Clients, call'[q].op = "reserve"
        PROVE  /\ q # p /\ call'[q] = call[q] /\ call[q].id \in handed
               /\ account'.open[call[q].id] = 0
    <3>1. q # p /\ call'[q] = call[q] /\ call[q] \in B!Call /\ call[q].id \in Reservations
      BY <1>1, <2>2, IdleCall DEF BudgetTypeInv, B!TypeOK, B!Call
    <3>2. account.open[call[q].id] = 0 /\ call[q].id \in handed
      BY <2>2, <3>1 DEF LedgerInv, FreshIsClosed
    <3>3. c.op = "reserve" => c.id # call[q].id
      BY <2>2, <3>1 DEF LedgerInv, FreshIsClosed
    <3>4. QED
      BY <1>2, <3>1, <3>2, <3>3
  <2>3. QED
    BY <1>1, <2>1, <2>2 DEF LedgerInv, FreshIsClosed
<1>6. QED
  BY <1>3, <1>4, <1>5 DEF LedgerInv

\* A lost swap changes nothing but the call (SwapLost).
LEMMA SwapLostKeeps ==
  ASSUME BudgetTypeInv, LedgerInv, NEW p \in Clients, B!SwapLost(p)
  PROVE  LedgerInv'
<1>1. UNCHANGED <<account, handed>>
  BY DEF B!SwapLost
<1>2. CASE B!Returned(p, FALSE)
  BY <1>1, <1>2, ReturnKeeps
<1>3. CASE call' = [call EXCEPT ![p].at = "read", ![p].tries = @ + 1]
  <2>1. call[p] \in B!Call
    BY IdleCall DEF B!SwapLost, BudgetTypeInv, B!TypeOK
  <2>2. /\ call'[p].at = "read" /\ call'[p].op = call[p].op /\ call'[p].id = call[p].id
        /\ call'[p].amount = call[p].amount
        /\ \A q \in Clients \ {p} : call'[q] = call[q]
    BY <1>3, <2>1 DEF B!Call, BudgetTypeInv, B!TypeOK
  <2>3. AmountsListed'
    BY <2>2 DEF LedgerInv, AmountsListed
  <2>4. CopyIsCurrent'
    BY <1>1, <2>2 DEF LedgerInv, CopyIsCurrent, B!Allowed
  <2>5. FreshIsClosed'
    BY <1>1, <2>2 DEF LedgerInv, FreshIsClosed
  <2>6. QED
    BY <2>3, <2>4, <2>5 DEF LedgerInv
<1>4. QED
  BY <1>2, <1>3 DEF B!SwapLost

LEMMA LedgerStep == B!BudgetAssumption /\ BudgetTypeInv /\ LedgerInv /\ [B!Next]_(B!vars) => LedgerInv'
<1> SUFFICES ASSUME B!BudgetAssumption, BudgetTypeInv, LedgerInv, [B!Next]_(B!vars) PROVE LedgerInv'
  OBVIOUS
<1>1. CASE UNCHANGED B!vars
  BY <1>1 DEF B!vars, LedgerInv, AmountsListed, CopyIsCurrent, FreshIsClosed, B!Allowed
<1>2. ASSUME NEW p \in Clients, NEW i \in Reservations, B!Cancel(p, i)
      PROVE  LedgerInv'
  <2>1. CASE \E charge \in Charges : B!Begin(p, "settle", i, charge)
    BY <1>2, <2>1, BeginKeeps DEF B!Cancel, Amounts
  <2>2. CASE B!Begin(p, "release", i, 0)
    BY <1>2, <2>2, BeginKeeps DEF B!Cancel, Amounts
  <2>3. QED
    BY <1>2, <2>1, <2>2 DEF B!Cancel
<1>3. ASSUME NEW p \in Clients, B!Prepare(p) \/ B!PrepareFails(p)
      PROVE  LedgerInv'
  BY <1>3 DEF B!Prepare, B!PrepareFails, LedgerInv, AmountsListed, CopyIsCurrent, FreshIsClosed, B!Allowed
<1>4. ASSUME NEW p \in Clients, NEW charge \in Charges, B!AnalysisEnds(p, charge)
      PROVE  LedgerInv'
  <2>1. mine[p] \in Reservations
    BY <1>4 DEF B!AnalysisEnds, BudgetTypeInv, Owned
  <2>2. QED
    BY <1>4, <2>1, BeginKeeps DEF B!AnalysisEnds, Amounts
<1>5. QED
  BY <1>1, <1>2, <1>3, <1>4, RunKeeps, ReadKeeps, SwapKeeps, SwapLostKeeps DEF B!Next

LEMMA LedgerInvCorrect ==
  ASSUME B!BudgetAssumption
  PROVE  B!Spec => []LedgerInv
<1>1. B!Init => LedgerInv
  BY IdleCall DEF B!Init, LedgerInv, AmountsListed, CopyIsCurrent, FreshIsClosed, B!NewAccount, B!Allowed
<1>2. BudgetTypeInv /\ LedgerInv /\ [B!Next]_(B!vars) => LedgerInv'
  BY LedgerStep
<1>3. QED
  BY <1>1, <1>2, BudgetTypeInvCorrect, PTL DEF B!Spec

\* A swap is a step of the promise: what it was allowed on its copy it is allowed
\* on the account.
LEMMA SwapIsPromised ==
  ASSUME BudgetTypeInv, LedgerInv, NEW p \in Clients, B!Swap(p)
  PROVE  Ledger!Next
<1> DEFINE c == call[p]
<1>1. /\ c \in B!Call /\ c.copy = account /\ account \in B!Account
      /\ account' = B!Changed(c, account) /\ B!Allowed(c, account)
  BY IdleCall DEF B!Swap, BudgetTypeInv, B!TypeOK, LedgerInv, CopyIsCurrent
<1>2. /\ c.id \in Reservations /\ c.op \in {"reserve", "settle", "release"}
      /\ c.amount \in Amounts /\ 0 \in Amounts /\ account.measured \in Nat
  BY <1>1 DEF B!Call, B!Account, LedgerInv, AmountsListed, Amounts
<1>3. /\ account'.open = [account.open EXCEPT ![c.id] = IF c.op = "reserve" THEN c.amount ELSE 0]
      /\ account'.measured = IF c.op = "settle" THEN account.measured + c.amount
                             ELSE account.measured
  BY <1>1, ChangedParts
<1>4. CASE c.op = "reserve"
  <2>1. account.open[c.id] = 0
    BY <1>4 DEF LedgerInv, FreshIsClosed
  <2>2. account.measured + B!Reserved(account.open) + c.amount <= Limit
    BY <1>1, <1>4 DEF B!Allowed
  <2>3. B!Reserved(account.open) = Reserved(account.open)
    BY DEF Reserved, B!Reserved, MapThenSumSet, B!MapThenSumSet, MapThenFoldSet, B!MapThenFoldSet
  <2>4. Ledger!Reserve(c.id, c.amount)
    BY <1>3, <1>4, <2>1, <2>2, <2>3 DEF Ledger!Reserve
  <2>5. QED
    BY <1>2, <2>4 DEF Ledger!Next, Amounts
<1>5. CASE c.op = "settle"
  <2>1. Ledger!End(c.id, c.amount)
    BY <1>1, <1>3, <1>5 DEF Ledger!End, B!Allowed
  <2>2. QED
    BY <1>2, <2>1 DEF Ledger!Next, Amounts
<1>6. CASE c.op = "release"
  <2>1. Ledger!End(c.id, 0)
    BY <1>1, <1>2, <1>3, <1>6 DEF Ledger!End, B!Allowed
  <2>2. QED
    BY <1>2, <2>1 DEF Ledger!Next, Amounts
<1>7. QED
  BY <1>2, <1>4, <1>5, <1>6

\* The ledger implements the promise, whatever the number of clients, the length
\* of their retries and what the calls cost.
THEOREM RefinesBudgetPromise ==
  ASSUME B!BudgetAssumption
  PROVE  B!Spec => LedgerKeepsPromise
<1>1. B!Init => Ledger!Init
  BY DEF B!Init, Ledger!Init, B!NewAccount
<1>2. BudgetTypeInv /\ LedgerInv /\ [B!Next]_(B!vars) => [Ledger!Next]_<<account.open, account.measured>>
  <2> SUFFICES ASSUME BudgetTypeInv, LedgerInv, [B!Next]_(B!vars)
               PROVE  Ledger!Next \/ UNCHANGED <<account.open, account.measured>>
    OBVIOUS
  <2>1. ASSUME NEW p \in Clients, B!Swap(p)
        PROVE  Ledger!Next
    BY <2>1, SwapIsPromised
  <2>2. CASE account' = account
    BY <2>2
  <2>3. QED
    BY <2>1, <2>2 DEF B!Next, B!vars, B!Run, B!Cancel, B!Prepare, B!PrepareFails, B!AnalysisEnds, B!Read, B!SwapLost
<1>3. QED
  BY <1>1, <1>2, BudgetTypeInvCorrect, LedgerInvCorrect, PTL DEF B!Spec, LedgerKeepsPromise, Ledger!Spec

=============================================================================
