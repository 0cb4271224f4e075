--------------------------- MODULE DeletionProofs ---------------------------
(***************************************************************************)
(* What deletion guarantees for any resources, graphs, writers and         *)
(* processes, over cancelled calls, failed passes and restarts.            *)
(***************************************************************************)
EXTENDS Deletion, TLAPS

(* The invariant speaks of the records and files it is given, so that facts *)
(* about a step can be stated of the ones before and the ones after it.     *)

\* r is what tombstone t made of it, or what erasing t made of it.
Stands(recs, r, t) == t.deleted /\ ~t.hard /\ recs[r] \in {t, Erased(t)}

\* A copy of a live record that is older than the record, or the record.
Fresh(recs, r, c) ==
  /\ ~c.deleted /\ ~c.hard
  /\ c.revision <= recs[r].revision
  /\ c.revision = recs[r].revision => recs[r] = c

\* Of a deletion of s, at most items is left to clean up.
Covered(gone, s, items) == \E g \in Graphs : g.resources = s /\ g.items \subseteq items \cup gone

JobOK(recs, s, job) ==
  /\ Len(job.tombstones) = Len(s)
  /\ \A i \in 1..Len(s) : Stands(recs, s[i], job.tombstones[i])

TakenOK(recs, g, taken) ==
  /\ Len(taken) < Len(g.resources)
  /\ \A i \in 1..Len(taken) : Stands(recs, g.resources[i], taken[i])

FrameOK(recs, gone, f) ==
  /\ f.at \in {"read", "swap"} => TakenOK(recs, f.graph, f.taken)
  /\ f.at = "swap" => Fresh(recs, f.graph.resources[Len(f.taken) + 1], f.copy)
  /\ f.at = "write" => Fresh(recs, f.resource, f.copy) /\ f.copy.data < MaxData
  /\ f.at = "clean" => JobOK(recs, f.scope, f.job) /\ Covered(gone, f.scope, f.todo \cup f.failed)
  /\ f.at = "erase" =>
       /\ JobOK(recs, f.scope, f.job) /\ Covered(gone, f.scope, {}) /\ f.job.items = {}
       /\ f.next \in 1..Len(f.scope)
       /\ \A i \in 1..Len(f.scope) : i < f.next => recs[f.scope[i]].hard

ErasedWereDeleted == \A r \in Resources : records[r].hard => records[r].deleted
FramesOK == \A p \in Procs : FrameOK(records, cleaned, frame[p])
JobsOK ==
  \A s \in Scopes : jobs[s] # NoJob =>
    JobOK(records, s, jobs[s]) /\ Covered(cleaned, s, jobs[s].items)

IInv ==
  /\ TypeOK /\ ErasedWereDeleted /\ FramesOK /\ JobsOK
  /\ CompleteLeavesNothing /\ ErasedAfterCleanup

\* All that a step does to records: a live one is replaced by a later one, and a
\* deleted one is erased.
Moves(recs, new) ==
  \A r \in Resources :
    \/ new[r] = recs[r]
    \/ ~recs[r].deleted /\ ~new[r].hard /\ new[r].revision > recs[r].revision
    \/ recs[r].deleted /\ ~recs[r].hard /\ new[r] = Erased(recs[r])

-----------------------------------------------------------------------------
LEMMA ScopesAreSequences ==
  ASSUME NEW s \in Scopes
  PROVE  /\ s \in Seq(Resources) /\ Len(s) \in Nat \ {0}
         /\ \A i \in 1..Len(s) : s[i] \in Resources
         /\ \A i, j \in 1..Len(s) : s[i] = s[j] => i = j
<1>1. PICK g \in Graphs : s = g.resources
  BY DEF Scopes
<1>2. s \in Seq(Resources) /\ s # <<>> /\ IsInjective(s)
  BY <1>1, DeletionAssumption
<1>3. QED
  BY <1>2 DEF IsInjective

LEMMA GraphsAreTyped ==
  ASSUME NEW g \in Graphs
  PROVE  g.resources \in Scopes /\ g.items \subseteq Items
BY DeletionAssumption DEF Scopes

LEMMA RecordTypes ==
  /\ \A r \in Resources, c \in Record : Tombstone(r, c) \in Record
  /\ \A c \in Record : Erased(c) \in Record
  /\ NewRecord \in Record
<1>1. 0 \in 0..MaxData /\ 1 \in 0..MaxData
  BY DeletionAssumption
<1>2. ASSUME NEW r \in Resources, NEW c \in Record PROVE Tombstone(r, c) \in Record
  <2> DEFINE c1 == [c EXCEPT !.generation = @ + 1]
             c2 == [c1 EXCEPT !.revision = @ + 1]
             c3 == [c2 EXCEPT !.deleted = TRUE]
             c4 == [c3 EXCEPT !.cancel = @ \/ r \in RunKind]
  <2>1. c1 \in Record
    BY DEF Record
  <2> HIDE DEF c1
  <2>2. c2 \in Record
    BY <2>1 DEF Record
  <2> HIDE DEF c2
  <2>3. c3 \in Record
    BY <2>2 DEF Record
  <2> HIDE DEF c3
  <2>4. c4 \in Record
    BY <2>3 DEF Record
  <2>5. Tombstone(r, c) = c4
    BY DEF Tombstone, c1, c2, c3, Record
  <2>6. QED
    BY <2>4, <2>5
<1>3. ASSUME NEW c \in Record PROVE Erased(c) \in Record
  <2> DEFINE c1 == [c EXCEPT !.revision = @ + 1]
             c2 == [c1 EXCEPT !.hard = TRUE]
             c3 == [c2 EXCEPT !.data = 0]
  <2>1. c1 \in Record
    BY DEF Record
  <2> HIDE DEF c1
  <2>2. c2 \in Record
    BY <2>1 DEF Record
  <2> HIDE DEF c2
  <2>3. c3 \in Record
    BY <1>1, <2>2 DEF Record
  <2>4. Erased(c) = c3
    BY DEF Erased, c1, c2, Record
  <2>5. QED
    BY <2>3, <2>4
<1>4. NewRecord \in Record
  BY <1>1 DEF Record, NewRecord
<1>5. QED
  BY <1>2, <1>3, <1>4

LEMMA StandsStays ==
  ASSUME NEW recs \in [Resources -> Record], NEW new, Moves(recs, new),
         NEW r \in Resources, NEW t \in Record, Stands(recs, r, t)
  PROVE  Stands(new, r, t)
<1>1. recs[r].deleted
  BY DEF Stands, Erased, Record
<1>2. ~recs[r].hard => recs[r] = t
  BY DEF Stands, Erased, Record
<1>3. QED
  BY <1>1, <1>2 DEF Stands, Moves

LEMMA FreshStays ==
  ASSUME NEW recs \in [Resources -> Record], NEW new, Moves(recs, new),
         NEW r \in Resources, NEW c \in Record, Fresh(recs, r, c), new[r] \in Record
  PROVE  Fresh(new, r, c)
<1>1. CASE new[r] = recs[r]
  BY <1>1 DEF Fresh
<1>2. CASE new[r].revision > recs[r].revision
  BY <1>2 DEF Fresh, Record
<1>3. CASE recs[r].deleted /\ new[r] = Erased(recs[r])
  <2>1. recs[r] # c
    BY <1>3 DEF Fresh
  <2>2. new[r].revision = recs[r].revision + 1
    BY <1>3 DEF Erased, Record
  <2>3. QED
    BY <2>1, <2>2 DEF Fresh, Record
<1>4. QED
  BY <1>1, <1>2, <1>3 DEF Moves

LEMMA HardStays ==
  ASSUME NEW recs, NEW new, Moves(recs, new), NEW r \in Resources,
         recs[r].hard, recs[r].hard => recs[r].deleted
  PROVE  new[r] = recs[r]
BY DEF Moves

LEMMA CoveredStays ==
  ASSUME NEW gone, NEW more, gone \subseteq more, NEW s, NEW items, Covered(gone, s, items)
  PROVE  Covered(more, s, items)
BY DEF Covered

LEMMA JobStays ==
  ASSUME NEW recs \in [Resources -> Record], NEW new, Moves(recs, new),
         NEW s \in Scopes, NEW job \in Job, JobOK(recs, s, job)
  PROVE  JobOK(new, s, job)
<1>1. \A i \in 1..Len(s) : s[i] \in Resources /\ job.tombstones[i] \in Record
  BY ScopesAreSequences DEF JobOK, Job
<1>2. QED
  BY <1>1, StandsStays DEF JobOK

LEMMA FrameTypes ==
  ASSUME TypeOK, NEW p \in Procs
  PROVE  /\ At(p, "read") => frame[p] \in Reading
         /\ At(p, "swap") => frame[p] \in Swapping
         /\ At(p, "look") => frame[p] \in Looking
         /\ At(p, "write") => frame[p] \in Writing
         /\ At(p, "clean") => frame[p] \in Cleaning
         /\ At(p, "erase") => frame[p] \in Erasing
<1>1. frame[p] \in Frame \cup {Idle}
  BY DEF TypeOK
<1>2. QED
  BY <1>1 DEF At, Frame, Idle, Reading, Swapping, Looking, Writing, Cleaning, Erasing

\* The resource a deletion has come to is one of its graph's.
LEMMA TargetIsResource ==
  ASSUME NEW g \in Graphs, NEW taken \in Seq(Record), Len(taken) < Len(g.resources)
  PROVE  /\ Len(taken) + 1 \in 1..Len(g.resources)
         /\ g.resources[Len(taken) + 1] \in Resources
<1>1. g.resources \in Scopes
  BY GraphsAreTyped
<1>2. Len(taken) \in Nat /\ Len(g.resources) \in Nat
  BY <1>1, ScopesAreSequences
<1>3. Len(taken) + 1 \in 1..Len(g.resources)
  BY <1>2
<1>4. QED
  BY <1>1, <1>3, ScopesAreSequences

LEMMA FrameStays ==
  ASSUME NEW recs \in [Resources -> Record], NEW new \in [Resources -> Record],
         Moves(recs, new), \A r \in Resources : recs[r].hard => recs[r].deleted,
         NEW gone, NEW more, gone \subseteq more,
         NEW f \in Frame \cup {Idle}, FrameOK(recs, gone, f)
  PROVE  FrameOK(new, more, f)
<1>1. CASE f \in Reading \cup Swapping
  <2>1. f.graph \in Graphs /\ f.taken \in Seq(Record) /\ f.graph.resources \in Scopes
    BY <1>1, GraphsAreTyped DEF Reading, Swapping
  <2>2. TakenOK(recs, f.graph, f.taken)
    BY <1>1 DEF FrameOK, Reading, Swapping
  <2>3. \A i \in 1..Len(f.taken) : f.graph.resources[i] \in Resources /\ f.taken[i] \in Record
    BY <2>1, <2>2, ScopesAreSequences DEF TakenOK
  <2>4. TakenOK(new, f.graph, f.taken)
    BY <2>2, <2>3, StandsStays DEF TakenOK
  <2>5. f.at = "swap" => Fresh(new, f.graph.resources[Len(f.taken) + 1], f.copy)
    <3> SUFFICES ASSUME f.at = "swap"
                 PROVE  Fresh(new, f.graph.resources[Len(f.taken) + 1], f.copy)
      OBVIOUS
    <3>1. f.copy \in Record
      BY <1>1 DEF Reading, Swapping
    <3>2. f.graph.resources[Len(f.taken) + 1] \in Resources
      BY <2>1, <2>2, TargetIsResource DEF TakenOK
    <3>3. QED
      BY <3>1, <3>2, FreshStays DEF FrameOK
  <2>6. f.at \in {"read", "swap"}
    BY <1>1 DEF Reading, Swapping
  <2>7. QED
    BY <2>4, <2>5, <2>6 DEF FrameOK
<1>2. CASE f \in Writing
  <2>1. f.at = "write" /\ f.resource \in Resources /\ f.copy \in Record
    BY <1>2 DEF Writing
  <2>2. Fresh(new, f.resource, f.copy)
    BY <2>1, FreshStays DEF FrameOK
  <2>3. QED
    BY <2>1, <2>2 DEF FrameOK
<1>3. CASE f \in Cleaning
  <2>1. f.at = "clean" /\ f.scope \in Scopes /\ f.job \in Job
    BY <1>3 DEF Cleaning
  <2>2. QED
    BY <2>1, JobStays, CoveredStays DEF FrameOK
<1>4. CASE f \in Erasing
  <2>1. f.at = "erase" /\ f.scope \in Scopes /\ f.job \in Job
    BY <1>4 DEF Erasing
  <2>2. JobOK(new, f.scope, f.job) /\ Covered(more, f.scope, {})
    BY <2>1, JobStays, CoveredStays DEF FrameOK
  <2>3. \A i \in 1..Len(f.scope) : i < f.next => new[f.scope[i]].hard
    BY <2>1, ScopesAreSequences, HardStays DEF FrameOK
  <2>4. QED
    BY <2>1, <2>2, <2>3 DEF FrameOK
<1>5. CASE f \in Looking \cup {Idle}
  BY <1>5 DEF FrameOK, Looking, Idle
<1>6. QED
  BY <1>1, <1>2, <1>3, <1>4, <1>5 DEF Frame

-----------------------------------------------------------------------------
(* What a step does to the repository and to the files. *)

LEMMA TombstoneMoves ==
  ASSUME IInv, NEW p \in Procs, SwapTarget(p)
  PROVE  /\ Target(p) \in Resources
         /\ Tombstone(Target(p), frame[p].copy) \in Record
         /\ records' \in [Resources -> Record] /\ Moves(records, records')
         /\ Stands(records', Target(p), Tombstone(Target(p), frame[p].copy))
         /\ \A r \in Resources : records[r].deleted => records'[r] = records[r]
<1> DEFINE r == Target(p)
           c == frame[p].copy
           t == Tombstone(r, c)
<1>1. At(p, "swap") /\ FrameOK(records, cleaned, frame[p]) /\ frame[p] \in Swapping
  BY FrameTypes DEF SwapTarget, IInv, FramesOK
<1>2. c \in Record /\ r \in Resources
  BY <1>1, TargetIsResource DEF Swapping, FrameOK, TakenOK, Target, At
<1>3. records[r] = c /\ ~c.deleted /\ ~c.hard
  BY <1>1 DEF FrameOK, Fresh, SwapTarget, Current, At, Target
<1>4. t \in Record
  BY <1>2, RecordTypes
<1>5. t.deleted /\ ~t.hard /\ t.revision > c.revision
  BY <1>2, <1>3 DEF Tombstone, Record
<1>6. records' = [records EXCEPT ![r] = t] /\ records \in [Resources -> Record]
  BY DEF SwapTarget, Put, IInv, TypeOK
<1> HIDE DEF r, c, t
<1>7. records' \in [Resources -> Record] /\ Moves(records, records')
  BY <1>2, <1>3, <1>4, <1>5, <1>6 DEF Moves
<1>8. Stands(records', r, t)
  BY <1>2, <1>5, <1>6 DEF Stands
<1>9. \A z \in Resources : records[z].deleted => records'[z] = records[z]
  BY <1>2, <1>3, <1>6
<1>10. QED
  BY <1>2, <1>4, <1>7, <1>8, <1>9 DEF r, c, t

LEMMA WriteMoves ==
  ASSUME IInv, NEW p \in Procs, SwapWrite(p)
  PROVE  /\ records' \in [Resources -> Record] /\ Moves(records, records')
         /\ \A r \in Resources : records[r].deleted => records'[r] = records[r]
<1> DEFINE r == frame[p].resource
           c == frame[p].copy
           w == [c EXCEPT !.revision = @ + 1, !.data = @ + 1]
<1>1. At(p, "write") /\ FrameOK(records, cleaned, frame[p]) /\ frame[p] \in Writing
  BY FrameTypes DEF SwapWrite, IInv, FramesOK
<1>2. c \in Record /\ r \in Resources /\ records \in [Resources -> Record]
  BY <1>1 DEF Writing, IInv, TypeOK
<1>3. CASE ~Current(r, c.revision)
  BY <1>2, <1>3 DEF SwapWrite, Moves
<1>4. CASE Current(r, c.revision)
  <2>1. records[r] = c /\ ~c.deleted /\ ~c.hard /\ c.data < MaxData
    BY <1>1, <1>4 DEF FrameOK, Fresh, Current, At
  <2>2. c.data + 1 \in 0..MaxData
    BY <1>2, <2>1, DeletionAssumption DEF Record
  <2> DEFINE c1 == [c EXCEPT !.revision = @ + 1]
             c2 == [c1 EXCEPT !.data = @ + 1]
  <2>3. c1 \in Record /\ c1.data = c.data /\ ~c1.hard /\ c1.revision > c.revision
    BY <1>2, <2>1 DEF Record
  <2> HIDE DEF c1
  <2>4. c2 \in Record /\ ~c2.hard /\ c2.revision > c.revision
    BY <2>2, <2>3 DEF Record
  <2>5. w = c2
    BY <1>2 DEF c1, Record
  <2>6. records' = [records EXCEPT ![r] = w]
    BY <1>4 DEF SwapWrite, Put
  <2> HIDE DEF c2, w, c, r
  <2>7. QED
    BY <1>2, <2>1, <2>4, <2>5, <2>6 DEF Moves
<1>5. QED
  BY <1>3, <1>4

\* Whether the swap succeeds or not; when it does, the record is erased from its
\* tombstone.
LEMMA EraseMoves ==
  ASSUME IInv, NEW p \in Procs, EraseResource(p)
  PROVE  LET r == frame[p].scope[frame[p].next]
             t == frame[p].job.tombstones[frame[p].next] IN
         /\ r \in Resources
         /\ records' \in [Resources -> Record] /\ Moves(records, records')
         /\ Current(r, t.revision) => records'[r].hard /\ records' = [records EXCEPT ![r] = Erased(t)]
         /\ ~Current(r, t.revision) => records' = records
<1> DEFINE f == frame[p]
           r == f.scope[f.next]
           t == f.job.tombstones[f.next]
<1>1. At(p, "erase") /\ FrameOK(records, cleaned, f) /\ f \in Erasing
  BY FrameTypes DEF EraseResource, IInv, FramesOK
<1>2. f.scope \in Scopes /\ f.job \in Job /\ f.next \in 1..Len(f.scope) /\ JobOK(records, f.scope, f.job)
  BY <1>1 DEF Erasing, FrameOK, At
<1>3. r \in Resources
  BY <1>2, ScopesAreSequences
<1>4. t \in Record /\ Stands(records, r, t)
  BY <1>2 DEF JobOK, Job
<1>5. records \in [Resources -> Record]
  BY DEF IInv, TypeOK
<1>6. Erased(t) \in Record /\ Erased(t).hard /\ Erased(t).revision = t.revision + 1
  BY <1>4, RecordTypes DEF Erased, Record
<1>7. CASE Current(r, t.revision)
  <2>1. records' = [records EXCEPT ![r] = Erased(t)]
    BY <1>7 DEF EraseResource, Put
  <2>2. records[r] = t /\ t.deleted /\ ~t.hard
    BY <1>4, <1>6, <1>7 DEF Stands, Current, Record
  <2> HIDE DEF f, r, t
  <2>3. records' \in [Resources -> Record] /\ records'[r].hard /\ Moves(records, records')
    BY <1>3, <1>5, <1>6, <2>1, <2>2 DEF Moves
  <2>4. QED
    BY <1>3, <1>7, <2>1, <2>3 DEF f, r, t
<1>8. CASE ~Current(r, t.revision)
  <2>1. records' = records
    BY <1>8 DEF EraseResource
  <2>2. QED
    BY <1>3, <1>5, <1>8, <2>1 DEF Moves
<1>9. QED
  BY <1>7, <1>8

LEMMA StepMoves ==
  ASSUME IInv, [Next]_vars
  PROVE  /\ records' \in [Resources -> Record] /\ Moves(records, records')
         /\ cleaned \subseteq cleaned' /\ cleaned' \subseteq Items
<1>1. records \in [Resources -> Record] /\ cleaned \subseteq Items
  BY DEF IInv, TypeOK
<1>2. records' = records => Moves(records, records')
  BY DEF Moves
<1>3. ASSUME NEW p \in Procs, Start(p) \/ Crash(p) PROVE UNCHANGED <<records, cleaned>>
  BY <1>3 DEF Start, StartTombstone, StartWrite, StartHardDelete, Crash
<1>4. ASSUME NEW p \in Procs, ReadTarget(p) \/ SwapTargetLost(p) \/ LookWrite(p)
      PROVE  UNCHANGED <<records, cleaned>>
  BY <1>4 DEF ReadTarget, SwapTargetLost, LookWrite
<1>5. ASSUME NEW p \in Procs, SwapTarget(p) \/ SwapWrite(p) \/ EraseResource(p)
      PROVE  /\ records' \in [Resources -> Record] /\ Moves(records, records')
             /\ UNCHANGED cleaned
  <2>1. UNCHANGED cleaned
    BY <1>5 DEF SwapTarget, SwapWrite, EraseResource
  <2>2. QED
    BY <1>5, <2>1, TombstoneMoves, WriteMoves, EraseMoves
<1>6. ASSUME NEW p \in Procs, NEW item \in Items, CleanItem(p, item) \/ CleanItemFails(p, item)
      PROVE  UNCHANGED records /\ cleaned \subseteq cleaned' /\ cleaned' \subseteq Items
  BY <1>1, <1>6 DEF CleanItem, CleanItemFails
<1>7. CASE Restart \/ UNCHANGED vars
  BY <1>1, <1>2, <1>7 DEF Restart, vars
<1>8. QED
  BY <1>1, <1>2, <1>3, <1>4, <1>5, <1>6, <1>7 DEF Next, Continue

-----------------------------------------------------------------------------
(* The frames and the jobs after a step. *)

\* One call goes on with f; the others keep what they remember.
LEMMA GoesOn ==
  ASSUME IInv, [Next]_vars, NEW p \in Procs, NEW f \in Frame \cup {Idle}, Go(p, f),
         FrameOK(records', cleaned', f)
  PROVE  frame' \in [Procs -> Frame \cup {Idle}] /\ FramesOK'
<1>1. frame \in [Procs -> Frame \cup {Idle}] /\ frame' = [frame EXCEPT ![p] = f]
  BY DEF Go, IInv, TypeOK
<1>2. frame' \in [Procs -> Frame \cup {Idle}]
  BY <1>1
<1>3. ASSUME NEW q \in Procs PROVE FrameOK(records', cleaned', frame'[q])
  <2>1. CASE q = p
    BY <1>1, <2>1
  <2>2. CASE q # p
    <3>1. frame'[q] = frame[q] /\ frame[q] \in Frame \cup {Idle}
      BY <1>1, <2>2
    <3>2. FrameOK(records', cleaned', frame[q])
      BY <3>1, StepMoves, FrameStays DEF IInv, FramesOK, TypeOK, ErasedWereDeleted
    <3>3. QED
      BY <3>1, <3>2
  <2>3. QED
    BY <2>1, <2>2
<1>4. QED
  BY <1>2, <1>3 DEF FramesOK

LEMMA IdleIsOK ==
  ASSUME NEW recs, NEW gone
  PROVE  FrameOK(recs, gone, Idle)
BY DEF FrameOK, Idle

LEMMA ReturnsOK ==
  ASSUME IInv, [Next]_vars, NEW p \in Procs, Return(p)
  PROVE  frame' \in [Procs -> Frame \cup {Idle}] /\ FramesOK'
BY GoesOn, IdleIsOK DEF Return

JobInv == jobs \in [Scopes -> Job \cup {NoJob}] /\ JobsOK /\ CompleteLeavesNothing

\* The other jobs keep what they remember.
LEMMA OtherJob ==
  ASSUME IInv, [Next]_vars, NEW s \in Scopes, jobs'[s] = jobs[s]
  PROVE  /\ jobs'[s] # NoJob => JobOK(records', s, jobs'[s]) /\ Covered(cleaned', s, jobs'[s].items)
         /\ jobs'[s].state = "complete" =>
              jobs'[s].items = {} /\ \A r \in Range(s) : records'[r].hard
<1>1. records \in [Resources -> Record] /\ jobs[s] \in Job \cup {NoJob}
  BY DEF IInv, TypeOK
<1>2. ASSUME jobs[s] # NoJob
      PROVE  JobOK(records', s, jobs[s]) /\ Covered(cleaned', s, jobs[s].items)
  BY <1>1, <1>2, StepMoves, JobStays, CoveredStays DEF IInv, JobsOK
<1>3. ASSUME jobs[s].state = "complete", NEW r \in Range(s) PROVE records'[r].hard
  <2>1. r \in Resources
    BY <1>3, ScopesAreSequences DEF Range
  <2>2. records[r].hard
    BY <1>3 DEF IInv, CompleteLeavesNothing
  <2>3. QED
    BY <2>1, <2>2, StepMoves, HardStays DEF IInv, ErasedWereDeleted
<1>4. jobs[s].state = "complete" => jobs[s].items = {}
  BY DEF IInv, CompleteLeavesNothing
<1>5. QED
  BY <1>2, <1>3, <1>4

LEMMA JobsKept ==
  ASSUME IInv, [Next]_vars, UNCHANGED jobs
  PROVE  JobInv'
BY OtherJob DEF JobInv, JobsOK, CompleteLeavesNothing, IInv, TypeOK

LEMMA JobStored ==
  ASSUME IInv, [Next]_vars, NEW s \in Scopes, NEW job \in Job, jobs' = [jobs EXCEPT ![s] = job],
         JobOK(records', s, job), Covered(cleaned', s, job.items),
         job.state = "complete" => job.items = {} /\ \A r \in Range(s) : records'[r].hard
  PROVE  JobInv'
<1>1. jobs \in [Scopes -> Job \cup {NoJob}]
  BY DEF IInv, TypeOK
<1>2. jobs' \in [Scopes -> Job \cup {NoJob}] /\ jobs'[s] = job
  BY <1>1
<1>3. \A z \in Scopes : z # s => jobs'[z] = jobs[z]
  BY <1>1
<1>4. QED
  BY <1>2, <1>3, OtherJob DEF JobInv, JobsOK, CompleteLeavesNothing

LEMMA NoJobIsNone == NoJob \notin Job
BY DEF NoJob, Job

-----------------------------------------------------------------------------
CallInv == frame \in [Procs -> Frame \cup {Idle}] /\ FramesOK /\ JobInv

LEMMA StartTombstoneStep ==
  ASSUME IInv, [Next]_vars, NEW p \in Procs, NEW g \in Graphs, StartTombstone(p, g)
  PROVE  CallInv'
<1> DEFINE f == [at |-> "read", graph |-> g, taken |-> <<>>]
<1>1. f \in Frame /\ Go(p, f) /\ UNCHANGED jobs
  BY DEF StartTombstone, Frame, Reading
<1>2. Len(g.resources) > 0
  BY GraphsAreTyped, ScopesAreSequences
<1>3. FrameOK(records', cleaned', f)
  BY <1>2 DEF FrameOK, TakenOK
<1> HIDE DEF f
<1>4. QED
  BY <1>1, <1>3, GoesOn, JobsKept DEF CallInv

LEMMA ReadTargetStep ==
  ASSUME IInv, [Next]_vars, NEW p \in Procs, ReadTarget(p)
  PROVE  CallInv'
<1> DEFINE f == [at |-> "swap", graph |-> frame[p].graph, taken |-> frame[p].taken,
                 copy |-> records[Target(p)]]
<1>1. At(p, "read") /\ frame[p] \in Reading /\ FrameOK(records, cleaned, frame[p])
  BY FrameTypes DEF ReadTarget, IInv, FramesOK
<1>2. TakenOK(records, frame[p].graph, frame[p].taken)
  BY <1>1 DEF FrameOK, At
<1>3. Target(p) \in Resources
  BY <1>1, <1>2, TargetIsResource DEF Reading, TakenOK, Target
<1>4. UNCHANGED <<records, cleaned, jobs>>
  BY DEF ReadTarget
<1>5. CASE Owned(Target(p))
  <2>1. Go(p, f)
    BY <1>5 DEF ReadTarget
  <2>2. records[Target(p)] \in Record
    BY <1>3 DEF IInv, TypeOK
  <2>3. f \in Frame
    BY <1>1, <2>2 DEF Frame, Reading, Swapping
  <2>4. Fresh(records, Target(p), records[Target(p)])
    BY <1>3, <1>5, <2>2 DEF Fresh, Owned, Record, IInv, ErasedWereDeleted
  <2>5. FrameOK(records, cleaned, f)
    BY <1>2, <2>4 DEF FrameOK, Target
  <2> HIDE DEF f
  <2>6. QED
    BY <1>4, <2>1, <2>3, <2>5, GoesOn, JobsKept DEF CallInv
<1>6. CASE ~Owned(Target(p))
  BY <1>4, <1>6, ReturnsOK, JobsKept DEF ReadTarget, CallInv
<1>7. QED
  BY <1>5, <1>6

LEMMA SwapTargetStep ==
  ASSUME IInv, [Next]_vars, NEW p \in Procs, SwapTarget(p)
  PROVE  CallInv'
<1> DEFINE g == frame[p].graph
           old == frame[p].taken
           t == Tombstone(Target(p), frame[p].copy)
           taken == Append(old, t)
           f == [at |-> "read", graph |-> g, taken |-> taken]
           job == [state |-> "pending", tombstones |-> taken, items |-> g.items]
           last == Len(taken) = Len(g.resources)
<1>1. At(p, "swap") /\ frame[p] \in Swapping /\ FrameOK(records, cleaned, frame[p])
  BY FrameTypes DEF SwapTarget, IInv, FramesOK
<1>2. g \in Graphs /\ g.resources \in Scopes /\ old \in Seq(Record) /\ TakenOK(records, g, old)
  BY <1>1, GraphsAreTyped DEF Swapping, FrameOK, At
<1>3. t \in Record /\ Stands(records', g.resources[Len(old) + 1], t)
  BY TombstoneMoves DEF Target
<1>4. taken \in Seq(Record) /\ Len(taken) = Len(old) + 1
  BY <1>2, <1>3
<1>5. ASSUME NEW i \in 1..Len(taken) PROVE Stands(records', g.resources[i], taken[i])
  <2>1. CASE i \in 1..Len(old)
    <3>1. taken[i] = old[i] /\ old[i] \in Record /\ g.resources[i] \in Resources
      BY <1>2, <1>3, <2>1, ScopesAreSequences DEF TakenOK
    <3>2. QED
      BY <1>2, <2>1, <3>1, StepMoves, StandsStays DEF TakenOK, IInv, TypeOK
  <2>2. CASE i = Len(old) + 1
    BY <1>2, <1>3, <2>2
  <2>3. QED
    BY <1>2, <1>4, <2>1, <2>2
<1>6. CASE last
  <2>1. job \in Job
    BY <1>2, <1>4, GraphsAreTyped DEF Job
  <2>2. JobOK(records', g.resources, job)
    BY <1>4, <1>5, <1>6 DEF JobOK
  <2>3. Covered(cleaned', g.resources, g.items)
    BY <1>2 DEF Covered
  <2>4. jobs' = [jobs EXCEPT ![g.resources] = job] /\ Return(p)
    BY <1>6 DEF SwapTarget
  <2>5. JobInv'
    BY <1>2, <2>1, <2>2, <2>3, <2>4, JobStored
  <2>6. QED
    BY <2>4, <2>5, ReturnsOK DEF CallInv
<1>7. CASE ~last
  <2>1. Go(p, f) /\ UNCHANGED jobs
    BY <1>7 DEF SwapTarget
  <2>2. f \in Frame
    BY <1>2, <1>4 DEF Frame, Reading
  <2>3. Len(taken) < Len(g.resources)
    BY <1>2, <1>4, <1>7, ScopesAreSequences DEF TakenOK
  <2> HIDE DEF taken
  <2>4. FrameOK(records', cleaned', f)
    BY <1>5, <2>3 DEF FrameOK, TakenOK
  <2> HIDE DEF f
  <2>5. QED
    BY <2>1, <2>2, <2>4, GoesOn, JobsKept DEF CallInv
<1>8. QED
  BY <1>6, <1>7

LEMMA WriteStep ==
  ASSUME IInv, [Next]_vars, NEW p \in Procs,
         \/ \E r \in Resources, expected \in {1, 2} : StartWrite(p, r, expected)
         \/ LookWrite(p)
         \/ SwapWrite(p)
  PROVE  CallInv'
<1>1. UNCHANGED jobs
  BY DEF StartWrite, LookWrite, SwapWrite
<1>2. ASSUME NEW r \in Resources, NEW expected \in {1, 2}, StartWrite(p, r, expected)
      PROVE  CallInv'
  <2> DEFINE f == [at |-> "look", resource |-> r, expected |-> expected]
  <2>1. f \in Frame /\ FrameOK(records', cleaned', f) /\ Go(p, f)
    BY <1>2 DEF Frame, Looking, FrameOK, StartWrite
  <2> HIDE DEF f
  <2>2. QED
    BY <1>1, <2>1, GoesOn, JobsKept DEF CallInv
<1>3. CASE LookWrite(p)
  <2> DEFINE r == frame[p].resource
             f == [at |-> "write", resource |-> r, copy |-> records[r]]
  <2>1. frame[p] \in Looking /\ UNCHANGED <<records, cleaned>>
    BY <1>3, FrameTypes DEF LookWrite, IInv
  <2>2. r \in Resources /\ records[r] \in Record
    BY <2>1 DEF Looking, IInv, TypeOK
  <2>3. CASE Return(p)
    BY <1>1, <2>3, ReturnsOK, JobsKept DEF CallInv
  <2>4. CASE Go(p, f) /\ Owned(r) /\ records[r].data < MaxData
    <3>1. Fresh(records, r, records[r])
      BY <2>2, <2>4 DEF Fresh, Owned, Record, IInv, ErasedWereDeleted
    <3>2. f \in Frame
      BY <2>2 DEF Frame, Writing
    <3>3. FrameOK(records', cleaned', f)
      BY <2>1, <2>4, <3>1 DEF FrameOK
    <3> HIDE DEF f
    <3>4. QED
      BY <1>1, <2>4, <3>2, <3>3, GoesOn, JobsKept DEF CallInv
  <2>5. QED
    BY <1>3, <2>3, <2>4 DEF LookWrite
<1>4. CASE SwapWrite(p)
  BY <1>1, <1>4, ReturnsOK, JobsKept DEF SwapWrite, CallInv
<1>5. QED
  BY <1>2, <1>3, <1>4

LEMMA StartHardDeleteStep ==
  ASSUME IInv, [Next]_vars, NEW p \in Procs, NEW s \in Scopes, StartHardDelete(p, s)
  PROVE  CallInv'
<1> DEFINE job == jobs[s]
           e == [at |-> "erase", scope |-> s, job |-> job, next |-> 1]
           c == [at |-> "clean", scope |-> s, job |-> job, todo |-> job.items, failed |-> {}]
<1>1. UNCHANGED <<records, cleaned, jobs>>
  BY DEF StartHardDelete
<1>2. job \in Job
  BY DEF StartHardDelete, Unfinished, NoJob, IInv, TypeOK
<1>3. JobOK(records, s, job) /\ Covered(cleaned, s, job.items)
  BY <1>2, NoJobIsNone DEF IInv, JobsOK
<1>4. CASE job.items = {}
  <2>1. e \in Frame /\ Go(p, e)
    BY <1>2, <1>4 DEF StartHardDelete, Frame, Erasing
  <2>2. FrameOK(records, cleaned, e)
    BY <1>3, <1>4, ScopesAreSequences DEF FrameOK
  <2> HIDE DEF e
  <2>3. QED
    BY <1>1, <2>1, <2>2, GoesOn, JobsKept DEF CallInv
<1>5. CASE job.items # {}
  <2>1. c \in Frame /\ Go(p, c)
    BY <1>2, <1>5 DEF StartHardDelete, Frame, Cleaning, Job
  <2>2. FrameOK(records, cleaned, c)
    BY <1>3 DEF FrameOK
  <2> HIDE DEF c
  <2>3. QED
    BY <1>1, <2>1, <2>2, GoesOn, JobsKept DEF CallInv
<1>6. QED
  BY <1>4, <1>5

\* An item is gone, or is among those that failed.
LEMMA CleanedStep ==
  ASSUME IInv, [Next]_vars, NEW p \in Procs, NEW item \in Items, At(p, "clean"),
         NEW failed \in SUBSET Items, Cleaned(p, item, failed),
         frame[p].failed \subseteq failed, item \in failed \/ item \in cleaned'
  PROVE  CallInv'
<1> DEFINE f == frame[p]
           todo == f.todo \ {item}
           on == [f EXCEPT !.todo = todo, !.failed = failed]
           done == [f.job EXCEPT !.state = "failed", !.items = failed]
           e == [at |-> "erase", scope |-> f.scope, job |-> [f.job EXCEPT !.items = {}], next |-> 1]
<1>1. f \in Cleaning /\ FrameOK(records, cleaned, f)
  BY FrameTypes DEF IInv, FramesOK
<1>2. f.at = "clean" /\ f.scope \in Scopes /\ f.job \in Job /\ f.todo \in SUBSET Items
  BY <1>1 DEF Cleaning
<1>3. JobOK(records', f.scope, f.job)
  BY <1>1, <1>2, StepMoves, JobStays DEF FrameOK, IInv, TypeOK
<1>4. Covered(cleaned', f.scope, todo \cup failed)
  <2>1. PICK g \in Graphs : g.resources = f.scope /\ g.items \subseteq f.todo \cup f.failed \cup cleaned
    BY <1>1, <1>2 DEF FrameOK, Covered
  <2>2. g.items \subseteq todo \cup failed \cup cleaned'
    BY <2>1, StepMoves
  <2>3. QED
    BY <2>1, <2>2 DEF Covered
<1>5. CASE todo # {} /\ Go(p, on) /\ UNCHANGED jobs
  <2>1. on = [at |-> "clean", scope |-> f.scope, job |-> f.job, todo |-> todo, failed |-> failed]
    <3> DEFINE f1 == [f EXCEPT !.todo = todo]
    <3>1. f1 = [at |-> "clean", scope |-> f.scope, job |-> f.job, todo |-> todo, failed |-> f.failed]
      BY <1>1 DEF Cleaning
    <3>2. on = [f1 EXCEPT !.failed = failed]
      BY <1>1 DEF Cleaning
    <3> HIDE DEF f1
    <3>3. QED
      BY <3>1, <3>2
  <2>2. on \in Frame
    BY <1>2, <2>1 DEF Frame, Cleaning
  <2>3. FrameOK(records', cleaned', on)
    BY <1>3, <1>4, <2>1 DEF FrameOK
  <2> HIDE DEF on
  <2>4. QED
    BY <1>5, <2>2, <2>3, GoesOn, JobsKept DEF CallInv
<1>6. CASE todo = {} /\ Return(p) /\ jobs' = [jobs EXCEPT ![f.scope] = done]
  <2>1. done = [state |-> "failed", tombstones |-> f.job.tombstones, items |-> failed]
    <3> DEFINE j1 == [f.job EXCEPT !.state = "failed"]
    <3>1. j1 = [state |-> "failed", tombstones |-> f.job.tombstones, items |-> f.job.items]
      BY <1>2 DEF Job
    <3>2. done = [j1 EXCEPT !.items = failed]
      BY <1>2 DEF Job
    <3> HIDE DEF j1
    <3>3. QED
      BY <3>1, <3>2
  <2>2. done \in Job
    BY <1>2, <2>1 DEF Job
  <2>3. JobOK(records', f.scope, done)
    BY <1>3, <2>1 DEF JobOK
  <2>4. Covered(cleaned', f.scope, done.items)
    BY <1>4, <1>6, <2>1 DEF Covered
  <2>5. done.state # "complete"
    BY <2>1
  <2> HIDE DEF done
  <2>6. QED
    BY <1>2, <1>6, <2>2, <2>3, <2>4, <2>5, JobStored, ReturnsOK DEF CallInv
<1>7. CASE todo = {} /\ failed = {} /\ Go(p, e) /\ UNCHANGED jobs
  <2>1. e.job = [state |-> f.job.state, tombstones |-> f.job.tombstones, items |-> {}]
    BY <1>2 DEF Job
  <2>2. e.job \in Job
    BY <1>2, <2>1 DEF Job
  <2>3. e \in Frame
    BY <1>2, <2>2 DEF Frame, Erasing
  <2>4. JobOK(records', f.scope, e.job) /\ e.job.items = {}
    BY <1>3, <2>1 DEF JobOK
  <2>5. Covered(cleaned', f.scope, {})
    BY <1>4, <1>7 DEF Covered
  <2>6. 1 \in 1..Len(f.scope) /\ \A i \in 1..Len(f.scope) : ~(i < 1)
    BY <1>2, ScopesAreSequences
  <2> DEFINE j == [f.job EXCEPT !.items = {}]
  <2> HIDE DEF j
  <2>7. FrameOK(records', cleaned', e)
    BY <2>4, <2>5, <2>6 DEF FrameOK, j
  <2> HIDE DEF e
  <2>8. QED
    BY <1>7, <2>3, <2>7, GoesOn, JobsKept DEF CallInv
<1>8. QED
  BY <1>5, <1>6, <1>7 DEF Cleaned

LEMMA CleanItemStep ==
  ASSUME IInv, [Next]_vars, NEW p \in Procs, NEW item \in Items,
         CleanItem(p, item) \/ CleanItemFails(p, item)
  PROVE  CallInv'
<1>1. At(p, "clean") /\ frame[p].failed \in SUBSET Items
  BY FrameTypes DEF CleanItem, CleanItemFails, Turn, Cleaning, IInv
<1>2. CASE CleanItem(p, item)
  BY <1>1, <1>2, CleanedStep DEF CleanItem
<1>3. CASE CleanItemFails(p, item)
  <2>1. Cleaned(p, item, frame[p].failed \cup {item})
    BY <1>3 DEF CleanItemFails
  <2>2. frame[p].failed \cup {item} \in SUBSET Items
    BY <1>1
  <2>3. QED
    BY <1>1, <2>1, <2>2, CleanedStep
<1>4. QED
  BY <1>2, <1>3

LEMMA EraseResourceStep ==
  ASSUME IInv, [Next]_vars, NEW p \in Procs, EraseResource(p)
  PROVE  CallInv'
<1> DEFINE f == frame[p]
           n == Len(f.scope)
           r == f.scope[f.next]
           t == f.job.tombstones[f.next]
           on == [f EXCEPT !.next = @ + 1]
           Done(state) == [f.job EXCEPT !.state = state]
<1>1. f \in Erasing /\ FrameOK(records, cleaned, f)
  BY FrameTypes DEF EraseResource, IInv, FramesOK
<1>2. /\ f.at = "erase" /\ f.scope \in Scopes /\ f.job \in Job /\ f.next \in 1..n
      /\ f.job.items = {} /\ Covered(cleaned, f.scope, {})
  BY <1>1 DEF Erasing, FrameOK
<1>3. JobOK(records', f.scope, f.job) /\ Covered(cleaned', f.scope, {})
  BY <1>1, <1>2, StepMoves, JobStays, CoveredStays DEF FrameOK, IInv, TypeOK
<1>4. Current(r, t.revision) => \A i \in 1..n : i <= f.next => records'[f.scope[i]].hard
  <2> SUFFICES ASSUME Current(r, t.revision), NEW i \in 1..n, i <= f.next
               PROVE  records'[f.scope[i]].hard
    OBVIOUS
  <2>1. f.scope[i] \in Resources
    BY <1>2, ScopesAreSequences
  <2>2. CASE i < f.next
    <3>1. records[f.scope[i]].hard
      BY <1>1, <1>2, <2>2 DEF FrameOK
    <3>2. QED
      BY <2>1, <3>1, StepMoves, HardStays DEF IInv, ErasedWereDeleted
  <2>3. CASE i = f.next
    BY <2>3, EraseMoves
  <2>4. QED
    BY <1>2, <2>2, <2>3
<1>5. ASSUME NEW state \in {"complete", "failed"}
      PROVE  /\ Done(state) \in Job /\ Done(state).state = state /\ Done(state).items = {}
             /\ JobOK(records', f.scope, Done(state))
  <2> DEFINE job == f.job
             made == [state |-> state, tombstones |-> job.tombstones, items |-> job.items]
  <2>1. Done(state) = made
    <3>1. job \in Job
      BY <1>2
    <3> HIDE DEF job
    <3>2. [job EXCEPT !.state = state] = made
      BY <3>1 DEF Job
    <3>3. QED
      BY <3>2 DEF job
  <2>2. QED
    BY <1>2, <1>3, <2>1 DEF Job, JobOK
<1>6. CASE Current(r, t.revision) /\ f.next < n /\ Go(p, on) /\ UNCHANGED jobs
  <2>1. on = [at |-> "erase", scope |-> f.scope, job |-> f.job, next |-> f.next + 1]
    BY <1>1 DEF Erasing
  <2>2. on \in Frame
    BY <1>2, <2>1 DEF Frame, Erasing
  <2>3. f.next + 1 \in 1..n /\ \A i \in 1..n : i < f.next + 1 => records'[f.scope[i]].hard
    BY <1>2, <1>4, <1>6, ScopesAreSequences
  <2>4. FrameOK(records', cleaned', on)
    BY <1>2, <1>3, <2>1, <2>3 DEF FrameOK
  <2> HIDE DEF on
  <2>5. QED
    BY <1>6, <2>2, <2>4, GoesOn, JobsKept DEF CallInv
<1>7. CASE /\ Current(r, t.revision) /\ f.next = n /\ Return(p)
           /\ jobs' = [jobs EXCEPT ![f.scope] = Done("complete")]
  <2>1. \A z \in Range(f.scope) : records'[z].hard
    <3>1. \A i \in 1..n : records'[f.scope[i]].hard
      BY <1>2, <1>4, <1>7
    <3>2. DOMAIN f.scope = 1..n
      BY <1>2, ScopesAreSequences
    <3>3. QED
      BY <3>1, <3>2 DEF Range
  <2> HIDE DEF Done
  <2>2. JobInv'
    BY <1>2, <1>3, <1>5, <1>7, <2>1, JobStored
  <2>3. QED
    BY <1>7, <2>2, ReturnsOK DEF CallInv
<1>8. CASE Return(p) /\ jobs' = [jobs EXCEPT ![f.scope] = Done("failed")]
  <2> HIDE DEF Done
  <2>1. JobInv'
    BY <1>2, <1>3, <1>5, <1>8, JobStored
  <2>2. QED
    BY <1>8, <2>1, ReturnsOK DEF CallInv
<1>9. QED
  BY <1>6, <1>7, <1>8 DEF EraseResource

LEMMA CallStep ==
  ASSUME IInv, [Next]_vars
  PROVE  CallInv'
<1>1. ASSUME NEW p \in Procs, Crash(p) PROVE CallInv'
  BY <1>1, ReturnsOK, JobsKept DEF Crash, CallInv
<1>2. ASSUME NEW p \in Procs, SwapTargetLost(p) PROVE CallInv'
  BY <1>2, ReturnsOK, JobsKept DEF SwapTargetLost, CallInv
<1>3. CASE Restart
  <2>1. frame' \in [Procs -> Frame \cup {Idle}] /\ FramesOK'
    BY <1>3, IdleIsOK DEF Restart, FramesOK
  <2>2. JobInv'
    BY <1>3 DEF Restart, JobInv, JobsOK, CompleteLeavesNothing, NoJob
  <2>3. QED
    BY <2>1, <2>2 DEF CallInv
<1>4. CASE UNCHANGED vars
  <2>1. CallInv
    BY DEF CallInv, IInv, TypeOK, JobInv
  <2>2. QED
    BY <1>4, <2>1 DEF vars, CallInv, FramesOK, JobInv, JobsOK, CompleteLeavesNothing
<1>5. ASSUME NEW p \in Procs, Start(p) \/ Continue(p) PROVE CallInv'
  BY <1>2, <1>5, StartTombstoneStep, ReadTargetStep, SwapTargetStep, WriteStep,
     StartHardDeleteStep, CleanItemStep, EraseResourceStep DEF Start, Continue
<1>6. QED
  BY <1>1, <1>3, <1>4, <1>5 DEF Next

-----------------------------------------------------------------------------
(* The records after a step. *)

LEMMA ErasedStep ==
  ASSUME IInv, [Next]_vars
  PROVE  ErasedWereDeleted' /\ ErasedAfterCleanup'
<1>1. records \in [Resources -> Record] /\ cleaned \subseteq cleaned'
  BY StepMoves DEF IInv, TypeOK
<1>2. ErasedWereDeleted'
  <2>1. \A r \in Resources : records[r].deleted => Erased(records[r]).deleted
    BY <1>1 DEF Erased, Record
  <2>2. QED
    BY <2>1, StepMoves DEF Moves, IInv, ErasedWereDeleted
<1>3. ASSUME NEW r \in Resources, records'[r].hard
      PROVE  \E g \in Graphs : r \in Range(g.resources) /\ g.items \subseteq cleaned'
  <2>1. CASE records[r].hard
    BY <1>1, <2>1 DEF IInv, ErasedAfterCleanup
  <2>2. CASE ~records[r].hard
    <3>1. records[r].deleted /\ records'[r] # records[r]
      BY <1>3, <2>2, StepMoves DEF Moves
    <3>2. PICK p \in Procs : EraseResource(p)
      <4>1. ASSUME NEW p \in Procs, Start(p) \/ Crash(p) \/ ReadTarget(p) \/ SwapTargetLost(p)
                                    \/ LookWrite(p)
            PROVE  UNCHANGED records
        BY <4>1 DEF Start, StartTombstone, StartWrite, StartHardDelete, Crash, ReadTarget,
                    SwapTargetLost, LookWrite
      <4>2. ASSUME NEW p \in Procs, NEW item, CleanItem(p, item) \/ CleanItemFails(p, item)
            PROVE  UNCHANGED records
        BY <4>2 DEF CleanItem, CleanItemFails
      <4>3. Restart \/ UNCHANGED vars => UNCHANGED records
        BY DEF Restart, vars
      <4>4. QED
        BY <3>1, <4>1, <4>2, <4>3, TombstoneMoves, WriteMoves DEF Next, Continue
    <3> DEFINE f == frame[p]
    <3>3. f \in Erasing /\ At(p, "erase") /\ FrameOK(records, cleaned, f)
      BY <3>2, FrameTypes DEF EraseResource, IInv, FramesOK
    <3>4. f.scope \in Scopes /\ f.next \in 1..Len(f.scope) /\ Covered(cleaned, f.scope, {})
      BY <3>3 DEF Erasing, FrameOK, At
    <3>5. r = f.scope[f.next]
      BY <1>1, <3>1, <3>2, EraseMoves
    <3>6. r \in Range(f.scope)
      BY <3>4, <3>5, ScopesAreSequences DEF Range
    <3>7. QED
      BY <1>1, <3>4, <3>6 DEF Covered
  <2>3. QED
    BY <2>1, <2>2
<1>4. QED
  BY <1>2, <1>3 DEF ErasedAfterCleanup

LEMMA FencesStep ==
  ASSUME IInv, [Next]_vars
  PROVE  fences' \in [Resources -> Nat]
<1>1. fences \in [Resources -> Nat]
  BY DEF IInv, TypeOK
<1>2. ASSUME NEW p \in Procs, SwapTarget(p) PROVE fences' \in [Resources -> Nat]
  <2>1. Tombstone(Target(p), frame[p].copy).generation \in Nat
    BY <1>2, TombstoneMoves DEF Record
  <2>2. QED
    BY <1>1, <1>2, <2>1, TombstoneMoves DEF SwapTarget
<1>3. ASSUME NEW p \in Procs, Start(p) \/ Crash(p) \/ ReadTarget(p) \/ SwapTargetLost(p)
                              \/ LookWrite(p) \/ SwapWrite(p) \/ EraseResource(p)
      PROVE  UNCHANGED fences
  BY <1>3 DEF Start, StartTombstone, StartWrite, StartHardDelete, Crash, ReadTarget,
              SwapTargetLost, LookWrite, SwapWrite, EraseResource
<1>4. ASSUME NEW p \in Procs, NEW item, CleanItem(p, item) \/ CleanItemFails(p, item)
      PROVE  UNCHANGED fences
  BY <1>4 DEF CleanItem, CleanItemFails
<1>5. Restart \/ UNCHANGED vars => fences' \in [Resources -> Nat]
  BY <1>1 DEF Restart, vars
<1>6. QED
  BY <1>1, <1>2, <1>3, <1>4, <1>5 DEF Next, Continue

LEMMA Inductive == IInv /\ [Next]_vars => IInv'
BY StepMoves, CallStep, ErasedStep, FencesStep DEF IInv, TypeOK, CallInv, JobInv

LEMMA Initial == Init => IInv
<1> SUFFICES ASSUME Init PROVE IInv
  OBVIOUS
<1>1. TypeOK
  BY RecordTypes DEF Init, TypeOK
<1>2. ErasedWereDeleted /\ ErasedAfterCleanup
  BY DEF Init, NewRecord, ErasedWereDeleted, ErasedAfterCleanup
<1>3. FramesOK
  BY IdleIsOK DEF Init, FramesOK
<1>4. JobsOK /\ CompleteLeavesNothing
  BY DEF Init, JobsOK, CompleteLeavesNothing, NoJob
<1>5. QED
  BY <1>1, <1>2, <1>3, <1>4 DEF IInv

LEMMA Invariant == Spec => []IInv
BY Initial, Inductive, PTL DEF Spec

-----------------------------------------------------------------------------
\* Records, jobs and frames are typed, and data stays within its bound, whoever
\* writes and deletes (privacy/service.py).
THEOREM TypeCorrect == Spec => []TypeOK
BY Invariant, PTL DEF IInv

\* write_if_current and tombstone never change a deleted record again, over stale
\* copies, cancelled calls and restarts that lose the service's own fences.
THEOREM NoLateWrites == Spec => NoLateWrite
<1>1. ASSUME IInv, [Next]_vars
      PROVE  [\A r \in Resources :
                records[r].deleted /\ records'[r] # records[r] =>
                  ~records[r].hard /\ records'[r] = Erased(records[r])]_vars
  BY <1>1, StepMoves DEF Moves
<1>2. QED
  BY <1>1, Invariant, PTL DEF Spec, NoLateWrite

\* A job remembers its resources as they are: hard_delete works on what it tombstoned.
THEOREM TombstonesAreKept == Spec => []TombstonesStand
<1>1. IInv => TombstonesStand
  <2> SUFFICES ASSUME IInv, NEW s \in Scopes, jobs[s] # NoJob, NEW i \in DOMAIN s
               PROVE  records[s[i]] \in {jobs[s].tombstones[i], Erased(jobs[s].tombstones[i])}
    BY DEF TombstonesStand
  <2>1. i \in 1..Len(s)
    BY ScopesAreSequences
  <2>2. QED
    BY <2>1 DEF IInv, JobsOK, JobOK, Stands
<1>2. QED
  BY <1>1, Invariant, PTL

\* hard_delete erases a record only when nothing of a deletion of it is left to clean.
THEOREM ErasureFollowsCleanup == Spec => []ErasedAfterCleanup
BY Invariant, PTL DEF IInv

\* A complete job has nothing pending and all of its records are erased.
THEOREM CompletionIsTotal == Spec => []CompleteLeavesNothing
BY Invariant, PTL DEF IInv
=============================================================================
