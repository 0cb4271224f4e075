---------------------------- MODULE LocalProofs ----------------------------
(***************************************************************************)
(* Why runs, jobs, snapshots and answers of the local profile agree, for   *)
(* any number of runs, keys, progress updates, failed saves and restarts:  *)
(* the two records of a run are sound together in memory and in the file,  *)
(* and the run's worker is the attempt both of them name.                  *)
(***************************************************************************)
EXTENDS LocalProfile, TLAPS

Phases == {"running", "completed", "cancelled", "failed"}

Update == [attempt : Int, sequence : Int, phase : Phases]

RunDoc ==
  [exists : BOOLEAN, key : Keys \cup {NoKey}, fence : Nat, active : Int, selected : Int,
   progress : SUBSET Update,
   event : [revision : Int, reviewed : BOOLEAN, evidence : {"none", "built", "failed"}]]

Worker ==
  [at : {"none", "claim", "run", "republish", "final", "fail", "done"},
   invocation : Int, attempt : Int, fence : Nat, sequence : Nat, phase : Phases,
   cancelled : BOOLEAN]

Memory == [job : [Runs -> JobRecord], run : [Runs -> RunDoc]]

Told == [about : {"start", "cancel"}, key : Keys \cup {NoKey}, run : Runs]

TypeOK ==
  /\ mem \in Memory
  /\ disk \in Memory
  /\ worker \in [Runs -> Worker]
  /\ invocations \in Nat
  /\ told \subseteq Told
  /\ mishaps \in Nat

\* n is the last sequence of the attempt's updates.
Tops(updates, a, n) ==
  /\ \A u \in updates : u.attempt = a => u.sequence <= n
  /\ n = -1 \/ \E u \in updates : u.attempt = a /\ u.sequence = n

Row(a, n, p) == [attempt |-> a, sequence |-> n, phase |-> p]

\* The records of one run, in memory or in the file. The clauses about an attempt
\* nobody was given keep the fence a claim will raise.
Sound(job, doc) ==
  /\ IF doc.exists THEN job.state # "absent" ELSE job = Absent /\ doc = NoRunDoc
  /\ job.attempt = None => doc.active = None /\ doc.progress = {} /\ doc.fence <= job.fence
  /\ \E n \in Nat \cup {-1} : Tops(doc.progress, job.attempt, n)
  /\ job.state = "cancelled" => job.cancel_requested
  /\ doc.selected # None => job.state \in Terminal
  /\ job.state \in Finished => doc.selected = job.attempt
  /\ job.state \in Finished /\ job.attempt # None =>
       \E n \in Nat : /\ Tops(doc.progress, job.attempt, n)
                      /\ Row(job.attempt, n, job.state) \in doc.progress

\* The worker of a run and the records in memory: it claims a run nobody has
\* claimed, and from then on it is the attempt that both records name, so that
\* none of its writes is dropped.
Serves(w, job, doc) ==
  /\ w.at = "claim" => job.attempt = None /\ doc.exists /\ job.state \notin Finished
  /\ w.at \in {"run", "republish", "final", "fail"} =>
       /\ doc.exists
       /\ w.attempt = job.attempt /\ w.attempt # None
       /\ doc.active = w.attempt /\ w.fence >= doc.fence
  /\ w.at \in {"run", "republish"} =>
       /\ job.state \notin Finished
       /\ \A u \in doc.progress : u.attempt = w.attempt => u.sequence < w.sequence
  /\ w.at = "final" =>
       /\ job.state \notin Finished /\ w.phase \in {"completed", "cancelled"}
       /\ w.sequence - 1 \in Nat /\ Tops(doc.progress, w.attempt, w.sequence - 1)
       /\ Row(w.attempt, w.sequence - 1, w.phase) \in doc.progress

\* A key has one run.
KeysDiffer(m) ==
  \A q, r \in Runs : m.run[q].exists /\ m.run[r].exists /\ m.run[q].key = m.run[r].key => q = r

\* What clients were told is there.
Kept(m, answers) ==
  \A t \in answers :
    /\ t.about = "start"  => m.run[t.run].exists /\ m.run[t.run].key = t.key
    /\ t.about = "cancel" => m.job[t.run].state = "cancelled"

Coherent(m, answers) ==
  /\ \A r \in Runs : Sound(m.job[r], m.run[r])
  /\ KeysDiffer(m)
  /\ Kept(m, answers)

IInv ==
  /\ TypeOK
  /\ Coherent(mem, told)
  /\ Coherent(disk, told)
  /\ \A r \in Runs : Serves(worker[r], mem.job[r], mem.run[r])

-----------------------------------------------------------------------------
\* The greater of two numbers (fences, sequences).
LEMMA MaxOfTwo ==
  ASSUME NEW x \in Int, NEW y \in Int
  PROVE  Max({x, y}) \in {x, y} /\ Max({x, y}) >= x /\ Max({x, y}) >= y
<1>1. \E m \in {x, y} : \A z \in {x, y} : m >= z
  <2>1. CASE x >= y
    BY <2>1
  <2>2. CASE y >= x
    BY <2>2
  <2>3. QED
    BY <2>1, <2>2
<1>2. Max({x, y}) \in {x, y} /\ \A z \in {x, y} : Max({x, y}) >= z
  BY <1>1 DEF Max
<1>3. QED
  BY <1>2

\* What _last_sequence finds.
LEMMA LastIs ==
  ASSUME NEW updates \in SUBSET Update, NEW a \in Int, NEW n \in Nat \cup {-1},
         Tops(updates, a, n)
  PROVE  LastSequence(updates, a) = n
<1> DEFINE all == {u.sequence : u \in {v \in updates : v.attempt = a}} \cup {-1}
<1>1. all \subseteq Int /\ n \in all /\ \A z \in all : n >= z
  BY DEF Tops, Update
<1>2. PICK m \in all : m = Max(all) /\ \A z \in all : m >= z
  <2> HIDE DEF all
  <2>1. QED
    BY <1>1 DEF Max
<1>3. m = n
  <2> HIDE DEF all
  <2>1. QED
    BY <1>1, <1>2
<1>4. QED
  BY <1>2, <1>3 DEF LastSequence

\* A row in the place of the one with its number.
With(updates, row) ==
  {u \in updates : ~(u.attempt = row.attempt /\ u.sequence = row.sequence)} \cup {row}

\* A write of the active attempt at the current fence is taken.
LEMMA CommitTaken ==
  ASSUME NEW doc \in RunDoc, NEW f \in Nat, NEW n \in Nat, NEW phase \in Phases,
         NEW a \in Int, doc.active = a, f >= doc.fence
  PROVE  /\ CommitProgress(doc, a, f, n, phase) \in RunDoc
         /\ CommitProgress(doc, a, f, n, phase).exists = doc.exists
         /\ CommitProgress(doc, a, f, n, phase).key = doc.key
         /\ CommitProgress(doc, a, f, n, phase).fence = f
         /\ CommitProgress(doc, a, f, n, phase).active = a
         /\ CommitProgress(doc, a, f, n, phase).selected = doc.selected
         /\ CommitProgress(doc, a, f, n, phase).progress
              = With(doc.progress, Row(a, n, phase))
<1>1. Row(a, n, phase) \in Update /\ n \in Int
  BY DEF Update, Row
<1>2. CommitProgress(doc, a, f, n, phase)
        = [doc EXCEPT !.fence = f, !.progress = With(@, Row(a, n, phase))]
  BY DEF CommitProgress, Accepts, With, Row
<1>3. With(doc.progress, Row(a, n, phase)) \in SUBSET Update
  BY <1>1 DEF With, RunDoc
<1>4. QED
  BY <1>2, <1>3 DEF RunDoc

\* A row beyond every other of its attempt is its last.
LEMMA AddedTops ==
  ASSUME NEW updates \in SUBSET Update, NEW a \in Int, NEW n \in Nat, NEW phase \in Phases,
         \A u \in updates : u.attempt = a => u.sequence < n
  PROVE  /\ Tops(With(updates, Row(a, n, phase)), a, n)
         /\ Tops(updates \cup {Row(a, n, phase)}, a, n)
         /\ Row(a, n, phase) \in With(updates, Row(a, n, phase))
         /\ Row(a, n, phase) \in Update
<1> DEFINE row == Row(a, n, phase)
<1>1. row.attempt = a /\ row.sequence = n /\ row \in Update /\ n \in Int
  BY DEF Row, Update
<1>2. \A u \in updates : u.sequence \in Int /\ (u.attempt = a => u.sequence < n)
  BY DEF Update
<1> HIDE DEF row
<1>3. With(updates, row) \subseteq updates \cup {row} /\ row \in With(updates, row)
  BY DEF With
<1>4. \A u \in updates \cup {row} : u.attempt = a => u.sequence <= n
  BY <1>1, <1>2
<1>5. Tops(updates \cup {row}, a, n) /\ Tops(With(updates, row), a, n)
  BY <1>1, <1>3, <1>4 DEF Tops
<1>6. QED
  BY <1>1, <1>3, <1>5 DEF row

-----------------------------------------------------------------------------
LEMMA NothingStored ==
  /\ Absent \in JobRecord /\ NoRunDoc \in RunDoc /\ NoWorker \in Worker
  /\ Empty \in Memory
  /\ Sound(Absent, NoRunDoc) /\ \A j, d : Serves(NoWorker, j, d)
<1>1. Absent \in JobRecord /\ NoRunDoc \in RunDoc /\ NoWorker \in Worker
  BY DEF Absent, JobRecord, NoRunDoc, RunDoc, NoEvent, NoWorker, Worker, Phases, None
<1>2. Empty \in Memory
  BY <1>1 DEF Empty, Memory
<1>3. Tops({}, None, -1)
  BY DEF Tops
<1>4. Sound(Absent, NoRunDoc)
  BY <1>3 DEF Sound, Absent, NoRunDoc, None, Terminal, Finished
<1>5. \A j, d : Serves(NoWorker, j, d)
  BY DEF Serves, NoWorker
<1>6. QED
  BY <1>1, <1>2, <1>4, <1>5

\* A memory in which the records of one run were replaced.
Revise(m, r, j, d) == [m EXCEPT !.job[r] = j, !.run[r] = d]

LEMMA Revised ==
  ASSUME NEW m \in Memory, NEW r \in Runs, NEW j \in JobRecord, NEW d \in RunDoc
  PROVE  /\ Revise(m, r, j, d) \in Memory
         /\ Revise(m, r, j, d).job[r] = j /\ Revise(m, r, j, d).run[r] = d
         /\ \A q \in Runs \ {r} : /\ Revise(m, r, j, d).job[q] = m.job[q]
                                 /\ Revise(m, r, j, d).run[q] = m.run[q]
BY DEF Memory, Revise

LEMMA RevisedJob ==
  ASSUME NEW m \in Memory, NEW r \in Runs, NEW j \in JobRecord
  PROVE  [m EXCEPT !.job[r] = j] = Revise(m, r, j, m.run[r])
BY DEF Memory, Revise

LEMMA RevisedRun ==
  ASSUME NEW m \in Memory, NEW r \in Runs, NEW d \in RunDoc
  PROVE  [m EXCEPT !.run[r] = d] = Revise(m, r, m.job[r], d)
BY DEF Memory, Revise

\* What a change of the records of some runs may not touch.
Keeps(j, d, j2, d2) ==
  /\ d2.exists = d.exists /\ d2.key = d.key
  /\ j.state = "cancelled" => j2.state = "cancelled"

LEMMA CoherentAfter ==
  ASSUME NEW m, NEW m2, NEW answers \in SUBSET Told, Coherent(m, answers),
         \A r \in Runs : /\ Sound(m2.job[r], m2.run[r])
                         /\ Keeps(m.job[r], m.run[r], m2.job[r], m2.run[r])
  PROVE  Coherent(m2, answers)
<1>1. KeysDiffer(m2)
  BY DEF Coherent, KeysDiffer, Keeps
<1>2. Kept(m2, answers)
  BY DEF Coherent, Kept, Keeps, Told
<1>3. QED
  BY <1>1, <1>2 DEF Coherent

\* A transaction on the records of one run, and its worker's next step.
LEMMA StepOfOne ==
  ASSUME IInv, NEW r \in Runs, NEW j \in JobRecord, NEW d \in RunDoc, NEW saved \in BOOLEAN,
         Sound(j, d), Keeps(mem.job[r], mem.run[r], j, d),
         Save(Revise(mem, r, j, d), saved),
         NEW w \in Worker, Serves(w, j, d), worker' = [worker EXCEPT ![r] = w],
         told' = told, invocations' = invocations
  PROVE  IInv'
<1> DEFINE after == Revise(mem, r, j, d)
<1>1. /\ after \in Memory
      /\ after.job[r] = j /\ after.run[r] = d
      /\ \A q \in Runs \ {r} : after.job[q] = mem.job[q] /\ after.run[q] = mem.run[q]
  <2>1. mem \in Memory
    BY DEF IInv, TypeOK
  <2>2. QED
    BY <2>1, Revised
<1>2. mem' = after /\ disk' \in {after, disk} /\ mishaps' \in Nat
  BY DEF Save, IInv, TypeOK
<1> HIDE DEF after
<1>3. Coherent(after, told)
  <2>1. \A q \in Runs : /\ Sound(after.job[q], after.run[q])
                        /\ Keeps(mem.job[q], mem.run[q], after.job[q], after.run[q])
    BY <1>1 DEF IInv, Coherent, Keeps
  <2>2. QED
    BY <2>1, CoherentAfter DEF IInv, TypeOK
<1>4. TypeOK'
  BY <1>1, <1>2 DEF IInv, TypeOK
<1>5. \A q \in Runs : Serves(worker'[q], after.job[q], after.run[q])
  BY <1>1 DEF IInv, TypeOK
<1>6. QED
  BY <1>2, <1>3, <1>4, <1>5 DEF IInv

\* The records of a run in a coherent state.
LEMMA RunOf ==
  ASSUME IInv, NEW r \in Runs
  PROVE  /\ mem.job[r] \in JobRecord /\ mem.run[r] \in RunDoc /\ worker[r] \in Worker
         /\ Sound(mem.job[r], mem.run[r]) /\ Serves(worker[r], mem.job[r], mem.run[r])
BY DEF IInv, TypeOK, Memory, Coherent

-----------------------------------------------------------------------------
\* The worker's transactions on the two records of its run.

LEMMA ClaimSound ==
  ASSUME NEW j \in JobRecord, NEW d \in RunDoc, NEW w \in Worker,
         Sound(j, d), Serves(w, j, d), w.at = "claim", Claimable(j), NEW at \in {"run", "fail"}
  PROVE  LET id == j.fence + 1
             job == NewAttempt(j, id, 0)
             doc == ClaimAttempt(d, id, job.fence)
             next == [w EXCEPT !.at = at, !.attempt = id, !.fence = job.fence] IN
         /\ job \in JobRecord /\ doc \in RunDoc /\ next \in Worker
         /\ Sound(job, doc) /\ Keeps(j, d, job, doc) /\ Serves(next, job, doc)
<1> DEFINE id == j.fence + 1
           job == NewAttempt(j, id, 0)
           doc == ClaimAttempt(d, id, job.fence)
           next == [w EXCEPT !.at = at, !.attempt = id, !.fence = job.fence]
<1>1. /\ j.fence \in Nat /\ d.fence \in Nat /\ id \in Nat /\ id \in Int /\ id # None
      /\ 0 + LeaseTime \in Int /\ -1 \in Int
      /\ j.attempt = None /\ d.exists /\ d.active = None /\ d.progress = {} /\ d.fence <= j.fence
      /\ j.state \notin Terminal /\ d.selected = None
  BY LocalProfileAssumption DEF JobRecord, RunDoc, Serves, Sound, Claimable, None
<1>2. Max({id, d.fence + 1}) = id
  <2> DEFINE next_fence == d.fence + 1
  <2>1. id \in Int /\ next_fence \in Int /\ next_fence <= id
    BY <1>1
  <2> HIDE DEF id, next_fence
  <2>2. Max({id, next_fence}) \in {id, next_fence} /\ Max({id, next_fence}) >= id
    BY <2>1, MaxOfTwo, Zenon
  <2>3. Max({id, next_fence}) = id
    BY <2>1, <2>2
  <2>4. QED
    BY <2>3 DEF next_fence
<1>3. /\ job \in JobRecord /\ job.fence = id /\ job.attempt = id /\ job.state = "running"
  BY <1>1 DEF NewAttempt, JobRecord, Active
<1> HIDE DEF job, id
<1>4. /\ doc \in RunDoc /\ doc.exists /\ doc.key = d.key /\ doc.fence = id /\ doc.active = id
      /\ doc.selected = None /\ doc.progress = {}
  BY <1>1, <1>2, <1>3 DEF ClaimAttempt, RunDoc
<1>5. /\ next \in Worker /\ next.at = at /\ next.attempt = id /\ next.fence = id
  BY <1>1, <1>3 DEF Worker
<1> HIDE DEF doc, next
<1>6. Sound(job, doc)
  <2>1. Tops(doc.progress, job.attempt, -1)
    BY <1>4 DEF Tops
  <2>2. QED
    BY <1>1, <1>3, <1>4, <2>1 DEF Sound, Terminal, Finished
<1>7. Keeps(j, d, job, doc)
  BY <1>1, <1>4 DEF Keeps, Terminal
<1>8. Serves(next, job, doc)
  BY <1>1, <1>3, <1>4, <1>5 DEF Serves, Finished, Terminal
<1>9. QED
  BY <1>3, <1>4, <1>5, <1>6, <1>7, <1>8 DEF id, job, doc, next

\* A progress update of the engine.
LEMMA EmitSound ==
  ASSUME NEW j \in JobRecord, NEW d \in RunDoc, NEW w \in Worker,
         Sound(j, d), Serves(w, j, d), w.at = "run", NEW phase \in Phases,
         NEW next \in Worker,
         \/ next = [w EXCEPT !.at = "fail"]
         \/ /\ next.at \in {"run", "final", "fail"}
            /\ next = [w EXCEPT !.at = next.at, !.sequence = @ + 1, !.phase = phase]
            /\ next.at = "final" => phase \in {"completed", "cancelled"}
  PROVE  LET doc == CommitProgress(d, w.attempt, w.fence, w.sequence, phase) IN
         /\ doc \in RunDoc
         /\ Sound(j, doc) /\ Keeps(j, d, j, doc) /\ Serves(next, j, doc)
<1> DEFINE doc == CommitProgress(d, w.attempt, w.fence, w.sequence, phase)
           row == Row(w.attempt, w.sequence, phase)
           n == w.sequence
<1>1. /\ w.attempt \in Int /\ w.fence \in Nat /\ d.fence \in Nat
      /\ n \in Nat /\ n \in Int
      /\ d.exists /\ w.attempt = j.attempt /\ w.attempt # None
      /\ d.active = w.attempt /\ w.fence >= d.fence /\ j.state \notin Finished
      /\ \A u \in d.progress : u.attempt = w.attempt => u.sequence < n
      /\ d.progress \in SUBSET Update
  BY DEF Serves, Worker, RunDoc
<1>2. /\ doc \in RunDoc
      /\ doc.exists = d.exists /\ doc.key = d.key /\ doc.fence = w.fence
      /\ doc.active = d.active /\ doc.selected = d.selected
      /\ doc.progress = With(d.progress, row)
  <2>1. w.attempt \in Int /\ w.fence \in Nat /\ n \in Nat /\ d.active = w.attempt
        /\ w.fence >= d.fence
    BY <1>1
  <2>2. QED
    BY <2>1, CommitTaken
<1>3. Tops(doc.progress, w.attempt, n) /\ row \in doc.progress
  <2>1. Tops(With(d.progress, row), w.attempt, n) /\ row \in With(d.progress, row)
    BY <1>1, AddedTops
  <2>2. QED
    BY <1>2, <2>1
<1> HIDE DEF doc, row
<1>4. Sound(j, doc)
  BY <1>1, <1>2, <1>3 DEF Sound
<1>5. Keeps(j, d, j, doc)
  BY <1>2 DEF Keeps
<1>6. Serves(next, j, doc)
  <2>1. /\ next.attempt = w.attempt /\ next.fence = w.fence /\ next.at \in {"run", "final", "fail"}
        /\ next.at # "fail" => next.sequence = n + 1 /\ next.phase = phase
    BY DEF Worker
  <2>2. \A u \in doc.progress : u.attempt = w.attempt => u.sequence < n + 1
    BY <1>1, <1>2, <1>3 DEF Tops, RunDoc, Update
  <2>3. CASE next.at = "final"
    <3>1. next.sequence - 1 = n
      BY <1>1, <2>1, <2>3
    <3>2. phase \in {"completed", "cancelled"}
      BY <2>3 DEF Worker
    <3>3. QED
      BY <1>1, <1>2, <1>3, <2>1, <2>3, <3>1, <3>2 DEF Serves, row
  <2>4. CASE next.at \in {"run", "fail"}
    BY <1>1, <1>2, <2>1, <2>2, <2>4 DEF Serves
  <2>5. QED
    BY <2>1, <2>3, <2>4
<1>7. QED
  BY <1>2, <1>4, <1>5, <1>6 DEF doc

\* An event, published or published again.
LEMMA EventSound ==
  ASSUME NEW j \in JobRecord, NEW d \in RunDoc, NEW w \in Worker,
         Sound(j, d), Serves(w, j, d), w.at \in {"run", "republish"},
         NEW evidence \in {"built", "failed"}, NEW at \in {"run", "republish", "fail"}
  PROVE  /\ CommitEvent(d, w.attempt, w.fence, evidence) \in RunDoc
         /\ Sound(j, CommitEvent(d, w.attempt, w.fence, evidence))
         /\ Keeps(j, d, j, CommitEvent(d, w.attempt, w.fence, evidence))
         /\ [w EXCEPT !.at = at] \in Worker
         /\ Serves([w EXCEPT !.at = at], j, CommitEvent(d, w.attempt, w.fence, evidence))
<1> DEFINE doc == CommitEvent(d, w.attempt, w.fence, evidence)
           next == [w EXCEPT !.at = at]
<1>1. /\ w.fence \in Nat /\ d.fence \in Nat /\ d.exists
      /\ w.attempt = j.attempt /\ w.attempt # None
      /\ d.active = w.attempt /\ w.fence >= d.fence
  BY DEF Serves, Worker, RunDoc
<1>2. [revision |-> 0, reviewed |-> FALSE, evidence |-> evidence]
        \in [revision : Int, reviewed : BOOLEAN, evidence : {"none", "built", "failed"}]
  OBVIOUS
<1>3. /\ doc \in RunDoc
      /\ doc.exists = d.exists /\ doc.key = d.key /\ doc.fence = w.fence
      /\ doc.active = d.active /\ doc.selected = d.selected /\ doc.progress = d.progress
  BY <1>1, <1>2 DEF CommitEvent, Accepts, RunDoc
<1>4. /\ next \in Worker /\ next.at = at
      /\ next.attempt = w.attempt /\ next.fence = w.fence /\ next.sequence = w.sequence
  BY DEF Worker
<1> HIDE DEF doc, next
<1>5. Sound(j, doc) /\ Keeps(j, d, j, doc)
  BY <1>1, <1>3 DEF Sound, Keeps
<1>6. Serves(next, j, doc)
  BY <1>1, <1>3, <1>4 DEF Serves
<1>7. QED
  BY <1>3, <1>4, <1>5, <1>6 DEF doc, next

\* A job record that ends, and one that is cancelled.
LEMMA EndedType ==
  ASSUME NEW j \in JobRecord, NEW outcome \in {"completed", "failed"}
  PROVE  /\ FinishedAs(j, outcome) \in JobRecord /\ FinishedAs(j, outcome).state = outcome
         /\ FinishedAs(j, outcome).attempt = j.attempt /\ FinishedAs(j, outcome).fence = j.fence
         /\ FinishedAs(j, outcome).cancel_requested = j.cancel_requested
<1>1. None \in Int
  BY DEF None
<1>2. QED
  BY <1>1 DEF FinishedAs, JobRecord, Terminal

LEMMA CancelledType ==
  ASSUME NEW j \in JobRecord
  PROVE  /\ CancelledAt(j, 0) \in JobRecord /\ CancelledAt(j, 0).state = "cancelled"
         /\ CancelledAt(j, 0).attempt = j.attempt /\ CancelledAt(j, 0).fence = j.fence
         /\ CancelledAt(j, 0).cancel_requested
<1>1. 0 \in Int
  OBVIOUS
<1>2. QED
  BY <1>1 DEF CancelledAt, JobRecord, Terminal

\* The final transaction.
LEMMA FinalizeSound ==
  ASSUME NEW j \in JobRecord, NEW d \in RunDoc, NEW w \in Worker,
         Sound(j, d), Serves(w, j, d), w.at = "final",
         NEW job, job = IF w.phase = "cancelled" \/ j.cancel_requested
                        THEN CancelledAt(j, 0) ELSE FinishedAs(j, w.phase),
         NEW at \in {"done", "fail"}
  PROVE  /\ job \in JobRecord /\ FinalizeRun(d, w.attempt) \in RunDoc
         /\ Sound(job, FinalizeRun(d, w.attempt))
         /\ Keeps(j, d, job, FinalizeRun(d, w.attempt))
         /\ [w EXCEPT !.at = at] \in Worker
         /\ Serves([w EXCEPT !.at = at], job, FinalizeRun(d, w.attempt))
<1> DEFINE doc == FinalizeRun(d, w.attempt)
           next == [w EXCEPT !.at = at]
<1>1. /\ d.exists /\ w.attempt \in Int /\ w.attempt = j.attempt /\ w.attempt # None
      /\ d.active = w.attempt /\ w.fence >= d.fence
      /\ w.phase \in {"completed", "cancelled"}
      /\ w.sequence - 1 \in Nat /\ Tops(d.progress, w.attempt, w.sequence - 1)
      /\ Row(w.attempt, w.sequence - 1, w.phase) \in d.progress
  BY DEF Serves, Worker
<1>2. /\ doc \in RunDoc
      /\ doc.exists = d.exists /\ doc.key = d.key /\ doc.fence = d.fence
      /\ doc.active = d.active /\ doc.selected = w.attempt /\ doc.progress = d.progress
  BY <1>1 DEF FinalizeRun, RunDoc
<1>3. /\ next \in Worker /\ next.at = at /\ next.attempt = w.attempt /\ next.fence = w.fence
  BY DEF Worker
<1>4. /\ job \in JobRecord /\ job.attempt = j.attempt
      /\ \/ job.state = "cancelled" /\ job.cancel_requested
         \/ job.state = "completed" /\ w.phase = "completed" /\ ~j.cancel_requested
  BY <1>1, EndedType, CancelledType
<1> HIDE DEF doc, next
<1>5. Sound(job, doc)
  BY <1>1, <1>2, <1>4 DEF Sound, Terminal, Finished
<1>6. Keeps(j, d, job, doc)
  BY <1>2, <1>4 DEF Keeps, Sound
<1>7. Serves(next, job, doc)
  BY <1>1, <1>2, <1>3, <1>4 DEF Serves
<1>8. QED
  BY <1>2, <1>3, <1>4, <1>5, <1>6, <1>7 DEF doc, next

\* The failure handler of a run that is not cancelled.
LEMMA FailureSound ==
  ASSUME NEW j \in JobRecord, NEW d \in RunDoc, NEW w \in Worker,
         Sound(j, d), Serves(w, j, d), w.at = "fail", j.state # "cancelled",
         NEW doc, doc = FinalizeRun(CommitProgress(d, w.attempt, w.fence,
                          LastSequence(d.progress, w.attempt) + 1, "failed"), w.attempt)
  PROVE  /\ FinishedAs(j, "failed") \in JobRecord /\ doc \in RunDoc
         /\ Sound(FinishedAs(j, "failed"), doc) /\ Keeps(j, d, FinishedAs(j, "failed"), doc)
<1> DEFINE job == FinishedAs(j, "failed")
           n == LastSequence(d.progress, w.attempt) + 1
           row == Row(w.attempt, n, "failed")
           closed == CommitProgress(d, w.attempt, w.fence, n, "failed")
<1>1. /\ d.exists /\ w.attempt \in Int /\ w.attempt = j.attempt /\ w.attempt # None
      /\ d.active = w.attempt /\ w.fence \in Nat /\ d.fence \in Nat /\ w.fence >= d.fence
      /\ d.progress \in SUBSET Update /\ "failed" \in Phases
  BY DEF Serves, Worker, RunDoc, Phases
<1>2. PICK last \in Nat \cup {-1} : Tops(d.progress, w.attempt, last)
  BY <1>1 DEF Sound
<1>3. n = last + 1
  BY <1>1, <1>2, LastIs
<1>4. n \in Nat /\ \A u \in d.progress : u.attempt = w.attempt => u.sequence < n
  BY <1>1, <1>2, <1>3 DEF Tops, Update
<1> HIDE DEF n
<1>5. Tops(With(d.progress, row), w.attempt, n) /\ row \in With(d.progress, row)
  BY <1>1, <1>4, AddedTops
<1>6. /\ closed \in RunDoc
      /\ closed.exists = d.exists /\ closed.key = d.key /\ closed.active = w.attempt
      /\ closed.progress = With(d.progress, row)
  <2>1. w.attempt \in Int /\ w.fence \in Nat /\ n \in Nat /\ d.active = w.attempt
        /\ w.fence >= d.fence /\ "failed" \in Phases
    BY <1>1, <1>4
  <2>2. QED
    BY <2>1, CommitTaken
<1> HIDE DEF closed, row
<1>7. /\ doc \in RunDoc
      /\ doc.exists = d.exists /\ doc.key = d.key /\ doc.selected = w.attempt
      /\ doc.progress = With(d.progress, row)
  BY <1>1, <1>6 DEF FinalizeRun, RunDoc, n, closed
<1>8. /\ job \in JobRecord /\ job.attempt = j.attempt /\ job.state = "failed"
      /\ job.cancel_requested = j.cancel_requested
  BY EndedType
<1> HIDE DEF job
<1>9. Sound(job, doc)
  BY <1>1, <1>4, <1>5, <1>7, <1>8 DEF Sound, Terminal, Finished, row
<1>10. Keeps(j, d, job, doc)
  BY <1>7, <1>8 DEF Keeps
<1>11. QED
  BY <1>7, <1>8, <1>9, <1>10 DEF job

\* What a restart makes of one run: it ends, and shows that it did.
LEMMA InterruptSound ==
  ASSUME NEW j \in JobRecord, NEW d \in RunDoc, Sound(j, d)
  PROVE  /\ InterruptRun(j, d).job \in JobRecord /\ InterruptRun(j, d).run \in RunDoc
         /\ Sound(InterruptRun(j, d).job, InterruptRun(j, d).run)
         /\ Keeps(j, d, InterruptRun(j, d).job, InterruptRun(j, d).run)
<1>1. CASE j.state \in Terminal \cup {"absent"}
  <2>1. j.state = "absent" => ~d.exists
    BY DEF Sound
  <2>2. InterruptRun(j, d).job = j /\ InterruptRun(j, d).run = d
    BY <1>1, <2>1 DEF InterruptRun, Terminal
  <2>3. Keeps(j, d, j, d)
    BY DEF Keeps
  <2>4. QED
    BY <2>2, <2>3
<1>2. CASE j.state \notin Terminal \cup {"absent"}
  <2> DEFINE a == j.attempt
             last == LastSequence(d.progress, a)
             n == Max({j.progress, last}) + 1
             job == [j EXCEPT !.state = "failed", !.expires = None, !.fence = @ + 1,
                              !.progress = IF a # None THEN n ELSE @]
             fenced == [d EXCEPT !.active = None, !.fence = Max({@ + 1, j.fence + 1})]
             doc == IF a = None THEN fenced
                    ELSE [fenced EXCEPT !.selected = a, !.progress = @ \cup {Row(a, n, "failed")}]
  <2>1. /\ d.exists /\ d.selected = None /\ a \in Int /\ j.fence \in Nat /\ d.fence \in Nat
        /\ j.progress \in Int /\ None \in Int /\ d.progress \in SUBSET Update
        /\ "failed" \in Phases /\ "failed" \in Finished /\ "failed" \in Terminal
    BY <1>2 DEF Sound, JobRecord, RunDoc, None, Phases, Finished, Terminal, Absent
  <2>2. InterruptRun(j, d).job = job /\ InterruptRun(j, d).run = doc
    <3>1. CASE a = None
      <4>1. d.active = None
        BY <3>1 DEF Sound
      <4>2. QED
        BY <1>2, <2>1, <3>1, <4>1 DEF InterruptRun, JobRecord
    <3>2. CASE a # None
      BY <1>2, <2>1, <3>2 DEF InterruptRun, JobRecord, Row
    <3>3. QED
      BY <3>1, <3>2
  <2>3. PICK top \in Nat \cup {-1} : Tops(d.progress, a, top)
    BY DEF Sound
  <2>4. last = top
    BY <2>1, <2>3, LastIs
  <2>5. n \in Nat /\ n \in Int /\ n > top
    <3> HIDE DEF last
    <3>1. last \in Int /\ last >= -1
      BY <2>3, <2>4
    <3>2. Max({j.progress, last}) \in {j.progress, last} /\ Max({j.progress, last}) >= last
      BY <2>1, <3>1, MaxOfTwo
    <3>3. QED
      BY <2>1, <2>4, <3>1, <3>2
  <2> HIDE DEF n
  <2>6. \A u \in d.progress : u.attempt = a => u.sequence < n
    BY <2>1, <2>3, <2>5 DEF Tops, Update
  <2>7. /\ Tops(d.progress \cup {Row(a, n, "failed")}, a, n)
        /\ Row(a, n, "failed") \in Update
    BY <2>1, <2>5, <2>6, AddedTops
  <2>8. /\ job \in JobRecord /\ job.state = "failed" /\ job.attempt = a /\ job.fence = j.fence + 1
        /\ job.cancel_requested = j.cancel_requested
    <3>1. (IF a # None THEN n ELSE j.progress) \in Int /\ j.fence + 1 \in Nat
      BY <2>1, <2>5
    <3>2. QED
      BY <2>1, <3>1 DEF JobRecord
  <2>9. /\ fenced \in RunDoc /\ fenced.exists /\ fenced.key = d.key /\ fenced.active = None
        /\ fenced.selected = None /\ fenced.progress = d.progress
        /\ d.fence <= j.fence => fenced.fence <= j.fence + 1
    <3> DEFINE f == Max({d.fence + 1, j.fence + 1})
    <3>1. f \in {d.fence + 1, j.fence + 1}
      <4>1. d.fence + 1 \in Int /\ j.fence + 1 \in Int
        BY <2>1
      <4>2. QED
        BY <4>1, MaxOfTwo
    <3>2. f \in Nat /\ (d.fence <= j.fence => f <= j.fence + 1)
      <4> HIDE DEF f
      <4>1. QED
        BY <2>1, <3>1
    <3> HIDE DEF f
    <3>3. fenced = [d EXCEPT !.active = None, !.fence = f]
      BY DEF f
    <3>4. QED
      BY <2>1, <3>2, <3>3 DEF RunDoc
  <2> HIDE DEF job, fenced
  <2>10. CASE a = None
    <3>1. doc = fenced /\ d.progress = {} /\ d.fence <= j.fence
      BY <2>10 DEF Sound
    <3>2. Tops({}, None, -1)
      BY DEF Tops
    <3>3. Sound(job, doc)
      BY <2>1, <2>8, <2>9, <2>10, <3>1, <3>2 DEF Sound
    <3>4. Keeps(j, d, job, doc)
      BY <1>2, <2>1, <2>9, <3>1 DEF Keeps, Terminal
    <3>5. QED
      BY <2>2, <2>8, <2>9, <3>1, <3>3, <3>4
  <2>11. CASE a # None
    <3>1. /\ doc \in RunDoc /\ doc.exists /\ doc.key = d.key /\ doc.selected = a
          /\ doc.progress = d.progress \cup {Row(a, n, "failed")}
      BY <2>1, <2>7, <2>9, <2>11 DEF RunDoc
    <3> HIDE DEF doc
    <3>2. Tops(doc.progress, a, n) /\ Row(a, n, "failed") \in doc.progress
      BY <2>7, <3>1
    <3>3. Sound(job, doc)
      BY <2>1, <2>5, <2>8, <2>11, <3>1, <3>2 DEF Sound
    <3>4. Keeps(j, d, job, doc)
      BY <1>2, <2>1, <3>1 DEF Keeps, Terminal
    <3>5. QED
      BY <2>2, <2>8, <3>1, <3>3, <3>4
  <2>12. QED
    BY <2>10, <2>11
<1>3. QED
  BY <1>1, <1>2

-----------------------------------------------------------------------------
\* The transactions of the requests.

\* A run that is created, with its job and its worker.
LEMMA CreatedSound ==
  ASSUME NEW k \in Keys, NEW id \in Nat
  PROVE  LET job == Submitted([Absent EXCEPT !.state = "dispatching"], id)
             doc == Created(NoRunDoc, k) IN
         /\ job \in JobRecord /\ job.state = "dispatched" /\ job.attempt = None /\ job.fence = 0
         /\ doc \in RunDoc /\ doc.exists /\ doc.key = k /\ doc.fence = 0
         /\ Submit(id) \in Worker
         /\ Sound(job, doc) /\ Serves(Submit(id), job, doc)
<1> DEFINE job == Submitted([Absent EXCEPT !.state = "dispatching"], id)
           doc == Created(NoRunDoc, k)
<1>1. id \in Int /\ None \in Int /\ -1 \in Int
  BY DEF None
<1>2. job \in JobRecord /\ job.state = "dispatched" /\ job.attempt = None /\ job.fence = 0
  BY <1>1 DEF Submitted, Absent, JobRecord, Active, Terminal
<1>3. /\ doc \in RunDoc /\ doc.exists /\ doc.key = k /\ doc.fence = 0
      /\ doc.active = None /\ doc.selected = None /\ doc.progress = {}
  BY <1>1 DEF Created, NoRunDoc, NoEvent, RunDoc
<1>4. Submit(id) \in Worker /\ Submit(id).at = "claim"
  BY <1>1 DEF Submit, NoWorker, Worker, Phases
<1> HIDE DEF job, doc
<1>5. Tops(doc.progress, job.attempt, -1)
  BY <1>3 DEF Tops
<1>6. Sound(job, doc)
  BY <1>2, <1>3, <1>5 DEF Sound, Finished, Terminal
<1>7. Serves(Submit(id), job, doc)
  BY <1>2, <1>3, <1>4 DEF Serves, Finished, Terminal
<1>8. QED
  BY <1>2, <1>3, <1>4, <1>6, <1>7 DEF job, doc

LEMMA StartStep ==
  ASSUME IInv, NEW k \in Keys, NEW r \in Runs, NEW saved \in BOOLEAN, StartRun(k, r, saved)
  PROVE  IInv'
<1> DEFINE id == invocations + 1
           job == Submitted([Absent EXCEPT !.state = "dispatching"], id)
           doc == Created(NoRunDoc, k)
           answer == [about |-> "start", key |-> k, run |-> r]
           after == Revise(mem, r, job, doc)
<1>1. /\ mem \in Memory /\ disk \in Memory /\ id \in Nat /\ told \in SUBSET Told
      /\ mem.run[r] = NoRunDoc /\ ~mem.run[r].exists
      /\ \A q \in Runs : mem.run[q].key # k
  BY RunOf DEF IInv, TypeOK, Sound, StartRun
<1>2. /\ job \in JobRecord /\ doc \in RunDoc /\ doc.exists /\ doc.key = k
      /\ job.state = "dispatched"
      /\ Submit(id) \in Worker /\ Sound(job, doc) /\ Serves(Submit(id), job, doc)
  BY <1>1, CreatedSound
<1>3. mem' = after /\ disk' \in {after, disk} /\ mishaps' \in Nat
  <2>1. [mem EXCEPT !.run[r] = Created(@, k),
                    !.job[r] = Submitted([Absent EXCEPT !.state = "dispatching"], id)] = after
    BY <1>1 DEF Memory, Revise
  <2>2. QED
    BY <2>1 DEF StartRun, Save, IInv, TypeOK
<1>4. /\ invocations' = id /\ worker' = [worker EXCEPT ![r] = Submit(id)]
      /\ answer \in Told
      /\ told' \in {told, told \cup {answer}} /\ (disk' = disk => told' = told \/ disk = after)
  <2>1. told' = IF saved THEN told \cup {answer} ELSE told
    BY DEF StartRun, Answer
  <2>2. saved => disk' = after
    BY <1>3 DEF StartRun, Save
  <2>3. QED
    BY <2>1, <2>2 DEF StartRun, Told
<1> HIDE DEF id, job, doc, after, answer
<1>5. /\ after \in Memory /\ after.job[r] = job /\ after.run[r] = doc
      /\ \A q \in Runs \ {r} : after.job[q] = mem.job[q] /\ after.run[q] = mem.run[q]
  BY <1>1, <1>2, Revised DEF after
<1>6. TypeOK'
  BY <1>1, <1>2, <1>3, <1>4, <1>5 DEF IInv, TypeOK
<1>7. \A S \in {told, told \cup {answer}} : Coherent(after, S)
  <2>1. \A q \in Runs : Sound(after.job[q], after.run[q])
    BY <1>2, <1>5 DEF IInv, Coherent
  <2>2. KeysDiffer(after)
    BY <1>1, <1>2, <1>5 DEF IInv, Coherent, KeysDiffer
  <2>3. Kept(after, told)
    <3>1. \A q \in Runs : /\ mem.run[q].exists => after.run[q] = mem.run[q]
                          /\ mem.job[q].state = "cancelled" => after.job[q] = mem.job[q]
      <4>1. mem.job[r] = Absent
        BY <1>1, RunOf DEF Sound
      <4>2. QED
        BY <1>1, <1>5, <4>1 DEF Absent
    <3>2. QED
      BY <1>1, <3>1 DEF IInv, Coherent, Kept, Told
  <2>4. Kept(after, told \cup {answer})
    BY <1>2, <1>5, <2>3 DEF Kept, answer
  <2>5. QED
    BY <2>1, <2>2, <2>3, <2>4 DEF Coherent
<1>8. Coherent(mem', told') /\ Coherent(disk', told')
  BY <1>3, <1>4, <1>7 DEF IInv
<1>9. \A q \in Runs : Serves(worker'[q], after.job[q], after.run[q])
  BY <1>2, <1>4, <1>5 DEF IInv, TypeOK
<1>10. QED
  BY <1>3, <1>6, <1>8, <1>9 DEF IInv

LEMMA ReplayStep ==
  ASSUME IInv, NEW k \in Keys, NEW saved \in BOOLEAN, ReplayStart(k, saved)
  PROVE  IInv'
<1>1. PICK r \in Runs :
        /\ mem.run[r].key = k
        /\ Save(mem, saved)
        /\ told' \in {told, IF saved THEN told \cup {[about |-> "start", key |-> k, run |-> r]}
                            ELSE told}
        /\ UNCHANGED <<worker, invocations>>
  BY DEF ReplayStart, Answer
<1> DEFINE answer == [about |-> "start", key |-> k, run |-> r]
<1>2. mem.run[r].exists /\ mem.run[r].key = k /\ answer \in Told
  BY <1>1, RunOf, LocalProfileAssumption DEF Sound, NoRunDoc, Told
<1>3. Coherent(mem, told \cup {answer})
  BY <1>2 DEF IInv, Coherent, Kept
<1>4. /\ mem' = mem /\ mishaps' \in Nat /\ disk' \in {mem, disk}
      /\ told' \in {told, told \cup {answer}} /\ (disk' = mem \/ told' = told)
  BY <1>1 DEF Save, IInv, TypeOK
<1>5. TypeOK'
  BY <1>1, <1>2, <1>4 DEF IInv, TypeOK
<1> HIDE DEF answer
<1>6. Coherent(mem', told') /\ Coherent(disk', told')
  BY <1>3, <1>4 DEF IInv
<1>7. QED
  BY <1>1, <1>4, <1>5, <1>6 DEF IInv

LEMMA CancelStep ==
  ASSUME IInv, NEW r \in Runs, NEW saved \in BOOLEAN, CancelRun(r, saved)
  PROVE  IInv'
<1> DEFINE job == CancelledAt(mem.job[r], 0)
           after == Revise(mem, r, job, mem.run[r])
           answer == [about |-> "cancel", key |-> NoKey, run |-> r]
<1>1. /\ mem \in Memory /\ told \in SUBSET Told /\ answer \in Told /\ mem.run[r].exists
      /\ mem.job[r] \in JobRecord /\ mem.run[r] \in RunDoc
      /\ Sound(mem.job[r], mem.run[r]) /\ Serves(worker[r], mem.job[r], mem.run[r])
  BY RunOf DEF IInv, TypeOK, CancelRun, Told
<1>2. /\ job \in JobRecord /\ job.state = "cancelled" /\ job.attempt = mem.job[r].attempt
      /\ job.fence = mem.job[r].fence /\ job.cancel_requested
  BY <1>1, CancelledType
<1>3. /\ mem' = after /\ disk' \in {after, disk} /\ mishaps' \in Nat
      /\ told' \in {told, told \cup {answer}} /\ (disk' = after \/ told' = told)
      /\ invocations' = invocations
  <2>1. [mem EXCEPT !.job[r] = CancelledAt(@, 0)] = after
    BY <1>1, <1>2, RevisedJob DEF Memory
  <2>2. QED
    BY <2>1 DEF CancelRun, Save, Answer, IInv, TypeOK
<1>4. /\ worker' \in [Runs -> Worker]
      /\ \A q \in Runs : /\ worker'[q].at = worker[q].at
                         /\ worker'[q].attempt = worker[q].attempt
                         /\ worker'[q].fence = worker[q].fence
                         /\ worker'[q].sequence = worker[q].sequence
                         /\ worker'[q].phase = worker[q].phase
  <2>1. \A q \in Runs : worker[q] \in Worker
    BY DEF IInv, TypeOK
  <2>2. \A w \in Worker : [w EXCEPT !.cancelled = TRUE] \in Worker
    BY DEF Worker
  <2>3. QED
    BY <2>1, <2>2 DEF CancelRun, Worker
<1> HIDE DEF job, after, answer
<1>5. /\ after \in Memory /\ after.job[r] = job /\ after.run[r] = mem.run[r]
      /\ \A q \in Runs \ {r} : after.job[q] = mem.job[q] /\ after.run[q] = mem.run[q]
  BY <1>1, <1>2, Revised DEF after
<1>6. TypeOK'
  BY <1>1, <1>3, <1>4, <1>5 DEF IInv, TypeOK
<1>7. \A S \in {told, told \cup {answer}} : Coherent(after, S)
  <2>1. Sound(job, mem.run[r])
    BY <1>1, <1>2 DEF Sound, Terminal, Finished
  <2>2. \A q \in Runs : /\ Sound(after.job[q], after.run[q])
                        /\ Keeps(mem.job[q], mem.run[q], after.job[q], after.run[q])
    BY <1>2, <1>5, <2>1 DEF IInv, Coherent, Keeps
  <2>3. Coherent(after, told)
    BY <1>1, <2>2, CoherentAfter DEF IInv
  <2>4. QED
    BY <1>2, <1>5, <2>3 DEF Coherent, Kept, answer
<1>8. Coherent(mem', told') /\ Coherent(disk', told')
  BY <1>3, <1>7 DEF IInv
<1>9. \A q \in Runs : Serves(worker'[q], after.job[q], after.run[q])
  <2>1. Serves(worker'[r], job, mem.run[r])
    BY <1>1, <1>2, <1>4 DEF Serves, Finished
  <2>2. \A q \in Runs \ {r} : Serves(worker'[q], mem.job[q], mem.run[q])
    BY <1>4, RunOf DEF Serves
  <2>3. QED
    BY <1>5, <2>1, <2>2
<1>10. QED
  BY <1>3, <1>6, <1>8, <1>9 DEF IInv

LEMMA ReviewStep ==
  ASSUME IInv, NEW r \in Runs, NEW saved \in BOOLEAN, ReviewEvent(r, saved)
  PROVE  IInv'
<1> DEFINE j == mem.job[r]
           d == mem.run[r]
           event == [revision |-> d.event.revision + 1, reviewed |-> TRUE,
                     evidence |-> d.event.evidence]
           doc == [d EXCEPT !.event = event]
<1>1. /\ mem \in Memory /\ j \in JobRecord /\ d \in RunDoc /\ worker[r] \in Worker
      /\ Sound(j, d) /\ Serves(worker[r], j, d)
  BY RunOf DEF IInv, TypeOK
<1> HIDE DEF j, d
<1>2. event
        \in [revision : Int, reviewed : BOOLEAN, evidence : {"none", "built", "failed"}]
  BY <1>1 DEF RunDoc
<1> HIDE DEF event
<1>3. /\ doc \in RunDoc /\ doc.exists = d.exists /\ doc.key = d.key /\ doc.fence = d.fence
      /\ doc.active = d.active /\ doc.selected = d.selected /\ doc.progress = d.progress
  BY <1>1, <1>2 DEF RunDoc
<1>5. Save(Revise(mem, r, j, doc), saved)
  <2>1. [mem EXCEPT !.run[r].event = event] = [mem EXCEPT !.run[r] = doc]
    BY <1>1 DEF Memory, RunDoc, d
  <2>2. [mem EXCEPT !.run[r] = doc] = Revise(mem, r, j, doc)
    BY <1>1, <1>3, RevisedRun DEF j
  <2>3. QED
    BY <2>1, <2>2 DEF ReviewEvent, event, d
<1> HIDE DEF doc
<1>6. Sound(j, doc) /\ Keeps(j, d, j, doc) /\ Serves(worker[r], j, doc)
  <2>1. j.state # "absent"
    BY <1>1 DEF ReviewEvent, d, Sound, NoRunDoc, NoEvent
  <2>2. d.exists
    BY <1>1 DEF ReviewEvent, d, Sound, NoRunDoc, NoEvent
  <2>3. QED
    BY <1>1, <1>3, <2>1, <2>2 DEF Sound, Keeps, Serves
<1>7. /\ worker' = [worker EXCEPT ![r] = worker[r]]
      /\ told' = told /\ invocations' = invocations
  BY DEF ReviewEvent, IInv, TypeOK
<1>8. QED
  BY <1>1, <1>3, <1>5, <1>6, <1>7, StepOfOne DEF j, d

LEMMA CheckpointStep ==
  ASSUME IInv, Checkpoint
  PROVE  IInv'
BY DEF IInv, TypeOK, Checkpoint

-----------------------------------------------------------------------------
\* A worker whose task goes on without a transaction.
LEMMA TaskStep ==
  ASSUME IInv, NEW r \in Runs, ClaimRefused(r) \/ Abort(r)
  PROVE  IInv'
<1>1. PICK at \in {"done", "fail"} :
        /\ worker' = [worker EXCEPT ![r].at = at]
        /\ at = "fail" => worker[r].at = "run"
        /\ UNCHANGED <<mem, disk, invocations, told, mishaps>>
  BY DEF ClaimRefused, Abort
<1>2. worker[r] \in Worker /\ Serves(worker[r], mem.job[r], mem.run[r])
  BY RunOf
<1>3. [worker[r] EXCEPT !.at = at] \in Worker
  BY <1>2 DEF Worker
<1>4. Serves([worker[r] EXCEPT !.at = at], mem.job[r], mem.run[r])
  BY <1>1, <1>2 DEF Serves, Worker
<1>5. /\ worker' \in [Runs -> Worker]
      /\ \A q \in Runs : Serves(worker'[q], mem.job[q], mem.run[q])
  BY <1>1, <1>3, <1>4 DEF IInv, TypeOK
<1>6. QED
  BY <1>1, <1>5 DEF IInv, TypeOK

LEMMA ClaimStep ==
  ASSUME IInv, NEW r \in Runs, NEW saved \in BOOLEAN, Claim(r, saved)
  PROVE  IInv'
<1> DEFINE j == mem.job[r]
           d == mem.run[r]
           id == j.fence + 1
           job == NewAttempt(j, id, 0)
           doc == ClaimAttempt(d, id, job.fence)
           next == [worker[r] EXCEPT !.at = IF saved THEN "run" ELSE "fail",
                                     !.attempt = id, !.fence = job.fence]
<1>1. /\ mem \in Memory /\ j \in JobRecord /\ d \in RunDoc /\ worker[r] \in Worker
      /\ Sound(j, d) /\ Serves(worker[r], j, d)
  BY RunOf DEF IInv, TypeOK
<1>2. /\ worker[r].at = "claim" /\ Claimable(j)
      /\ Save([mem EXCEPT !.job[r] = job, !.run[r] = doc], saved)
      /\ worker' = [worker EXCEPT ![r] = next]
      /\ told' = told /\ invocations' = invocations
  BY DEF Claim
<1>3. /\ job \in JobRecord /\ doc \in RunDoc /\ next \in Worker
      /\ Sound(job, doc) /\ Keeps(j, d, job, doc) /\ Serves(next, job, doc)
  <2>1. (IF saved THEN "run" ELSE "fail") \in {"run", "fail"}
    OBVIOUS
  <2>2. QED
    BY <1>1, <1>2, <2>1, ClaimSound
<1> HIDE DEF j, d, id, job, doc, next
<1>4. Save(Revise(mem, r, job, doc), saved)
  BY <1>2 DEF Revise
<1>5. QED
  BY <1>2, <1>3, <1>4, StepOfOne DEF j, d

LEMMA EmitStep ==
  ASSUME IInv, NEW r \in Runs, NEW saved \in BOOLEAN, NEW phase \in Phases,
         NEW at \in {"run", "final", "fail"}, Emit(r, phase, at, saved),
         at = "final" => phase \in {"completed", "cancelled"}
  PROVE  IInv'
<1> DEFINE j == mem.job[r]
           d == mem.run[r]
           w == worker[r]
           doc == CommitProgress(d, w.attempt, w.fence, w.sequence, phase)
           next == IF saved THEN [w EXCEPT !.at = at, !.sequence = @ + 1, !.phase = phase]
                   ELSE [w EXCEPT !.at = "fail"]
<1>1. /\ mem \in Memory /\ j \in JobRecord /\ d \in RunDoc /\ w \in Worker
      /\ Sound(j, d) /\ Serves(w, j, d)
  BY RunOf DEF IInv, TypeOK
<1>2. /\ w.at = "run"
      /\ Save([mem EXCEPT !.run[r] = doc], saved)
      /\ worker' = [worker EXCEPT ![r] = next]
      /\ told' = told /\ invocations' = invocations
  BY DEF Emit
<1> HIDE DEF j, d, w
<1>3. /\ next \in Worker
      /\ \/ next = [w EXCEPT !.at = "fail"]
         \/ /\ next.at \in {"run", "final", "fail"}
            /\ next = [w EXCEPT !.at = next.at, !.sequence = @ + 1, !.phase = phase]
            /\ next.at = "final" => phase \in {"completed", "cancelled"}
  <2>1. CASE saved
    <3>1. next = [w EXCEPT !.at = at, !.sequence = @ + 1, !.phase = phase]
      BY <2>1
    <3>2. w.sequence + 1 \in Nat
      BY <1>1 DEF Worker
    <3>3. next.at = at /\ next \in Worker
      BY <1>1, <3>1, <3>2 DEF Worker
    <3>4. QED
      BY <3>1, <3>3
  <2>2. CASE ~saved
    BY <1>1, <2>2 DEF Worker
  <2>3. QED
    BY <2>1, <2>2
<1> HIDE DEF next
<1>4. doc \in RunDoc /\ Sound(j, doc) /\ Keeps(j, d, j, doc) /\ Serves(next, j, doc)
  BY <1>1, <1>2, <1>3, EmitSound
<1> HIDE DEF doc
<1>5. Save(Revise(mem, r, j, doc), saved)
  BY <1>1, <1>2, <1>4, RevisedRun DEF j
<1>6. QED
  BY <1>1, <1>2, <1>3, <1>4, <1>5, StepOfOne DEF j, d

LEMMA EventStep ==
  ASSUME IInv, NEW r \in Runs, NEW saved \in BOOLEAN,
         EngineEvent(r, saved) \/ EngineRepublish(r, saved)
  PROVE  IInv'
<1> DEFINE j == mem.job[r]
           d == mem.run[r]
           w == worker[r]
<1>1. /\ mem \in Memory /\ j \in JobRecord /\ d \in RunDoc /\ w \in Worker
      /\ Sound(j, d) /\ Serves(w, j, d)
  BY RunOf DEF IInv, TypeOK
<1>2. PICK evidence \in {"built", "failed"}, at \in {"run", "republish", "fail"} :
        /\ w.at \in {"run", "republish"}
        /\ Save([mem EXCEPT !.run[r] = CommitEvent(d, w.attempt, w.fence, evidence)], saved)
        /\ worker' = [worker EXCEPT ![r] = [w EXCEPT !.at = at]]
        /\ told' = told /\ invocations' = invocations
  <2>1. CASE EngineEvent(r, saved)
    <3>1. worker = [worker EXCEPT ![r] = [w EXCEPT !.at = "run"]]
      BY <2>1 DEF EngineEvent, IInv, TypeOK, Worker
    <3>2. QED
      BY <2>1, <3>1 DEF EngineEvent
  <2>2. CASE EngineRepublish(r, saved)
    BY <2>2 DEF EngineRepublish
  <2>3. QED
    BY <2>1, <2>2
<1> DEFINE doc == CommitEvent(d, w.attempt, w.fence, evidence)
           next == [w EXCEPT !.at = at]
<1> HIDE DEF j, d, w
<1>3. /\ doc \in RunDoc /\ Sound(j, doc) /\ Keeps(j, d, j, doc)
      /\ next \in Worker /\ Serves(next, j, doc)
  BY <1>1, <1>2, EventSound
<1> HIDE DEF doc, next
<1>4. Save(Revise(mem, r, j, doc), saved)
  BY <1>1, <1>2, <1>3, RevisedRun DEF j, doc
<1>5. worker' = [worker EXCEPT ![r] = next] /\ told' = told /\ invocations' = invocations
  BY <1>2 DEF next
<1>6. QED
  BY <1>1, <1>3, <1>4, <1>5, StepOfOne DEF j, d

LEMMA FinalizeStep ==
  ASSUME IInv, NEW r \in Runs, NEW saved \in BOOLEAN, Finalize(r, saved)
  PROVE  IInv'
<1> DEFINE j == mem.job[r]
           d == mem.run[r]
           w == worker[r]
           job == IF w.phase = "cancelled" \/ j.cancel_requested
                  THEN CancelledAt(j, 0) ELSE FinishedAs(j, w.phase)
           doc == FinalizeRun(d, w.attempt)
           next == [w EXCEPT !.at = IF saved THEN "done" ELSE "fail"]
<1>1. /\ j \in JobRecord /\ d \in RunDoc /\ w \in Worker
      /\ Sound(j, d) /\ Serves(w, j, d)
  BY RunOf
<1>2. /\ w.at = "final"
      /\ Save([mem EXCEPT !.job[r] = job, !.run[r] = doc], saved)
      /\ worker' = [worker EXCEPT ![r] = next]
      /\ told' = told /\ invocations' = invocations
  BY DEF Finalize
<1> HIDE DEF j, d, w
<1>3. /\ job \in JobRecord /\ doc \in RunDoc /\ next \in Worker
      /\ Sound(job, doc) /\ Keeps(j, d, job, doc) /\ Serves(next, job, doc)
  <2>1. (IF saved THEN "done" ELSE "fail") \in {"done", "fail"}
    OBVIOUS
  <2> HIDE DEF job
  <2>2. job = IF w.phase = "cancelled" \/ j.cancel_requested
              THEN CancelledAt(j, 0) ELSE FinishedAs(j, w.phase)
    BY DEF job
  <2>3. QED
    BY <1>1, <1>2, <2>1, <2>2, FinalizeSound
<1> HIDE DEF job, doc, next
<1>4. Save(Revise(mem, r, job, doc), saved)
  BY <1>2 DEF Revise
<1>5. QED
  BY <1>2, <1>3, <1>4, StepOfOne DEF j, d

LEMMA FailureStep ==
  ASSUME IInv, NEW r \in Runs, NEW saved \in BOOLEAN, HandleFailure(r, saved)
  PROVE  IInv'
<1> DEFINE j == mem.job[r]
           d == mem.run[r]
           w == worker[r]
           next == [w EXCEPT !.at = "done"]
           closed == FinalizeRun(CommitProgress(d, w.attempt, w.fence,
                       LastSequence(d.progress, w.attempt) + 1, "failed"), w.attempt)
<1>1. /\ mem \in Memory /\ j \in JobRecord /\ d \in RunDoc /\ w \in Worker
      /\ Sound(j, d) /\ Serves(w, j, d)
  BY RunOf DEF IInv, TypeOK
<1>2. /\ w.at = "fail"
      /\ Save(IF j.state = "cancelled" THEN mem
              ELSE [mem EXCEPT !.job[r] = FinishedAs(j, "failed"), !.run[r] = closed], saved)
      /\ worker' = [worker EXCEPT ![r] = next]
      /\ told' = told /\ invocations' = invocations
  BY DEF HandleFailure
<1> HIDE DEF j, d, w
<1>3. next \in Worker /\ \A job, doc : Serves(next, job, doc)
  BY <1>1 DEF Worker, Serves
<1> HIDE DEF next
<1>4. CASE j.state = "cancelled"
  <2>1. Save(Revise(mem, r, j, d), saved)
    <3>1. Revise(mem, r, j, d) = mem
      BY <1>1 DEF Revise, Memory, j, d
    <3>2. QED
      BY <1>2, <1>4, <3>1
  <2>2. Keeps(j, d, j, d)
    BY DEF Keeps
  <2>3. QED
    BY <1>1, <1>2, <1>3, <2>1, <2>2, StepOfOne DEF j, d
<1>5. CASE j.state # "cancelled"
  <2>1. /\ FinishedAs(j, "failed") \in JobRecord /\ closed \in RunDoc
        /\ Sound(FinishedAs(j, "failed"), closed) /\ Keeps(j, d, FinishedAs(j, "failed"), closed)
    BY <1>1, <1>2, <1>5, FailureSound
  <2> HIDE DEF closed
  <2>2. Save(Revise(mem, r, FinishedAs(j, "failed"), closed), saved)
    BY <1>2, <1>5 DEF Revise
  <2>3. QED
    BY <1>2, <1>3, <2>1, <2>2, StepOfOne DEF j, d
<1>6. QED
  BY <1>4, <1>5

LEMMA WorkStep ==
  ASSUME IInv, NEW r \in Runs, Work(r)
  PROVE  IInv'
<1>1. CASE ClaimRefused(r) \/ Abort(r)
  BY <1>1, TaskStep
<1>2. ASSUME NEW saved \in BOOLEAN, Claim(r, saved) PROVE IInv'
  BY <1>2, ClaimStep
<1>3. ASSUME NEW saved \in BOOLEAN,
             EngineProgress(r, saved) \/ EngineEnd(r, saved) \/ EngineFailed(r, saved)
      PROVE  IInv'
  <2>1. PICK phase \in Phases, at \in {"run", "final", "fail"} :
          Emit(r, phase, at, saved) /\ (at = "final" => phase \in {"completed", "cancelled"})
    BY <1>3 DEF EngineProgress, EngineEnd, EngineFailed, Phases
  <2>2. QED
    BY <2>1, EmitStep
<1>4. ASSUME NEW saved \in BOOLEAN, EngineEvent(r, saved) \/ EngineRepublish(r, saved)
      PROVE  IInv'
  BY <1>4, EventStep
<1>5. ASSUME NEW saved \in BOOLEAN, Finalize(r, saved) PROVE IInv'
  BY <1>5, FinalizeStep
<1>6. ASSUME NEW saved \in BOOLEAN, HandleFailure(r, saved) PROVE IInv'
  BY <1>6, FailureStep
<1>7. QED
  BY <1>1, <1>2, <1>3, <1>4, <1>5, <1>6 DEF Work

LEMMA RestartStep ==
  ASSUME IInv, Restart
  PROVE  IInv'
<1>1. /\ mem' = Interrupted(disk) /\ disk' = disk /\ told' = told
      /\ worker' = [r \in Runs |-> NoWorker] /\ invocations' = 0 /\ mishaps' \in Nat
  BY DEF Restart, IInv, TypeOK
<1>2. \A r \in Runs : disk.job[r] \in JobRecord /\ disk.run[r] \in RunDoc
                      /\ Sound(disk.job[r], disk.run[r])
  BY DEF IInv, TypeOK, Memory, Coherent
<1>3. \A r \in Runs :
        /\ mem'.job[r] \in JobRecord /\ mem'.run[r] \in RunDoc
        /\ Sound(mem'.job[r], mem'.run[r])
        /\ Keeps(disk.job[r], disk.run[r], mem'.job[r], mem'.run[r])
  BY <1>1, <1>2, InterruptSound DEF Interrupted
<1>4. mem' \in Memory
  BY <1>1, <1>3 DEF Interrupted, Memory
<1>5. Coherent(mem', told)
  BY <1>3, CoherentAfter DEF IInv, TypeOK
<1>6. TypeOK'
  BY <1>1, <1>4, NothingStored DEF IInv, TypeOK
<1>7. \A r \in Runs : Serves(worker'[r], mem'.job[r], mem'.run[r])
  BY <1>1, NothingStored
<1>8. QED
  BY <1>1, <1>5, <1>6, <1>7 DEF IInv

-----------------------------------------------------------------------------
LEMMA InitInv == Init => IInv
<1> SUFFICES ASSUME Init PROVE IInv
  OBVIOUS
<1>1. TypeOK
  BY NothingStored DEF Init, TypeOK
<1>2. Coherent(Empty, {})
  BY NothingStored DEF Coherent, Empty, KeysDiffer, Kept, NoRunDoc
<1>3. \A r \in Runs : Serves(worker[r], mem.job[r], mem.run[r])
  BY NothingStored DEF Init
<1>4. QED
  BY <1>1, <1>2, <1>3 DEF Init, IInv

LEMMA NextInv == IInv /\ [Next]_vars => IInv'
<1> SUFFICES ASSUME IInv, [Next]_vars PROVE IInv'
  OBVIOUS
<1>1. CASE Requests
  <2>1. ASSUME NEW k \in Keys, NEW saved \in BOOLEAN, ReplayStart(k, saved) PROVE IInv'
    BY <2>1, ReplayStep
  <2>2. ASSUME NEW k \in Keys, NEW r \in Runs, NEW saved \in BOOLEAN, StartRun(k, r, saved)
        PROVE  IInv'
    BY <2>2, StartStep
  <2>3. ASSUME NEW r \in Runs, NEW saved \in BOOLEAN, CancelRun(r, saved) PROVE IInv'
    BY <2>3, CancelStep
  <2>4. ASSUME NEW r \in Runs, NEW saved \in BOOLEAN, ReviewEvent(r, saved) PROVE IInv'
    BY <2>4, ReviewStep
  <2>5. ASSUME Checkpoint PROVE IInv'
    BY <2>5, CheckpointStep
  <2>6. QED
    BY <1>1, <2>1, <2>2, <2>3, <2>4, <2>5 DEF Requests
<1>2. ASSUME NEW r \in Runs, Work(r) PROVE IInv'
  BY <1>2, WorkStep
<1>3. CASE Restart
  BY <1>3, RestartStep
<1>4. CASE UNCHANGED vars
  BY <1>4 DEF vars, IInv, TypeOK
<1>5. QED
  BY <1>1, <1>2, <1>3, <1>4 DEF Next

LEMMA Invariant == Spec => []IInv
<1>1. QED
  BY InitInv, NextInv, PTL DEF Spec

-----------------------------------------------------------------------------
\* The repositories, the snapshot, the workers' tasks and the answers stay what
\* bootstrap.py declares them to be.
THEOREM LocalTypesCorrect == Spec => []TypeOK
<1>1. IInv => TypeOK
  BY DEF IInv
<1>2. QED
  BY <1>1, Invariant, PTL

\* The job table and the run table agree in memory and in the file, whatever save
\* failed and wherever the process stopped (_execute's final transaction, its
\* failure handler, _interrupt).
THEOREM OutcomeIsShown == Spec => []SelectedWithOutcome
<1>1. IInv => SelectedWithOutcome
  BY DEF IInv, Coherent, Sound, SelectedWithOutcome
<1>2. QED
  BY <1>1, Invariant, PTL

\* The progress of a run that ended closes with its outcome, whichever of the
\* engine, the failure handler and a restart wrote the last row.
THEOREM ProgressIsClosed == Spec => []ProgressEndsWithOutcome
<1>1. ASSUME IInv, NEW m \in {mem, disk}, NEW r \in Runs,
             m.job[r].state \in Finished, m.run[r].selected # None
      PROVE  [attempt |-> m.run[r].selected,
              sequence |-> LastSequence(m.run[r].progress, m.run[r].selected),
              phase |-> m.job[r].state] \in m.run[r].progress
  <2> DEFINE j == m.job[r]
             d == m.run[r]
  <2>1. j \in JobRecord /\ d \in RunDoc /\ Sound(j, d)
    BY <1>1 DEF IInv, TypeOK, Memory, Coherent
  <2> HIDE DEF j, d
  <2>2. d.selected = j.attempt /\ j.attempt # None /\ j.attempt \in Int
        /\ d.progress \in SUBSET Update
    BY <1>1, <2>1 DEF j, d, Sound, JobRecord, RunDoc
  <2>3. PICK n \in Nat : Tops(d.progress, j.attempt, n) /\ Row(j.attempt, n, j.state) \in d.progress
    BY <1>1, <2>1, <2>2 DEF j, Sound
  <2>4. LastSequence(d.progress, j.attempt) = n
    BY <2>2, <2>3, LastIs
  <2>5. QED
    BY <2>2, <2>3, <2>4 DEF j, d, Row
<1>2. IInv => ProgressEndsWithOutcome
  BY <1>1 DEF ProgressEndsWithOutcome
<1>3. QED
  BY <1>2, Invariant, PTL

\* One idempotency key names one run in every answer, over failed saves and
\* restarts, and the run is in the file (start_run's transaction and replay).
THEOREM KeysNameOneRun == Spec => []OneRunPerKey
<1>1. ASSUME IInv, NEW s \in told, s.about = "start"
      PROVE  /\ disk.run[s.run].exists /\ disk.job[s.run].state # "absent"
             /\ \A t \in told : t.about = "start" /\ t.key = s.key => t.run = s.run
  <2>1. \A t \in told : t.about = "start" =>
          t.run \in Runs /\ disk.run[t.run].exists /\ disk.run[t.run].key = t.key
    BY <1>1 DEF IInv, TypeOK, Told, Coherent, Kept
  <2>2. disk.job[s.run].state # "absent"
    BY <1>1, <2>1 DEF IInv, Coherent, Sound
  <2>3. \A t \in told : t.about = "start" /\ t.key = s.key => t.run = s.run
    BY <1>1, <2>1 DEF IInv, Coherent, KeysDiffer
  <2>4. QED
    BY <1>1, <2>1, <2>2, <2>3
<1>2. IInv => OneRunPerKey
  BY <1>1 DEF OneRunPerKey
<1>3. QED
  BY <1>2, Invariant, PTL

\* A cancellation a client was told of is never undone: not by the worker that
\* was about to complete, nor by its failure handler, nor by a restart.
THEOREM CancellationStands == Spec => []CancelStands
<1>1. IInv => CancelStands
  BY DEF IInv, TypeOK, Told, Coherent, Kept, CancelStands, Answered
<1>2. QED
  BY <1>1, Invariant, PTL

=============================================================================
