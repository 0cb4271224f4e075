------------------------------ MODULE Deletion ------------------------------
(***************************************************************************)
(* DeletionService over a repository that refuses deleted resources and    *)
(* swaps by revision, a media store that refuses to delete an artifact     *)
(* twice, and a provider that deletes what it is asked to.                 *)
(*                                                                         *)
(* Every call is cut at its awaits. The jobs and the generations of        *)
(* deleted resources are the service's own memory and go with it; records, *)
(* artifacts and provider files stay.                                      *)
(***************************************************************************)
EXTENDS Integers, Sequences, Functions

CONSTANTS
  Procs,       \* tasks that call the service
  Resources,
  RunKind,     \* the resources of kind run
  Artifacts,   \* artifacts of the media store, each with its generation
  Refs,        \* files at a provider
  Graphs,      \* cleanup graphs: [resources, items]
  MaxData      \* bound: the original of a resource and its rewritings

Items == Artifacts \cup Refs

ASSUME DeletionAssumption ==
  /\ Artifacts \cap Refs = {}
  /\ MaxData \in Nat \ {0}
  /\ \A g \in Graphs :
       /\ DOMAIN g = {"resources", "items"}
       /\ g.resources \in Seq(Resources) /\ g.resources # <<>> /\ IsInjective(g.resources)
       /\ g.items \subseteq Items

\* _job_id: a job is known by its resources, whatever it has to clean up.
Scopes == {g.resources : g \in Graphs}

VARIABLES
  records,    \* the repository
  cleaned,    \* artifacts and provider files that are gone
  jobs,       \* the service's deletion jobs
  fences,     \* the generations of the resources the service tombstoned, 0: none
  frame       \* the pending call of each process

vars == <<records, cleaned, jobs, fences, frame>>

\* data tells the contents a record had one after the other; 0 holds nothing.
Record == [generation : Nat, revision : Nat, deleted : BOOLEAN, cancel : BOOLEAN,
           hard : BOOLEAN, data : 0..MaxData]
NewRecord == [generation |-> 1, revision |-> 0, deleted |-> FALSE, cancel |-> FALSE,
              hard |-> FALSE, data |-> 1]

Tombstone(r, current) ==
  [current EXCEPT !.generation = @ + 1, !.revision = @ + 1, !.deleted = TRUE,
                  !.cancel = @ \/ r \in RunKind]
Erased(tombstone) == [tombstone EXCEPT !.revision = @ + 1, !.hard = TRUE, !.data = 0]

\* The tombstones of a job, and what is left to clean up.
Job == [state : {"pending", "failed", "complete"}, tombstones : Seq(Record), items : SUBSET Items]
NoJob == [state |-> "none", tombstones |-> <<>>, items |-> {}]

\* What a suspended call remembers: the tombstones it made, the record it read, the
\* job it was given, what it has still to try and what it could not delete.
Reading == [at : {"read"}, graph : Graphs, taken : Seq(Record)]
Swapping == [at : {"swap"}, graph : Graphs, taken : Seq(Record), copy : Record]
Looking == [at : {"look"}, resource : Resources, expected : Nat]
Writing == [at : {"write"}, resource : Resources, copy : Record]
Cleaning == [at : {"clean"}, scope : Scopes, job : Job, todo : SUBSET Items,
             failed : SUBSET Items]
Erasing == [at : {"erase"}, scope : Scopes, job : Job, next : Nat]
Frame == Reading \cup Swapping \cup Looking \cup Writing \cup Cleaning \cup Erasing
Idle == [at |-> "idle"]

At(p, label) == frame[p].at = label
Go(p, f) == frame' = [frame EXCEPT ![p] = f]
Return(p) == Go(p, Idle)

\* get_owned and compare_and_swap
Owned(r) == ~records[r].deleted
Current(r, revision) == records[r].revision = revision
Put(r, record) == records' = [records EXCEPT ![r] = record]

-----------------------------------------------------------------------------
Init ==
  /\ records = [r \in Resources |-> NewRecord]
  /\ cleaned = {}
  /\ jobs = [s \in Scopes |-> NoJob]
  /\ fences = [r \in Resources |-> 0]
  /\ frame = [p \in Procs |-> Idle]

-----------------------------------------------------------------------------
(* tombstone: the resources of a graph, one after the other. *)

\* A job that is known is returned.
StartTombstone(p, g) ==
  /\ At(p, "idle") /\ jobs[g.resources] = NoJob
  /\ Go(p, [at |-> "read", graph |-> g, taken |-> <<>>])
  /\ UNCHANGED <<records, cleaned, jobs, fences>>

\* The resource the call has come to.
Target(p) == frame[p].graph.resources[Len(frame[p].taken) + 1]

\* A deleted resource raises: what was tombstoned before it stays so, without a job.
ReadTarget(p) ==
  LET f == frame[p] IN
  /\ At(p, "read")
  /\ \/ Owned(Target(p))
        /\ Go(p, [at |-> "swap", graph |-> f.graph, taken |-> f.taken,
                  copy |-> records[Target(p)]])
     \/ ~Owned(Target(p)) /\ Return(p)
  /\ UNCHANGED <<records, cleaned, jobs, fences>>

\* The last resource completes the job.
SwapTarget(p) ==
  LET f == frame[p]
      tombstone == Tombstone(Target(p), f.copy)
      taken == Append(f.taken, tombstone)
      last == Len(taken) = Len(f.graph.resources) IN
  /\ At(p, "swap") /\ Current(Target(p), f.copy.revision)
  /\ Put(Target(p), tombstone)
  /\ fences' = [fences EXCEPT ![Target(p)] = tombstone.generation]
  /\ \/ last /\ Return(p)
        /\ jobs' = [jobs EXCEPT ![f.graph.resources] =
                      [state |-> "pending", tombstones |-> taken, items |-> f.graph.items]]
     \/ ~last /\ Go(p, [at |-> "read", graph |-> f.graph, taken |-> taken])
        /\ UNCHANGED jobs
  /\ UNCHANGED cleaned

SwapTargetLost(p) ==
  /\ At(p, "swap") /\ ~Current(Target(p), frame[p].copy.revision)
  /\ Return(p)
  /\ UNCHANGED <<records, cleaned, jobs, fences>>

-----------------------------------------------------------------------------
(* write_if_current: a writer that knows a generation of the resource. *)

StartWrite(p, r, expected) ==
  /\ At(p, "idle") /\ fences[r] = 0
  /\ Go(p, [at |-> "look", resource |-> r, expected |-> expected])
  /\ UNCHANGED <<records, cleaned, jobs, fences>>

\* MaxData bounds the contents told apart.
LookWrite(p) ==
  LET r == frame[p].resource
      fits == Owned(r) /\ records[r].generation = frame[p].expected IN
  /\ At(p, "look")
  /\ \/ fits /\ records[r].data < MaxData
        /\ Go(p, [at |-> "write", resource |-> r, copy |-> records[r]])
     \/ ~fits /\ Return(p)
  /\ UNCHANGED <<records, cleaned, jobs, fences>>

\* Mutant: what was read is written back without a look at the revision.
SwapWriteBlindly(p) ==
  LET r == frame[p].resource
      copy == frame[p].copy IN
  /\ At(p, "write")
  /\ Put(r, [copy EXCEPT !.revision = @ + 1, !.data = @ + 1])
  /\ Return(p)
  /\ UNCHANGED <<cleaned, jobs, fences>>

SwapWrite(p) ==
  LET r == frame[p].resource
      copy == frame[p].copy IN
  /\ At(p, "write")
  /\ \/ /\ Current(r, copy.revision)
        /\ Put(r, [copy EXCEPT !.revision = @ + 1, !.data = @ + 1])
     \/ ~Current(r, copy.revision) /\ UNCHANGED records
  /\ Return(p)
  /\ UNCHANGED <<cleaned, jobs, fences>>

-----------------------------------------------------------------------------
(* hard_delete: the artifacts, the provider's files, then the records. *)

Unfinished(s) == jobs[s].state \in {"pending", "failed"}

StartHardDelete(p, s) ==
  LET job == jobs[s] IN
  /\ At(p, "idle") /\ Unfinished(s)
  /\ Go(p, IF job.items = {}
           THEN [at |-> "erase", scope |-> s, job |-> job, next |-> 1]
           ELSE [at |-> "clean", scope |-> s, job |-> job, todo |-> job.items, failed |-> {}])
  /\ UNCHANGED <<records, cleaned, jobs, fences>>

\* Mutants: what failed is forgotten; the job is called complete before its records
\* are erased.
CleanedForgetful(p, item, failed) ==
  LET f == frame[p]
      todo == f.todo \ {item} IN
  \/ todo # {} /\ Go(p, [f EXCEPT !.todo = todo]) /\ UNCHANGED jobs
  \/ /\ todo = {}
     /\ Go(p, [at |-> "erase", scope |-> f.scope, job |-> [f.job EXCEPT !.items = {}], next |-> 1])
     /\ UNCHANGED jobs
CleanedComplete(p, item, failed) ==
  LET f == frame[p]
      todo == f.todo \ {item} IN
  \/ /\ todo # {}
     /\ Go(p, [f EXCEPT !.todo = todo, !.failed = failed])
     /\ UNCHANGED jobs
  \/ /\ todo = {} /\ failed # {}
     /\ Return(p)
     /\ jobs' = [jobs EXCEPT ![f.scope] = [f.job EXCEPT !.state = "failed", !.items = failed]]
  \/ /\ todo = {} /\ failed = {}
     /\ Go(p, [at |-> "erase", scope |-> f.scope, job |-> [f.job EXCEPT !.items = {}], next |-> 1])
     /\ jobs' = [jobs EXCEPT ![f.scope] = [f.job EXCEPT !.state = "complete", !.items = {}]]

\* After its last item a pass either writes what failed, or goes on to the records.
Cleaned(p, item, failed) ==
  LET f == frame[p]
      todo == f.todo \ {item} IN
  \/ /\ todo # {}
     /\ Go(p, [f EXCEPT !.todo = todo, !.failed = failed])
     /\ UNCHANGED jobs
  \/ /\ todo = {} /\ failed # {}
     /\ Return(p)
     /\ jobs' = [jobs EXCEPT ![f.scope] = [f.job EXCEPT !.state = "failed", !.items = failed]]
  \/ /\ todo = {} /\ failed = {}
     /\ Go(p, [at |-> "erase", scope |-> f.scope, job |-> [f.job EXCEPT !.items = {}], next |-> 1])
     /\ UNCHANGED jobs

\* Artifacts come before the provider's files.
Turn(p, item) ==
  /\ At(p, "clean") /\ item \in frame[p].todo
  /\ item \in Refs => frame[p].todo \subseteq Refs

\* delete_artifact refuses an artifact that is gone.
Deletable(item) == item \in Artifacts => item \notin cleaned

CleanItem(p, item) ==
  /\ Turn(p, item)
  /\ Deletable(item)
  /\ cleaned' = cleaned \cup {item}
  /\ Cleaned(p, item, frame[p].failed)
  /\ UNCHANGED <<records, fences>>

\* The store or the provider fails; a provider may have deleted the file. An artifact
\* that is gone already is a failure, too.
CleanItemFails(p, item) ==
  /\ Turn(p, item)
  /\ \/ UNCHANGED cleaned
     \/ item \in Refs /\ cleaned' = cleaned \cup {item}
  /\ Cleaned(p, item, frame[p].failed \cup {item})
  /\ UNCHANGED <<records, fences>>

\* The record is swapped against the tombstone the job remembers; one that changed
\* fails the job, with nothing left to clean up.
EraseResource(p) ==
  LET f == frame[p]
      r == f.scope[f.next]
      tombstone == f.job.tombstones[f.next] IN
  /\ At(p, "erase")
  /\ \/ /\ Current(r, tombstone.revision) /\ f.next < Len(f.scope)
        /\ Put(r, Erased(tombstone))
        /\ Go(p, [f EXCEPT !.next = @ + 1])
        /\ UNCHANGED jobs
     \/ /\ Current(r, tombstone.revision) /\ f.next = Len(f.scope)
        /\ Put(r, Erased(tombstone))
        /\ Return(p)
        /\ jobs' = [jobs EXCEPT ![f.scope] = [f.job EXCEPT !.state = "complete"]]
     \/ /\ ~Current(r, tombstone.revision)
        /\ Return(p)
        /\ jobs' = [jobs EXCEPT ![f.scope] = [f.job EXCEPT !.state = "failed"]]
        /\ UNCHANGED records
  /\ UNCHANGED <<cleaned, fences>>

-----------------------------------------------------------------------------
\* A call is cancelled at an await.
Crash(p) ==
  /\ ~At(p, "idle")
  /\ Return(p)
  /\ UNCHANGED <<records, cleaned, jobs, fences>>

\* The service starts again, without its memory.
Restart ==
  /\ jobs' = [s \in Scopes |-> NoJob]
  /\ fences' = [r \in Resources |-> 0]
  /\ frame' = [p \in Procs |-> Idle]
  /\ UNCHANGED <<records, cleaned>>

-----------------------------------------------------------------------------
Start(p) ==
  \/ \E g \in Graphs : StartTombstone(p, g)
  \/ \E r \in Resources, expected \in {1, 2} : StartWrite(p, r, expected)
  \/ \E s \in Scopes : StartHardDelete(p, s)

Continue(p) ==
  \/ ReadTarget(p) \/ SwapTarget(p) \/ SwapTargetLost(p)
  \/ LookWrite(p) \/ SwapWrite(p)
  \/ \E item \in Items : CleanItem(p, item) \/ CleanItemFails(p, item)
  \/ EraseResource(p)

Next == Restart \/ \E p \in Procs : Start(p) \/ Continue(p) \/ Crash(p)

Spec == Init /\ [][Next]_vars

-----------------------------------------------------------------------------
TypeOK ==
  /\ records \in [Resources -> Record]
  /\ cleaned \subseteq Items
  /\ jobs \in [Scopes -> Job \cup {NoJob}]
  /\ fences \in [Resources -> Nat]
  /\ frame \in [Procs -> Frame \cup {Idle}]

\* A late writer never reaches a deleted resource, nor does a second deletion: its
\* generation stays, and it changes once more only to lose its data for good
\* (write_if_current, tombstone, hard_delete).
NoLateWrite ==
  [][\A r \in Resources :
       records[r].deleted /\ records'[r] # records[r] =>
         ~records[r].hard /\ records'[r] = Erased(records[r])]_vars

\* What a job remembers of its resources is what they are, or were until they were
\* erased: hard_delete never works on a resource that another deletion took.
TombstonesStand ==
  \A s \in Scopes : jobs[s] # NoJob =>
    \A i \in DOMAIN s :
      records[s[i]] \in {jobs[s].tombstones[i], Erased(jobs[s].tombstones[i])}

\* A record is erased only after everything that some deletion of it had to clean up
\* is gone, over failed and cancelled passes (hard_delete).
ErasedAfterCleanup ==
  \A r \in Resources : records[r].hard =>
    \E g \in Graphs : r \in Range(g.resources) /\ g.items \subseteq cleaned

\* A job that is complete has left nothing of its resources and has no artifact
\* pending, whatever other passes did (hard_delete).
CompleteLeavesNothing ==
  \A s \in Scopes : jobs[s].state = "complete" =>
    jobs[s].items = {} /\ \A r \in Range(s) : records[r].hard
=============================================================================
