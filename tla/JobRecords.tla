----------------------------- MODULE JobRecords -----------------------------
(***************************************************************************)
(* The job record of a run and what JobDispatchService does to one record  *)
(* inside _mutate. Jobs puts these changes between the awaits of           *)
(* concurrent processes; LocalProfile puts several of them into one gated  *)
(* transaction.                                                            *)
(***************************************************************************)
EXTENDS Integers

CONSTANT LeaseTime   \* lease_seconds

None == -1

Terminal == {"completed", "partial", "failed", "cancelled"}
Finished == Terminal \ {"cancelled"}
Active   == {"queued", "dispatching", "dispatched", "running"}

\* The stored record. heartbeat_at is written but never read, and the
\* revision only makes _mutate atomic, so neither is kept. "absent" is a run
\* without a record.
JobRecord ==
  [state : Active \cup Terminal \cup {"absent"},
   invocation : Int, cancel_requested : BOOLEAN,
   attempt : Int, fence : Nat, expires : Int, progress : Int]

Absent ==
  [state |-> "absent", invocation |-> None, cancel_requested |-> FALSE,
   attempt |-> None, fence |-> 0, expires |-> None, progress |-> -1]

\* _validate_attempt
Valid(record, l) == record.attempt = l.attempt /\ record.fence = l.fence

\* Mutant: claim looks at the state alone.
ClaimableByState(record) == record.state \notin Terminal

Claimable(record) == record.state \notin Terminal /\ ~record.cancel_requested
LiveAt(record, t) == record.attempt # None /\ record.expires # None /\ t < record.expires

\* Mutants: the fence is not raised; the state is one JobState does not have.
NewAttemptSameFence(record, id, t) ==
  [record EXCEPT !.attempt = id, !.expires = t + LeaseTime, !.progress = -1, !.state = "running"]

NewAttempt(record, id, t) ==
  [record EXCEPT !.fence = @ + 1, !.attempt = id, !.expires = t + LeaseTime,
                 !.progress = -1, !.state = "running"]

\* The answer of submit is kept once, and moves no terminal run.
Submitted(record, id) ==
  [record EXCEPT !.invocation = IF @ = None THEN id ELSE @,
                 !.state = IF @ \in Terminal THEN @ ELSE "dispatched"]

\* finish ends the attempt, cancel the run; neither looks at the state.
FinishedAs(record, outcome) == [record EXCEPT !.state = outcome, !.expires = None]
CancelledAt(record, t) ==
  [record EXCEPT !.cancel_requested = TRUE, !.state = "cancelled", !.expires = t]
=============================================================================
