--------------------------- MODULE FencedProgress ---------------------------
(***************************************************************************)
(* What the job records promise to everyone who reads them, with no leases,*)
(* clocks, executors or half-finished calls: a run is handed to numbered   *)
(* attempts one after the other, the progress an attempt reports only      *)
(* grows, and once the run is closed neither moves again.                  *)
(***************************************************************************)
EXTENDS Integers

CONSTANTS
  Runs,
  Sequences   \* the progress an attempt may report

VARIABLES
  fence,      \* the number of attempts the run was handed to
  progress,   \* the newest progress of the latest attempt, -1 before any
  closed      \* whether the run accepts no further attempt or progress

vars == <<fence, progress, closed>>

Init ==
  /\ fence = [r \in Runs |-> 0]
  /\ progress = [r \in Runs |-> -1]
  /\ closed = [r \in Runs |-> FALSE]

\* A new attempt takes the run over and starts its progress afresh.
Grant(r) ==
  /\ ~closed[r]
  /\ fence' = [fence EXCEPT ![r] = @ + 1]
  /\ progress' = [progress EXCEPT ![r] = -1]
  /\ UNCHANGED closed

\* The latest attempt reports more progress than it had.
Advance(r, n) ==
  /\ ~closed[r]
  /\ n > progress[r]
  /\ progress' = [progress EXCEPT ![r] = n]
  /\ UNCHANGED <<fence, closed>>

Close(r) ==
  /\ closed' = [closed EXCEPT ![r] = TRUE]
  /\ UNCHANGED <<fence, progress>>

Next ==
  \E r \in Runs :
    \/ Grant(r)
    \/ \E n \in Sequences : Advance(r, n)
    \/ Close(r)

Spec == Init /\ [][Next]_vars
=============================================================================
