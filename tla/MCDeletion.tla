----------------------------- MODULE MCDeletion -----------------------------
EXTENDS Deletion

CONSTANTS asset, run, frames, file

\* A source with its run, and the run alone with two readings of what it leaves:
\* both are one deletion for the service.
MCGraphs ==
  {[resources |-> <<asset, run>>, items |-> {frames, file}],
   [resources |-> <<run>>, items |-> {frames}],
   [resources |-> <<run>>, items |-> {file}]}
=============================================================================
