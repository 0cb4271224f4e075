------------------------------- MODULE MCJobs -------------------------------
EXTENDS Jobs, TLC

\* The processes are interchangeable.
ProcSymmetry == Permutations(Procs)
=============================================================================
