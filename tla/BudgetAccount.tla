---------------------------- MODULE BudgetAccount ---------------------------
(***************************************************************************)
(* The stored account of the budget ledger, and the promise it keeps.      *)
(***************************************************************************)
EXTENDS Integers, FiniteSetsExt

CONSTANTS
  Reservations,   \* reservation ids
  Limit,          \* budget_microusd
  Estimate,       \* what a run reserves
  Charges         \* what a call may turn out to cost

VARIABLE account  \* [revision, open, estimated, measured, released]

Reserved(open) == MapThenSumSet(LAMBDA i : open[i], Reservations)

-----------------------------------------------------------------------------
\* The optimistic account keeps the promise of BudgetPromise: calls that decide
\* on copies read earlier change it as if they took effect one at a time, and no
\* reservation is lost, ended twice or made beyond the limit.
Ledger == INSTANCE BudgetPromise WITH
  Amounts <- {0, Estimate} \cup Charges,
  open <- account.open, measured <- account.measured
LedgerKeepsPromise == Ledger!Spec

=============================================================================
